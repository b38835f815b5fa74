---------------------------- MODULE DechunkProofs ----------------------------
(***************************************************************************)
(* Proofs about Dechunk, for every input, base and width of unsigned long, *)
(* its types and that the counter of the current chunk never wraps; and    *)
(* about ChunkedTransfer, for all buckets and whatever follows, that what  *)
(* is decoded is what was encoded, and that what follows is kept.          *)
(*                                                                         *)
(* TypeOK and HexlenCovers need each other: only because the buffer is     *)
(* shorter than the chunk does dechunk_flush leave hexlen a natural number.*)
(*                                                                         *)
(* The invariant of a transfer, Coding, says that buffer and wire together *)
(* are the rest of an encoding: data of a chunk, what is left of its line  *)
(* end, other chunks, and the last one once the filter is closed.  Before  *)
(* it come lemmas about units of text, about sequences put together and    *)
(* cut, about the text on its way, and about the digits that "%lx" writes  *)
(* and strtoul() reads.                                                    *)
(***************************************************************************)
EXTENDS ChunkedTransfer, SeqLemmas, SequenceTheorems, TLAPS

Inv == TypeOK /\ HexlenCovers

Text == Seq(Char)
-----------------------------------------------------------------------------
\* php_http_buffer_cut leaves a text.
LEMMA CutText ==
  ASSUME NEW s \in Text, NEW n \in Nat
  PROVE  Cut(s, n) \in Text
<1>1. Len(s) \in Nat /\ DOMAIN s = 1 .. Len(s)
  BY LenProperties DEF Text
<1>2. \A i \in n + 1 .. Len(s) : s[i] \in Char
  BY <1>1, ElementOfSeq DEF Text
<1> QED
  BY <1>1, <1>2, SubSeqProperties DEF Cut, Text

\* A call that returns, with what the step leaves in the buffer.
LEMMA ReturnInv ==
  ASSUME Inv, NEW result \in {"SUCCESS", "FAILURE"}, Return(result), UNCHANGED fed,
         buffer' \in Text, hexlen' \in 0 .. ULONG_MAX, zeroed' \in BOOLEAN,
         hexlen' # 0 => Len(buffer') < hexlen'
  PROVE  Inv'
<1>1. out' \in Text /\ tmp' \in Text
  BY ConcatProperties DEF Inv, TypeOK, Return, Text
<1>2. running' \in BOOLEAN /\ rc' \in {"SUCCESS", "FAILURE"} /\ flush_full' \in BOOLEAN
  BY DEF Inv, TypeOK, Return
<1>3. fed' \in 0 .. MaxFed
  BY DEF Inv, TypeOK
<1> QED
  BY <1>1, <1>2, <1>3 DEF Inv, TypeOK, HexlenCovers, Text

\* A round after which the loop goes on.
LEMMA ContinueInv ==
  ASSUME Inv, running, Continue, UNCHANGED fed,
         buffer' \in Text, hexlen' \in 0 .. ULONG_MAX, zeroed' \in BOOLEAN, tmp' \in Text
  PROVE  Inv'
<1>1. running' /\ running' \in BOOLEAN
  BY DEF Inv, TypeOK, Continue
<1> QED
  BY <1>1 DEF Inv, TypeOK, HexlenCovers, Continue, Text

LEMMA LoopInv == ASSUME Inv, Loop, UNCHANGED fed PROVE Inv'
<1>0. /\ buffer \in Text /\ Len(buffer) \in Nat /\ DOMAIN buffer = 1 .. Len(buffer)
      /\ hexlen \in 0 .. ULONG_MAX /\ ULONG_MAX \in Nat
      /\ tmp \in Text /\ zeroed \in BOOLEAN
  BY LenProperties, DechunkAssumption DEF Inv, TypeOK, Text
<1>e. <<>> \in Text /\ Len(<<>>) = 0
  BY DEF Text
<1>1. CASE BufferEmpty
  <2>1. buffer' \in Text /\ hexlen' \in 0 .. ULONG_MAX /\ zeroed' \in BOOLEAN
    BY <1>0, <1>1 DEF BufferEmpty, ctx
  <2>2. hexlen' # 0 => Len(buffer') < hexlen'
    BY <1>0, <1>e, <1>1 DEF BufferEmpty, ctx
  <2> QED
    BY <1>1, <2>1, <2>2, ReturnInv DEF BufferEmpty
<1>2. CASE ChunkIncomplete
  <2>1. buffer' \in Text /\ hexlen' \in 0 .. ULONG_MAX /\ zeroed' \in BOOLEAN
    BY <1>0, <1>2 DEF ChunkIncomplete, ctx
  <2>2. hexlen' # 0 => Len(buffer') < hexlen'
    BY <1>2 DEF ChunkIncomplete, ctx
  <2> QED
    BY <1>2, <2>1, <2>2, ReturnInv DEF ChunkIncomplete
<1>3. CASE ChunkFlush
  <2>1. tmp' \in Text
    BY <1>0, <1>3, ConcatProperties DEF ChunkFlush, Text
  <2>2. hexlen' \in 0 .. ULONG_MAX
    BY <1>0, <1>3 DEF ChunkFlush
  <2>3. buffer' \in Text /\ zeroed' \in BOOLEAN
    BY <1>0, <1>e, <1>3 DEF ChunkFlush
  <2> QED
    BY <1>3, <2>1, <2>2, <2>3, ContinueInv DEF ChunkFlush, Round
<1>4. CASE ChunkComplete
  <2>1. SubSeq(buffer, 1, hexlen) \in Text
    <3>1. \A i \in 1 .. hexlen : buffer[i] \in Char
      BY <1>0, <1>4, ElementOfSeq DEF ChunkComplete, Text
    <3> QED
      BY <1>0, <3>1, SubSeqProperties DEF Text
  <2>2. tmp' \in Text
    BY <1>0, <1>4, <2>1, ConcatProperties DEF ChunkComplete, Text
  <2>3. buffer' \in Text
    BY <1>0, <1>4, CutText DEF ChunkComplete
  <2>4. hexlen' \in 0 .. ULONG_MAX /\ zeroed' \in BOOLEAN
    BY <1>0, <1>4 DEF ChunkComplete
  <2> QED
    BY <1>4, <2>2, <2>3, <2>4, ContinueInv DEF ChunkComplete, Round
<1>5. ASSUME NEW n \in 0 .. Len(buffer), SkipEols(n) PROVE Inv'
  <2>1. /\ buffer' \in Text /\ hexlen' \in 0 .. ULONG_MAX /\ zeroed' \in BOOLEAN
        /\ tmp' \in Text
    BY <1>0, <1>e, <1>5 DEF SkipEols
  <2> QED
    BY <1>5, <2>1, ContinueInv DEF SkipEols, Round
<1>6. ASSUME NEW n \in 0 .. Len(buffer), SizeIncomplete(n) PROVE Inv'
  <2>1. buffer' \in Text
    BY <1>0, <1>6, CutText DEF SizeIncomplete
  <2>2. hexlen' \in 0 .. ULONG_MAX /\ zeroed' \in BOOLEAN /\ hexlen' = 0
    BY <1>0, <1>6 DEF SizeIncomplete
  <2> QED
    BY <1>6, <2>1, <2>2, ReturnInv DEF SizeIncomplete
<1>7. ASSUME NEW n \in 0 .. Len(buffer), SizeInvalid(n) PROVE Inv'
  <2>1. buffer' \in Text
    BY <1>0, <1>7, CutText DEF SizeInvalid
  <2>2. hexlen' \in 0 .. ULONG_MAX /\ zeroed' \in BOOLEAN /\ hexlen' = 0
    BY <1>0, <1>7 DEF SizeInvalid
  <2> QED
    BY <1>7, <2>1, <2>2, ReturnInv DEF SizeInvalid
<1>8. ASSUME NEW n \in 0 .. Len(buffer), NEW size \in 0 .. ULONG_MAX, SizeRead(n, size)
      PROVE  Inv'
  <2>1. buffer' \in Text
    <3> PICK i \in n + 1 .. Len(buffer) :
          Left(size, Cut(buffer, i - 1 + EolLen(buffer, i)), buffer')
      BY <1>8 DEF SizeRead
    <3> DEFINE rest == Cut(buffer, i - 1 + EolLen(buffer, i))
    <3>1. i - 1 + EolLen(buffer, i) \in Nat
      BY <1>0 DEF EolLen
    <3>2. rest \in Text
      BY <1>0, <3>1, CutText
    <3>3. Len(rest) \in Nat
      BY <3>2, LenProperties DEF Text
    <3>4. CASE size # 0
      BY <3>2, <3>4 DEF Left
    <3>5. CASE size = 0
      <4> HIDE DEF rest
      <4>1. PICK k \in 0 .. Len(rest) : buffer' = Cut(rest, k)
        BY <3>5 DEF Left, rest
      <4> QED
        BY <3>2, <3>3, <4>1, CutText
    <3> QED
      BY <3>4, <3>5
  <2>2. hexlen' = size /\ running
    BY <1>8 DEF SizeRead, WaitFor, Round
  <2>3. CASE size # 0
    <3>1. Continue /\ tmp' = tmp /\ zeroed' = zeroed
      BY <1>8, <2>3 DEF SizeRead
    <3> QED
      BY <1>0, <2>1, <2>2, <3>1, ContinueInv
  <2>4. CASE size = 0
    <3>1. Return("SUCCESS") /\ zeroed' = TRUE
      BY <1>8, <2>4 DEF SizeRead
    <3>2. zeroed' \in BOOLEAN
      BY <3>1, Zenon
    <3> QED
      BY <2>1, <2>2, <2>4, <3>1, <3>2, ReturnInv
  <2> QED
    BY <2>3, <2>4
<1> QED
  BY <1>1, <1>2, <1>3, <1>4, <1>5, <1>6, <1>7, <1>8 DEF Loop

LEMMA OtherInv ==
  ASSUME Inv
  PROVE  /\ \A data \in Input : Feed(data) => Inv'
         /\ Flush /\ UNCHANGED fed => Inv'
         /\ Finish /\ UNCHANGED fed => Inv'
<1>0. /\ buffer \in Text /\ out \in Text /\ Len(buffer) \in Nat
      /\ hexlen \in 0 .. ULONG_MAX /\ ULONG_MAX \in Nat
  BY LenProperties, DechunkAssumption DEF Inv, TypeOK, Text
<1>e. <<>> \in Text /\ Len(<<>>) = 0
  BY DEF Text
<1>1. ASSUME NEW data \in Input, Feed(data) PROVE Inv'
  <2>1. data \in Text /\ Len(data) \in Nat
    BY DechunkAssumption, LenProperties DEF Text
  <2>2. fed' \in 0 .. MaxFed
    BY <1>1, <2>1, DechunkAssumption DEF Feed, Inv, TypeOK
  <2>3. buffer' \in Text
    BY <1>0, <1>1, <2>1, ConcatProperties DEF Feed, Update, Text
  <2>4. /\ running' \in BOOLEAN /\ rc' \in {"SUCCESS", "FAILURE"}
        /\ HexlenCovers'
    <3>1. CASE zeroed
      BY <1>1, <3>1 DEF Feed, Update, Inv, TypeOK, HexlenCovers
    <3>2. CASE ~zeroed
      BY <1>1, <3>2 DEF Feed, Update, Inv, TypeOK, HexlenCovers
    <3> QED
      BY <3>1, <3>2
  <2>5. tmp' \in Text
    BY <1>e, <1>1 DEF Feed, Update
  <2> QED
    BY <1>1, <2>2, <2>3, <2>4, <2>5 DEF Feed, Update, Inv, TypeOK, Text
<1>2. ASSUME Flush, UNCHANGED fed PROVE Inv'
  <2>1. Len(buffer) < hexlen
    BY <1>2 DEF Inv, HexlenCovers, Flush
  <2>2. hexlen' \in 0 .. ULONG_MAX /\ 0 < hexlen'
    BY <1>0, <1>2, <2>1 DEF Flush
  <2>3. out' \in Text /\ buffer' = <<>>
    BY <1>0, <1>2, ConcatProperties DEF Flush, Text
  <2>4. HexlenCovers'
    BY <1>e, <2>2, <2>3 DEF HexlenCovers
  <2> QED
    BY <1>2, <1>e, <2>2, <2>3, <2>4 DEF Flush, Inv, TypeOK, Text
<1>3. ASSUME Finish, UNCHANGED fed PROVE Inv'
  <2>1. zeroed' \in BOOLEAN
    BY <1>3, Zenon DEF Finish
  <2>2. hexlen' \in 0 .. ULONG_MAX /\ hexlen' = 0
    BY <1>0, <1>3 DEF Finish
  <2> QED
    BY <1>3, <1>e, <2>1, <2>2 DEF Finish, Inv, TypeOK, HexlenCovers, Text
<1> QED
  BY <1>1, <1>2, <1>3

LEMMA InitInv == ASSUME Init PROVE Inv
<1>1. <<>> \in Seq(Char)
  OBVIOUS
<1>2. hexlen \in 0 .. ULONG_MAX /\ fed \in 0 .. MaxFed /\ hexlen = 0
  BY DechunkAssumption DEF Init, StreamInit
<1>3. zeroed \in BOOLEAN /\ running \in BOOLEAN /\ flush_full \in BOOLEAN
  BY Zenon DEF Init, StreamInit
<1>4. buffer \in Seq(Char) /\ tmp \in Seq(Char) /\ out \in Seq(Char)
  BY <1>1 DEF Init, StreamInit
<1>5. rc \in {"SUCCESS", "FAILURE"}
  BY DEF Init, StreamInit
<1> QED
  BY <1>2, <1>3, <1>4, <1>5 DEF Inv, TypeOK, HexlenCovers
-----------------------------------------------------------------------------
\* Inv holds in every reachable state.
THEOREM Invariance == Spec => []Inv
<1>1. Init => Inv
  BY InitInv
<1>2. Inv /\ [Next]_vars => Inv'
  <2> SUFFICES ASSUME Inv, [Next]_vars PROVE Inv'
    OBVIOUS
  <2>1. CASE Next
    BY <2>1, LoopInv, OtherInv DEF Next
  <2>2. CASE UNCHANGED vars
    BY <2>2 DEF vars, stream, ctx, Inv, TypeOK, HexlenCovers
  <2> QED
    BY <2>1, <2>2
<1> QED
  BY <1>1, <1>2, PTL DEF Spec

\* The types of the dechunk context, hexlen within an unsigned long included.
THEOREM TypeCorrect == Spec => []TypeOK
BY Invariance, PTL DEF Inv

\* dechunk_flush and dechunk_update never subtract more from hexlen than it
\* holds, whatever the input and wherever it is cut or flushed.
THEOREM HexlenNeverWraps == Spec => []HexlenCovers
BY Invariance, PTL DEF Inv
-----------------------------------------------------------------------------
(* Texts as units of the wire.                                             *)

\* A text as units, taken together.
LEMMA UnitsAppend ==
  ASSUME NEW S, NEW s \in Seq(S), NEW c \in S
  PROVE  Units(Append(s, c)) = Append(Units(s), <<c>>)
<1> DEFINE t == Append(s, c)
<1>1. Len(s) \in Nat /\ DOMAIN s = 1 .. Len(s) /\ t \in Seq(S) /\ Len(t) = Len(s) + 1
      /\ (\A i \in 1 .. Len(s) : t[i] = s[i]) /\ t[Len(s) + 1] = c
  BY AppendProperties, LenProperties
<1>2. DOMAIN t = 1 .. Len(s) + 1
  BY <1>1, LenProperties
<1>3. \A i \in 1 .. Len(s) : <<s[i]>> \in Seq(S)
  BY ElementOfSeq
<1>4. <<c>> \in Seq(S)
  OBVIOUS
<1>5. Units(s) = [i \in 1 .. Len(s) |-> <<s[i]>>]
  BY <1>1 DEF Units
<1>6. Units(s) \in Seq(Seq(S)) /\ Len(Units(s)) = Len(s)
  <2> DEFINE e(i) == <<s[i]>>
  <2>2. Units(s) = [i \in 1 .. Len(s) |-> e(i)] /\ \A i \in 1 .. Len(s) : e(i) \in Seq(S)
    BY <1>3, <1>5
  <2> HIDE DEF e
  <2>1. Units(s) \in [1 .. Len(s) -> Seq(S)]
    BY <2>2
  <2> QED BY <1>1, <2>1
<1> DEFINE u == Append(Units(s), <<c>>)
<1>7. u \in Seq(Seq(S)) /\ Len(u) = Len(s) + 1
      /\ (\A i \in 1 .. Len(s) : u[i] = Units(s)[i]) /\ u[Len(s) + 1] = <<c>>
  BY <1>4, <1>6, AppendProperties
<1> HIDE DEF t, u
<1>8. Units(t) = [i \in 1 .. Len(s) + 1 |-> <<t[i]>>]
  BY <1>2 DEF Units
<1>9. u = [i \in 1 .. Len(s) + 1 |-> u[i]]
  BY <1>7, LenProperties
<1>10. ASSUME NEW i \in 1 .. Len(s) + 1 PROVE u[i] = <<t[i]>>
  <2>1. CASE i \in 1 .. Len(s)
    BY <1>1, <1>5, <1>7, <2>1
  <2>2. CASE i = Len(s) + 1
    BY <1>1, <1>7, <2>2
  <2> QED BY <1>1, <2>1, <2>2
<1> QED BY <1>8, <1>9, <1>10 DEF t, u

LEMMA UnitsProperties ==
  ASSUME NEW S, NEW s \in Seq(S)
  PROVE  /\ Units(s) \in Seq({<<c>> : c \in S})
         /\ Units(s) \in Seq(Seq(S))
         /\ Len(Units(s)) = Len(s)
         /\ \A i \in 1 .. Len(s) : Units(s)[i] = <<s[i]>>
<1>1. Len(s) \in Nat /\ DOMAIN s = 1 .. Len(s) /\ \A i \in 1 .. Len(s) : s[i] \in S
  BY LenProperties, ElementOfSeq
<1>2. Units(s) = [i \in 1 .. Len(s) |-> <<s[i]>>]
  BY <1>1 DEF Units
<1>3. \A i \in 1 .. Len(s) : <<s[i]>> \in Seq(S) /\ <<s[i]>> \in {<<c>> : c \in S}
  BY <1>1
<1> QED BY <1>1, <1>2, <1>3

LEMMA FlattenUnits ==
  ASSUME NEW S, NEW s \in Seq(S)
  PROVE  FlattenSeq(Units(s)) = s
<1> DEFINE D == {n \in Nat : \A t \in Seq(S) : Len(t) = n => FlattenSeq(Units(t)) = t}
<1>1. ASSUME NEW n \in Nat, \A k \in 0 .. n - 1 : k \in D PROVE n \in D
  <2> SUFFICES ASSUME NEW t \in Seq(S), Len(t) = n PROVE FlattenSeq(Units(t)) = t
    OBVIOUS
  <2>1. CASE t = <<>>
    <3>1. Units(<<>>) = <<>>
      BY DEF Units
    <3> QED BY <2>1, <3>1, FlattenEmpty
  <2>2. CASE t # <<>>
    <3>1. PICK u \in Seq(S), c \in S : t = Append(u, c)
      BY <2>2, SequenceEmptyOrAppend
    <3>2. Len(u) \in Nat /\ n = Len(u) + 1
      BY <3>1, AppendProperties, LenProperties
    <3>3. FlattenSeq(Units(u)) = u
      BY <1>1, <3>2
    <3>4. Units(u) \in Seq(Seq(S))
      BY UnitsProperties
    <3>6. <<c>> \in Seq(S)
      OBVIOUS
    <3>5. FlattenSeq(Units(t)) = u \o <<c>>
      BY <3>1, <3>3, <3>4, <3>6, FlattenAppend, UnitsAppend
    <3> QED BY <3>1, <3>5, AppendIsConcat
  <2> QED BY <2>1, <2>2
<1> HIDE DEF D
<1>2. Len(s) \in D
  BY <1>1, Induction, LenProperties
<1> QED BY <1>2 DEF D
-----------------------------------------------------------------------------
(* Cutting sequences in two.                                               *)

LEMMA CutAt ==
  ASSUME NEW S, NEW s \in Seq(S), NEW n \in 0 .. Len(s)
  PROVE  /\ SubSeq(s, 1, n) \in Seq(S) /\ Len(SubSeq(s, 1, n)) = n
         /\ Cut(s, n) \in Seq(S) /\ Len(Cut(s, n)) = Len(s) - n
         /\ SubSeq(s, 1, n) \o Cut(s, n) = s
<1>1. Len(s) \in Nat /\ n \in Nat /\ n <= Len(s) /\ \A i \in 1 .. Len(s) : s[i] \in S
  BY LenProperties, ElementOfSeq
<1>2. SubSeq(s, 1, n) \in Seq(S) /\ Len(SubSeq(s, 1, n)) = n
  <2>1. \A i \in 1 .. n : s[i] \in S
    BY <1>1
  <2> QED BY <1>1, <2>1, SubSeqProperties
<1>3. Cut(s, n) \in Seq(S) /\ Len(Cut(s, n)) = Len(s) - n
  <2>1. \A i \in n + 1 .. Len(s) : s[i] \in S
    BY <1>1
  <2> QED BY <1>1, <2>1, SubSeqProperties DEF Cut
<1>4. SubSeq(s, 1, n) \o Cut(s, n) = s
  <2>1. 1 \in 1 .. Len(s) + 1 /\ n \in 1 - 1 .. Len(s) /\ Len(s) \in n .. Len(s)
    BY <1>1
  <2>2. SubSeq(s, 1, n) \o SubSeq(s, n + 1, Len(s)) = SubSeq(s, 1, Len(s))
    BY <2>1, ConcatAdjacentSubSeq
  <2> QED BY <2>2, SubSeqFull DEF Cut
<1> QED BY <1>2, <1>3, <1>4

\* Two ways to put a sequence together: the longer first part begins with the shorter.
Same(u, w, x, v) == u \o w = x \o v
Rest(T, u, w, x, v) == \E r \in T : u = x \o r /\ r \o w = v

LEMMA LongerFirst ==
  ASSUME NEW T, SeqSet(T), NEW u \in T, NEW w \in T, NEW x \in T, NEW v \in T,
         Same(u, w, x, v), Len(x) <= Len(u)
  PROVE  Rest(T, u, w, x, v)
<1>1. SUFFICES ASSUME u \o w = x \o v, Len(x) <= Len(u)
               PROVE  \E r \in T : u = x \o r /\ r \o w = v
  BY DEF Same, Rest
<1>2. \E r \in T : u = x \o r
  <2>1. PICK S : T = Seq(S)
    BY DEF SeqSet
  <2>2. u \in Seq(S) /\ w \in Seq(S) /\ x \in Seq(S) /\ v \in Seq(S)
    BY <2>1
  <2> DEFINE n == Len(x)
             begin == SubSeq(u, 1, n)
             rest == Cut(u, n)
  <2>3. n \in Nat /\ Len(u) \in Nat /\ Len(w) \in Nat /\ Len(v) \in Nat /\ n \in 0 .. Len(u)
    BY <1>1, <2>2, LenProperties
  <2>4. begin \in Seq(S) /\ Len(begin) = n /\ rest \in Seq(S) /\ begin \o rest = u
    BY <2>2, <2>3, CutAt
  <2>5. \A i \in 1 .. n : begin[i] = u[i]
    <3>1. \A i \in 1 .. n : u[i] \in S
      BY <2>2, <2>3, ElementOfSeq
    <3> QED BY <2>3, <3>1, SubSeqProperties
  <2>6. begin = x
    <3>1. \A i \in 1 .. n : (u \o w)[i] = u[i] /\ (x \o v)[i] = x[i]
      BY <2>2, <2>3, ConcatProperties
    <3> HIDE DEF begin, n
    <3>2. \A i \in 1 .. n : begin[i] = x[i]
      BY <1>1, <2>5, <3>1
    <3> QED BY <2>2, <2>4, <3>2, SeqEqual DEF n
  <2> QED BY <2>1, <2>4, <2>6
<1>3. PICK q \in T : u = x \o q
  BY <1>2
<1>4. q \o w \in T
  BY JoinIn
<1>5. x \o (q \o w) = x \o v => q \o w = v
  BY <1>4, JoinCancel
<1>6. (x \o q) \o w = x \o (q \o w)
  BY JoinAssoc, SMTT(30)
<1> QED BY <1>1, <1>3, <1>5, <1>6

LEMMA UnitsConcat ==
  ASSUME NEW S, NEW s \in Seq(S), NEW t \in Seq(S)
  PROVE  Units(s \o t) = Units(s) \o Units(t)
<1> DEFINE D == {n \in Nat : \A u \in Seq(S) : Len(u) = n => Units(s \o u) = Units(s) \o Units(u)}
           T == Seq(S)
<1>0. Units(s) \in Seq(T)
  BY UnitsProperties
<1>1. ASSUME NEW n \in Nat, \A k \in 0 .. n - 1 : k \in D PROVE n \in D
  <2> SUFFICES ASSUME NEW u \in Seq(S), Len(u) = n
               PROVE  Units(s \o u) = Units(s) \o Units(u)
    OBVIOUS
  <2>1. CASE u = <<>>
    <3>1. Units(<<>>) = <<>>
      BY DEF Units
    <3> HIDE DEF T
    <3>2. Units(s) \o <<>> = Units(s)
      BY <1>0, ConcatEmptySeq
    <3> QED BY <2>1, <3>1, <3>2, ConcatEmptySeq
  <2>2. CASE u # <<>>
    <3>1. PICK v \in Seq(S), c \in S : u = Append(v, c)
      BY <2>2, SequenceEmptyOrAppend
    <3>2. Len(v) \in Nat /\ n = Len(v) + 1
      BY <3>1, AppendProperties, LenProperties
    <3>3. Units(s \o v) = Units(s) \o Units(v)
      <4>1. Len(v) \in 0 .. n - 1
        BY <3>2
      <4> HIDE DEF D
      <4>2. Len(v) \in D
        BY <1>1, <4>1
      <4> QED BY <4>2 DEF D
    <3>4. s \o v \in Seq(S) /\ <<c>> \in Seq(S)
      BY ConcatProperties
    <3>5. s \o u = Append(s \o v, c)
      <4>1. u = v \o <<c>> /\ Append(s \o v, c) = (s \o v) \o <<c>>
        BY <3>1, <3>4, AppendIsConcat
      <4> QED BY <3>4, <4>1, ConcatAssociative
    <3>6. Units(s \o u) = Append(Units(s \o v), <<c>>) /\ Units(u) = Append(Units(v), <<c>>)
      BY <3>1, <3>4, <3>5, UnitsAppend
    <3>7. Units(v) \in Seq(T) /\ <<c>> \in T /\ << <<c>> >> \in Seq(T)
      <4>1. Units(v) \in Seq(T)
        BY UnitsProperties
      <4>2. <<c>> \in T
        OBVIOUS
      <4> HIDE DEF T
      <4> QED BY <4>1, <4>2
    <3> HIDE DEF T, D
    <3>8. PICK e : e = <<c>>
      OBVIOUS
    <3>9. Append(Units(s \o v), e) = (Units(s) \o Units(v)) \o <<e>>
      <4>1. Units(s) \o Units(v) \in Seq(T)
        BY <1>0, <3>7, ConcatProperties
      <4> QED BY <3>3, <3>7, <3>8, <4>1, AppendIsConcat
    <3>10. Append(Units(v), e) = Units(v) \o <<e>>
      BY <3>7, <3>8, AppendIsConcat
    <3>11. <<e>> \in Seq(T)
      BY <3>7, <3>8
    <3>12. (Units(s) \o Units(v)) \o <<e>> = Units(s) \o (Units(v) \o <<e>>)
      BY <1>0, <3>7, <3>11, ConcatAssociative, SMTT(30)
    <3> QED BY <3>6, <3>8, <3>9, <3>10, <3>12
  <2> QED BY <2>1, <2>2
<1> HIDE DEF D
<1>2. Len(t) \in D
  BY <1>1, Induction, LenProperties
<1> QED BY <1>2 DEF D

-----------------------------------------------------------------------------
(* The text on its way, in units.                                          *)

Unit == {<<c>> : c \in Char} \cup {<<"CR", "LF">>}

LEMMA UnitSeqs ==
  /\ Seq(Unit) \subseteq Seq(Text)
  /\ \A s \in Text : Units(s) \in Seq(Unit) /\ Len(Units(s)) = Len(s)
<1>1. Unit \subseteq Text
  <2>1. \A c \in Char : <<c>> \in Text
    BY DEF Text
  <2>2. <<"CR", "LF">> \in Text
    BY DEF Text, Char, Blank, Eol
  <2> QED BY <2>1, <2>2 DEF Unit
<1>2. \A s \in Seq(Unit) : s \in Seq(Text)
  <2> HIDE DEF Text
  <2> QED BY <1>1, SeqMonotonic
<1>3. ASSUME NEW s \in Text PROVE Units(s) \in Seq(Unit) /\ Len(Units(s)) = Len(s)
  <2>1. Units(s) \in Seq({<<c>> : c \in Char}) /\ Len(Units(s)) = Len(s)
    BY UnitsProperties DEF Text
  <2>2. {<<c>> : c \in Char} \subseteq Unit
    BY DEF Unit
  <2> QED BY <2>1, <2>2, SeqMonotonic
<1> QED BY <1>2, <1>3

\* b holds what has been received of the units all, and w is the rest.
Holds(b, w, all) == \E u \in Seq(Unit) : FlattenSeq(u) = b /\ u \o w = all

Wire == Seq(Unit)

LEMMA TextAndWire == SeqSet(Text) /\ SeqSet(Wire)
BY DEF SeqSet, Text, Wire

LEMMA WireAssoc == \A u, v, w \in Wire : (u \o v) \o w = u \o (v \o w)
<1> SUFFICES ASSUME NEW u \in Wire, NEW v \in Wire, NEW w \in Wire
             PROVE  (u \o v) \o w = u \o (v \o w)
  OBVIOUS
<1> QED BY TextAndWire, JoinAssoc

Regroups(u, v, w) == (u \o v) \o w = u \o (v \o w)

LEMMA WireRegroups == \A u, v, w \in Wire : Regroups(u, v, w)
BY WireAssoc DEF Regroups

LEMMA TextAssoc == \A s, t, u \in Text : (s \o t) \o u = s \o (t \o u)
<1> SUFFICES ASSUME NEW s \in Text, NEW t \in Text, NEW u \in Text
             PROVE  (s \o t) \o u = s \o (t \o u)
  OBVIOUS
<1> QED BY TextAndWire, JoinAssoc

LEMMA TextRegroups == \A s, t, u \in Text : Regroups(s, t, u)
BY TextAssoc DEF Regroups

LEMMA CutInTwo ==
  ASSUME NEW T, SeqSet(T), NEW s \in T, NEW n \in 0 .. Len(s)
  PROVE  /\ SubSeq(s, 1, n) \in T /\ Len(SubSeq(s, 1, n)) = n
         /\ Cut(s, n) \in T /\ Len(Cut(s, n)) = Len(s) - n
         /\ SubSeq(s, 1, n) \o Cut(s, n) = s
<1>0. PICK S : T = Seq(S)
  BY DEF SeqSet
<1> QED BY <1>0, CutAt

LEMMA WireText ==
  /\ \A u, w \in Wire : FlattenSeq(u) \in Text /\ FlattenSeq(u \o w) = FlattenSeq(u) \o FlattenSeq(w)
  /\ \A s \in Text : Units(s) \in Wire /\ Len(Units(s)) = Len(s) /\ FlattenSeq(Units(s)) = s
  /\ \A s, t \in Text : Units(s \o t) = Units(s) \o Units(t)
<1>1. ASSUME NEW u \in Wire, NEW w \in Wire
      PROVE  FlattenSeq(u) \in Text /\ FlattenSeq(u \o w) = FlattenSeq(u) \o FlattenSeq(w)
  <2>1. u \in Seq(Seq(Char)) /\ w \in Seq(Seq(Char))
    BY UnitSeqs DEF Wire, Text
  <2> QED BY <2>1, FlattenType, FlattenConcat DEF Text
<1>2. ASSUME NEW s \in Text
      PROVE  Units(s) \in Wire /\ Len(Units(s)) = Len(s) /\ FlattenSeq(Units(s)) = s
  <2>1. Units(s) \in Wire /\ Len(Units(s)) = Len(s)
    BY UnitSeqs DEF Wire
  <2>2. FlattenSeq(Units(s)) = s
    BY FlattenUnits DEF Text
  <2> QED BY <2>1, <2>2
<1>3. ASSUME NEW s \in Text, NEW t \in Text PROVE Units(s \o t) = Units(s) \o Units(t)
  BY UnitsConcat DEF Text
<1> QED BY <1>1, <1>2, <1>3

IsJoin(s, u, y) == s = u \o y
InTwo(x, u, y) == \E a, b \in Text : x = a \o b /\ u = Units(a) /\ y = Units(b)

LEMMA UnitsInTwo ==
  ASSUME NEW x \in Text, NEW u \in Wire, NEW y \in Wire
  PROVE  IsJoin(Units(x), u, y) => InTwo(x, u, y)
<1>1. SUFFICES ASSUME Units(x) = u \o y
               PROVE  \E a, b \in Text : x = a \o b /\ u = Units(a) /\ y = Units(b)
  BY DEF IsJoin, InTwo
<1> DEFINE n == Len(u)
           a == SubSeq(x, 1, n)
           b == Cut(x, n)
<1>2. n \in 0 .. Len(x)
  <2>1. Len(u) \in Nat /\ Len(y) \in Nat /\ Len(u \o y) = Len(u) + Len(y)
    BY TextAndWire, JoinLen
  <2>2. Len(Units(x)) = Len(x)
    BY WireText
  <2> QED BY <1>1, <2>1, <2>2
<1>3. a \in Text /\ b \in Text /\ Len(a) = n /\ a \o b = x
  BY <1>2, TextAndWire, CutInTwo
<1> HIDE DEF a, b
<1>4. Units(a) \in Wire /\ Units(b) \in Wire /\ Len(Units(a)) = n /\ Units(a \o b) = Units(a) \o Units(b)
  BY <1>3, WireText
<1>5. PICK ua \in Wire, ub \in Wire : ua = Units(a) /\ ub = Units(b)
  BY <1>4
<1>6. u \o y = ua \o ub /\ Len(ua) = n
  BY <1>1, <1>3, <1>4, <1>5
<1>7. PICK r \in Wire : u = ua \o r /\ r \o y = ub
  <2>1. Len(ua) <= Len(u)
    BY <1>6, TextAndWire, JoinLen
  <2>2. Same(u, y, ua, ub)
    BY <1>6 DEF Same
  <2>3. Rest(Wire, u, y, ua, ub)
    BY <2>1, <2>2, TextAndWire, LongerFirst
  <2> QED BY <2>3 DEF Rest
<1>8. r = <<>>
  <2>1. Len(ua \o r) = Len(ua) + Len(r) /\ Len(ua) \in Nat /\ Len(r) \in Nat
    BY TextAndWire, JoinLen
  <2>2. Len(r) = 0
    BY <1>6, <1>7, <2>1
  <2> QED BY <2>2, TextAndWire, JoinLen
<1>9. u = ua /\ y = ub
  BY <1>7, <1>8, TextAndWire, JoinEmpty
<1> QED BY <1>3, <1>5, <1>9

\* What has been received begins with a text x that is expected, or x with it.
Has(b, w, x, v) == \E q \in Text : b = x \o q /\ Holds(q, w, v)
Lacks(b, w, x, v) ==
  \E y \in Text : y # <<>> /\ x = b \o y /\ b \in Text /\ Holds(<<>>, w, Units(y) \o v)

LEMMA HoldsText ==
  ASSUME NEW b, NEW w \in Wire, NEW x \in Text, NEW v \in Wire, Holds(b, w, Units(x) \o v)
  PROVE  Has(b, w, x, v) \/ Lacks(b, w, x, v)
<1>1. PICK u \in Wire : FlattenSeq(u) = b /\ u \o w = Units(x) \o v
  BY DEF Holds, Wire
<1>2. PICK ux \in Wire : ux = Units(x)
  BY WireText
<1>3. Len(u) \in Nat /\ Len(ux) \in Nat
  BY TextAndWire, JoinLen
<1>4. CASE Len(ux) <= Len(u)
  <2>1. Same(u, w, ux, v)
    BY <1>1, <1>2 DEF Same
  <2>2. PICK r \in Wire : u = ux \o r /\ r \o w = v
    <3>1. Rest(Wire, u, w, ux, v)
      BY <1>4, <2>1, TextAndWire, LongerFirst
    <3> QED BY <3>1 DEF Rest
  <2>3. FlattenSeq(r) \in Text /\ FlattenSeq(ux \o r) = FlattenSeq(ux) \o FlattenSeq(r)
    BY WireText
  <2>4. FlattenSeq(ux) = x
    BY <1>2, WireText
  <2>5. Holds(FlattenSeq(r), w, v)
    BY <2>2 DEF Holds, Wire
  <2> QED BY <1>1, <2>2, <2>3, <2>4, <2>5 DEF Has
<1>5. CASE Len(u) < Len(ux)
  <2>1. Same(ux, v, u, w) /\ Len(u) <= Len(ux)
    BY <1>1, <1>2, <1>3, <1>5 DEF Same
  <2>2. PICK r \in Wire : ux = u \o r /\ r \o v = w
    <3>1. Rest(Wire, ux, v, u, w)
      BY <2>1, TextAndWire, LongerFirst
    <3> QED BY <3>1 DEF Rest
  <2>3. PICK a \in Text, y \in Text : x = a \o y /\ u = Units(a) /\ r = Units(y)
    <3>1. IsJoin(Units(x), u, r)
      BY <1>2, <2>2 DEF IsJoin
    <3>2. InTwo(x, u, r)
      BY <3>1, UnitsInTwo
    <3> QED BY <3>2 DEF InTwo
  <2>4. b = a
    BY <1>1, <2>3, WireText
  <2>5. y # <<>>
    <3>1. Len(x) = Len(a) + Len(y) /\ Len(a) \in Nat /\ (y = <<>> => Len(y) = 0)
      BY <2>3, TextAndWire, JoinLen
    <3>2. Len(u) = Len(a) /\ Len(ux) = Len(x)
      BY <1>2, <2>3, WireText
    <3> QED BY <1>5, <3>1, <3>2
  <2>6. Holds(<<>>, w, Units(y) \o v)
    <3>1. <<>> \in Wire /\ <<>> \o w = w
      BY TextAndWire, JoinIn, JoinEmpty
    <3> QED BY <2>2, <2>3, <3>1, FlattenEmpty DEF Holds, Wire
  <2> QED BY <2>3, <2>4, <2>5, <2>6 DEF Lacks
<1> QED BY <1>3, <1>4, <1>5

LEMMA HoldsMore ==
  ASSUME NEW b, NEW w \in Wire, NEW all \in Wire, Holds(b, w, all), NEW n \in 0 .. Len(w)
  PROVE  Cut(w, n) \in Wire /\ Holds(b \o FlattenSeq(SubSeq(w, 1, n)), Cut(w, n), all)
<1>1. PICK u \in Wire : FlattenSeq(u) = b /\ u \o w = all
  BY DEF Holds, Wire
<1>2. PICK x \in Wire, y \in Wire : x = SubSeq(w, 1, n) /\ y = Cut(w, n) /\ w = x \o y
  <2>1. SubSeq(w, 1, n) \in Wire /\ Cut(w, n) \in Wire /\ SubSeq(w, 1, n) \o Cut(w, n) = w
    BY TextAndWire, CutInTwo
  <2> QED BY <2>1
<1>3. FlattenSeq(u \o x) = b \o FlattenSeq(x) /\ u \o x \in Wire
  BY <1>1, WireText, TextAndWire, JoinIn
<1>4. (u \o x) \o y = u \o (x \o y)
  BY WireAssoc, SMTT(30)
<1>5. (u \o x) \o y = all
  BY <1>1, <1>2, <1>4
<1>6. Holds(b \o FlattenSeq(x), y, all)
  BY <1>3, <1>5 DEF Holds, Wire
<1> QED BY <1>2, <1>6

LEMMA HoldsAdd ==
  ASSUME NEW b, NEW w \in Wire, NEW all \in Wire, Holds(b, w, all), NEW more \in Wire
  PROVE  Holds(b, w \o more, all \o more)
<1>1. PICK u \in Wire : FlattenSeq(u) = b /\ u \o w = all
  BY DEF Holds, Wire
<1>2. (u \o w) \o more = u \o (w \o more)
  BY WireAssoc
<1>3. u \o (w \o more) = all \o more
  BY <1>1, <1>2
<1> QED BY <1>1, <1>3 DEF Holds, Wire

LEMMA HoldsAll ==
  ASSUME NEW b, NEW w \in Wire, NEW all \in Wire, Holds(b, w, all)
  PROVE  b \in Text /\ b \o FlattenSeq(w) = FlattenSeq(all)
<1>1. PICK u \in Wire : FlattenSeq(u) = b /\ u \o w = all
  BY DEF Holds, Wire
<1> QED BY <1>1, WireText

LineEnd == <<"CR", "LF">>
SizeLine == <<LineEnd>>

LEMMA LineEndText ==
  /\ LineEnd \in Text /\ Len(LineEnd) = 2 /\ LineEnd[1] = "CR" /\ LineEnd[2] = "LF"
  /\ SizeLine \in Wire /\ Len(SizeLine) = 1 /\ FlattenSeq(SizeLine) = LineEnd
  /\ Crlf = Units(LineEnd)
<1>1. LineEnd \in Text /\ Len(LineEnd) = 2 /\ LineEnd[1] = "CR" /\ LineEnd[2] = "LF"
  BY DEF Text, LineEnd, Char, Blank, Eol
<1>2. LineEnd \in Unit
  BY DEF LineEnd, Unit
<1>3. Crlf = Units(LineEnd)
  BY DEF Crlf, Units, LineEnd
<1> HIDE DEF LineEnd
<1>4. SizeLine \in Seq(Unit) /\ Len(SizeLine) = 1
  BY <1>2 DEF SizeLine
<1>5. FlattenSeq(SizeLine) = LineEnd
  <2>1. <<>> \in Seq(Seq(Char)) /\ LineEnd \in Seq(Char)
    BY <1>1 DEF Text
  <2>2. FlattenSeq(Append(<<>>, LineEnd)) = FlattenSeq(<<>>) \o LineEnd
    BY <2>1, FlattenAppend
  <2>3. Append(<<>>, LineEnd) = SizeLine
    BY DEF SizeLine
  <2>4. <<>> \o LineEnd = LineEnd
    BY <1>1, TextAndWire, JoinEmpty
  <2> QED BY <2>2, <2>3, <2>4, FlattenEmpty
<1> QED BY <1>1, <1>3, <1>4, <1>5 DEF Wire

\* The line end of a size line is never cut.
LEMMA HoldsLine ==
  ASSUME NEW b, b # <<>>, NEW w \in Wire, NEW v \in Wire, Holds(b, w, SizeLine \o v)
  PROVE  \E q \in Text : b = LineEnd \o q /\ Holds(q, w, v)
<1>1. PICK u \in Wire : FlattenSeq(u) = b /\ u \o w = SizeLine \o v
  BY DEF Holds, Wire
<1>2. PICK line \in Wire : line = SizeLine
  BY LineEndText
<1>3. Len(line) <= Len(u)
  <2>1. u # <<>>
    BY <1>1, FlattenEmpty
  <2>2. Len(u) \in Nat /\ Len(u) # 0
    BY <2>1, TextAndWire, JoinLen
  <2> QED BY <1>2, <2>2, LineEndText
<1>4. PICK r \in Wire : u = line \o r /\ r \o w = v
  <2>1. Same(u, w, line, v)
    BY <1>1, <1>2 DEF Same
  <2>2. Rest(Wire, u, w, line, v)
    BY <1>3, <2>1, TextAndWire, LongerFirst
  <2> QED BY <2>2 DEF Rest
<1>5. FlattenSeq(r) \in Text /\ FlattenSeq(line \o r) = FlattenSeq(line) \o FlattenSeq(r)
  BY WireText
<1>6. Holds(FlattenSeq(r), w, v)
  BY <1>4 DEF Holds, Wire
<1> QED BY <1>1, <1>2, <1>4, <1>5, <1>6, LineEndText

-----------------------------------------------------------------------------
(* "%lx" and strtoul().                                                    *)

Bit(c) == IF c = "1" THEN 1 ELSE 0

\* f is the value of the first digits of s, after each of n.
Values(f, s, n) ==
  f = [k \in 1 - 1 .. n |-> IF k < 1 THEN 0 ELSE Base * f[k - 1] + (IF s[k] = "1" THEN 1 ELSE 0)]

LEMMA ValuesExists ==
  ASSUME NEW s, NEW n \in Nat
  PROVE  \E f : Values(f, s, n)
<1> DEFINE S == {k \in Nat : \E f : Values(f, s, k)}
<1>1. ASSUME NEW m \in Nat, \A k \in 0 .. m - 1 : k \in S PROVE m \in S
  <2>1. CASE m = 0
    <3> DEFINE f == [k \in 1 - 1 .. 0 |-> 0]
    <3>1. f = [k \in 1 - 1 .. 0 |->
                 IF k < 1 THEN 0 ELSE Base * f[k - 1] + (IF s[k] = "1" THEN 1 ELSE 0)]
      OBVIOUS
    <3>2. Values(f, s, 0)
      BY <3>1 DEF Values
    <3> QED BY <2>1, <3>2
  <2>2. CASE m # 0
    <3>1. m - 1 \in 0 .. m - 1
      BY <2>2
    <3>2. PICK g : Values(g, s, m - 1)
      BY <1>1, <3>1
    <3> DEFINE f == [k \in 1 - 1 .. m |->
                       IF k = m THEN Base * g[m - 1] + (IF s[m] = "1" THEN 1 ELSE 0) ELSE g[k]]
    <3>3. \A k \in 0 .. m - 1 :
            g[k] = IF k < 1 THEN 0 ELSE Base * g[k - 1] + (IF s[k] = "1" THEN 1 ELSE 0)
      BY <3>2 DEF Values
    <3>4. ASSUME NEW k \in 1 - 1 .. m
          PROVE  f[k] = IF k < 1 THEN 0 ELSE Base * f[k - 1] + (IF s[k] = "1" THEN 1 ELSE 0)
      <4>1. CASE k = m
        <5>1. m - 1 \in 0 .. m /\ m - 1 # m
          BY <2>2
        <5>2. f[k - 1] = g[m - 1]
          BY <4>1, <5>1
        <5> QED BY <2>2, <4>1, <5>2
      <4>2. CASE k # m
        <5>1. k \in 0 .. m - 1 /\ (~(k < 1) => k - 1 \in 0 .. m /\ k - 1 # m)
          BY <4>2
        <5>2. f[k] = g[k] /\ (~(k < 1) => f[k - 1] = g[k - 1])
          BY <4>2, <5>1
        <5> HIDE DEF f
        <5> QED BY <3>3, <5>1, <5>2
      <4> QED BY <4>1, <4>2
    <3>5. f = [k \in 1 - 1 .. m |-> f[k]]
      OBVIOUS
    <3> HIDE DEF f
    <3>6. Values(f, s, m)
      BY <3>4, <3>5 DEF Values
    <3> QED BY <3>6
  <2> QED BY <2>1, <2>2
<1> HIDE DEF S
<1>2. n \in S
  BY <1>1, Induction
<1> QED BY <1>2 DEF S

LEMMA ValueIs ==
  ASSUME NEW s, NEW n \in Nat
  PROVE  \E f : Values(f, s, n) /\ ValueOf(s, 1, n) = f[n]
<1> DEFINE value[k \in 1 - 1 .. n] ==
             IF k < 1 THEN 0 ELSE Base * value[k - 1] + (IF s[k] = "1" THEN 1 ELSE 0)
<1>1. ValueOf(s, 1, n) = value[n]
  BY DEF ValueOf
<1>2. value = CHOOSE f : Values(f, s, n)
  BY DEF Values
<1>3. \E f : Values(f, s, n)
  BY ValuesExists
<1> HIDE DEF value
<1>4. Values(value, s, n)
  BY <1>2, <1>3, Zenon
<1> QED BY <1>1, <1>4

LEMMA ValuesAgree ==
  ASSUME NEW s, NEW n \in Nat, NEW m \in Nat, n <= m, NEW f, Values(f, s, n), NEW g, Values(g, s, m)
  PROVE  f[n] = g[n]
<1> DEFINE S == {k \in Nat : k \in 0 .. n => f[k] = g[k]}
<1>1. \A k \in 0 .. n : f[k] = IF k < 1 THEN 0 ELSE Base * f[k - 1] + (IF s[k] = "1" THEN 1 ELSE 0)
  BY DEF Values
<1>2. \A k \in 0 .. m : g[k] = IF k < 1 THEN 0 ELSE Base * g[k - 1] + (IF s[k] = "1" THEN 1 ELSE 0)
  BY DEF Values
<1>3. ASSUME NEW k \in Nat, \A j \in 0 .. k - 1 : j \in S PROVE k \in S
  <2> SUFFICES ASSUME k \in 0 .. n PROVE f[k] = g[k]
    OBVIOUS
  <2>1. k \in 0 .. m
    OBVIOUS
  <2>2. CASE k < 1
    BY <1>1, <1>2, <2>1, <2>2
  <2>3. CASE ~(k < 1)
    <3>1. k - 1 \in 0 .. k - 1 /\ k - 1 \in 0 .. n
      BY <2>3
    <3>2. f[k - 1] = g[k - 1]
      BY <1>3, <3>1
    <3>3. f[k] = Base * f[k - 1] + (IF s[k] = "1" THEN 1 ELSE 0)
      BY <1>1, <2>3
    <3>4. g[k] = Base * g[k - 1] + (IF s[k] = "1" THEN 1 ELSE 0)
      BY <1>2, <2>1, <2>3
    <3> QED BY <3>2, <3>3, <3>4
  <2> QED BY <2>2, <2>3
<1> HIDE DEF S
<1>4. n \in S
  BY <1>3, Induction
<1> QED BY <1>4 DEF S

LEMMA ValueStep ==
  ASSUME NEW s, NEW n \in Nat
  PROVE  /\ ValueOf(s, 1, 0) = 0
         /\ ValueOf(s, 1, n + 1) = Base * ValueOf(s, 1, n) + Bit(s[n + 1])
<1>1. PICK f : Values(f, s, n) /\ ValueOf(s, 1, n) = f[n]
  BY ValueIs
<1>2. n + 1 \in Nat /\ n <= n + 1
  OBVIOUS
<1>3. PICK g : Values(g, s, n + 1) /\ ValueOf(s, 1, n + 1) = g[n + 1]
  BY <1>2, ValueIs
<1>4. f[n] = g[n]
  BY <1>1, <1>2, <1>3, ValuesAgree
<1>5. g[n + 1] = Base * g[n] + Bit(s[n + 1])
  BY <1>3 DEF Values, Bit
<1>6. ValueOf(s, 1, 0) = 0
  <2>1. PICK e : Values(e, s, 0) /\ ValueOf(s, 1, 0) = e[0]
    BY ValueIs
  <2> QED BY <2>1 DEF Values
<1> QED BY <1>1, <1>3, <1>4, <1>5, <1>6

\* The digits of a chunk size: all of "0" and "1", with n as their value.
SizeText(h, n) ==
  /\ h \in Text
  /\ Len(h) > 0
  /\ \A i \in 1 .. Len(h) : h[i] \in Digit
  /\ \A s : (\A i \in 1 .. Len(h) : s[i] = h[i]) => ValueOf(s, 1, Len(h)) = n

LastDigit(k) == << <<IF k % Base = 0 THEN "0" ELSE "1">> >>

\* f is the text of every number up to n.
Hexes(f, n) == f = [k \in 0 .. n |-> IF k < Base THEN LastDigit(k) ELSE f[k \div Base] \o LastDigit(k)]

LEMMA Halves ==
  ASSUME NEW k \in Nat
  PROVE  /\ k % 2 \in {0, 1}
         /\ k < 2 => k = k % 2
         /\ ~(k < 2) => k \div 2 \in 1 .. k - 1
         /\ k = 2 * (k \div 2) + (k % 2)
<1>1. k % 2 \in {0, 1}
  OBVIOUS
<1>2. k < 2 => k = k % 2
  OBVIOUS
<1>3. k = 2 * (k \div 2) + (k % 2)
  OBVIOUS
<1>4. k \div 2 \in Nat
  OBVIOUS
<1>5. ~(k < 2) => k \div 2 \in 1 .. k - 1
  <2> PICK j \in Nat, d \in {0, 1} : j = k \div 2 /\ d = k % 2
    BY <1>1, <1>4
  <2>1. k = 2 * j + d
    BY <1>3
  <2>2. ~(k < 2) => j \in 1 .. k - 1
    BY <2>1
  <2> QED BY <2>2
<1> QED BY <1>1, <1>2, <1>3, <1>5

LEMMA HalfIsLess ==
  ASSUME Base = 2, NEW k \in Nat
  PROVE  /\ k % Base \in {0, 1}
         /\ k < Base => k = k % Base
         /\ ~(k < Base) => k \div Base \in 1 .. k - 1
         /\ k = Base * (k \div Base) + (k % Base)
BY Halves

LEMMA HexesExists ==
  ASSUME Base = 2, NEW n \in Nat
  PROVE  \E f : Hexes(f, n)
<1> DEFINE S == {k \in Nat : \E f : Hexes(f, k)}
<1>0. Base \in Nat
  OBVIOUS
<1>1. ASSUME NEW m \in Nat, \A k \in 0 .. m - 1 : k \in S PROVE m \in S
  <2>1. CASE m = 0
    <3> DEFINE f == [k \in 0 .. 0 |-> LastDigit(k)]
    <3>1. \A k \in 0 .. 0 : k < Base
      OBVIOUS
    <3>2. f = [k \in 0 .. 0 |-> IF k < Base THEN LastDigit(k) ELSE f[k \div Base] \o LastDigit(k)]
      BY <3>1
    <3>3. Hexes(f, 0)
      BY <3>2 DEF Hexes
    <3> QED BY <2>1, <3>3
  <2>2. CASE m # 0
    <3>1. m - 1 \in 0 .. m - 1
      BY <2>2
    <3>2. PICK g : Hexes(g, m - 1)
      BY <1>1, <3>1
    <3> DEFINE f == [k \in 0 .. m |->
                       IF k = m THEN (IF m < Base THEN LastDigit(m) ELSE g[m \div Base] \o LastDigit(m))
                       ELSE g[k]]
    <3>3. \A k \in 0 .. m - 1 :
            g[k] = IF k < Base THEN LastDigit(k) ELSE g[k \div Base] \o LastDigit(k)
      BY <3>2 DEF Hexes
    <3>4. ASSUME NEW k \in 0 .. m
          PROVE  f[k] = IF k < Base THEN LastDigit(k) ELSE f[k \div Base] \o LastDigit(k)
      <4>0. ~(k < Base) => k \div Base \in 0 .. m /\ k \div Base # m
        BY HalfIsLess
      <4>1. ~(k < Base) => f[k \div Base] = g[k \div Base]
        BY <4>0
      <4>2. f[k] = IF k = m THEN (IF m < Base THEN LastDigit(m) ELSE g[m \div Base] \o LastDigit(m))
                   ELSE g[k]
        OBVIOUS
      <4> HIDE DEF f
      <4>3. k # m => k \in 0 .. m - 1
        OBVIOUS
      <4> QED BY <3>3, <4>1, <4>2, <4>3
    <3>5. f = [k \in 0 .. m |-> f[k]]
      OBVIOUS
    <3> HIDE DEF f
    <3>6. Hexes(f, m)
      BY <3>4, <3>5 DEF Hexes
    <3> QED BY <3>6
  <2> QED BY <2>1, <2>2
<1> HIDE DEF S
<1>2. n \in S
  BY <1>1, Induction
<1> QED BY <1>2 DEF S

LEMMA HexIs ==
  ASSUME Base = 2, NEW n \in Nat
  PROVE  \E f : Hexes(f, n) /\ Hex(n) = f[n]
<1> DEFINE hex[k \in 0 .. n] == IF k < Base THEN LastDigit(k) ELSE hex[k \div Base] \o LastDigit(k)
<1>1. Hex(n) = hex[n]
  BY DEF Hex, LastDigit
<1>2. hex = CHOOSE f : Hexes(f, n)
  BY DEF Hexes
<1>3. \E f : Hexes(f, n)
  BY HexesExists
<1> HIDE DEF hex
<1>4. Hexes(hex, n)
  BY <1>2, <1>3, Zenon
<1> QED BY <1>1, <1>4

\* What "%lx" writes is what strtoul() reads.
LEMMA HexText ==
  ASSUME Base = 2, NEW n \in Nat
  PROVE  \E h : SizeText(h, n) /\ Hex(n) = Units(h)
<1>1. PICK f : Hexes(f, n) /\ Hex(n) = f[n]
  BY HexIs
<1> DEFINE S == {k \in Nat : k \in 0 .. n => \E h : SizeText(h, k) /\ f[k] = Units(h)}
<1>2. \A k \in 0 .. n : f[k] = IF k < Base THEN LastDigit(k) ELSE f[k \div Base] \o LastDigit(k)
  BY <1>1 DEF Hexes
<1>3. ASSUME NEW k \in Nat, \A j \in 0 .. k - 1 : j \in S PROVE k \in S
  <2> SUFFICES ASSUME k \in 0 .. n PROVE \E h : SizeText(h, k) /\ f[k] = Units(h)
    OBVIOUS
  <2> DEFINE c == IF k % Base = 0 THEN "0" ELSE "1"
  <2>1. c \in Char /\ c \in Digit /\ Bit(c) = k % Base
    BY HalfIsLess DEF Char, Digit, Bit
  <2>2. LastDigit(k) = << <<c>> >>
    BY DEF LastDigit
  <2> HIDE DEF c
  <2>3. CASE k < Base
    <3> DEFINE h == <<c>>
    <3>1. h \in Text /\ Len(h) = 1 /\ h[1] = c
      BY <2>1 DEF Text
    <3>2. Units(h) = << <<c>> >>
      BY DEF Units
    <3>3. ASSUME NEW s, \A i \in 1 .. Len(h) : s[i] = h[i] PROVE ValueOf(s, 1, Len(h)) = k
      <4>1. s[1] = c
        BY <3>1, <3>3
      <4>2. ValueOf(s, 1, 0) = 0 /\ ValueOf(s, 1, 0 + 1) = Base * ValueOf(s, 1, 0) + Bit(s[0 + 1])
        BY ValueStep
      <4>3. k % Base = k
        BY <2>3, HalfIsLess
      <4> QED BY <2>1, <3>1, <4>1, <4>2, <4>3
    <3> HIDE DEF h
    <3>4. SizeText(h, k)
      BY <2>1, <3>1, <3>3 DEF SizeText
    <3> QED BY <1>2, <2>2, <2>3, <3>2, <3>4
  <2>4. CASE ~(k < Base)
    <3> DEFINE j == k \div Base
    <3>1. j \in 0 .. k - 1 /\ j \in 0 .. n /\ k = Base * j + (k % Base)
      BY <2>4, HalfIsLess
    <3> HIDE DEF j
    <3>2. PICK g : SizeText(g, j) /\ f[j] = Units(g)
      BY <1>3, <3>1
    <3> DEFINE h == Append(g, c)
    <3>3. g \in Seq(Char) /\ Len(g) \in Nat
      BY <3>2, LenProperties DEF SizeText, Text
    <3>4. h \in Text /\ Len(h) = Len(g) + 1 /\ h[Len(g) + 1] = c /\ \A i \in 1 .. Len(g) : h[i] = g[i]
      BY <2>1, <3>3, AppendProperties DEF Text
    <3>5. Units(h) = Units(g) \o << <<c>> >>
      <4>1. Units(h) = Append(Units(g), <<c>>)
        BY <2>1, <3>3, UnitsAppend
      <4>2. Units(g) \in Seq(Seq(Char))
        BY <3>3, UnitsProperties
      <4>3. <<c>> \in Seq(Char)
        BY <2>1
      <4> QED BY <4>1, <4>2, <4>3, AppendIsConcat
    <3> HIDE DEF h
    <3>6. ASSUME NEW s, \A i \in 1 .. Len(h) : s[i] = h[i] PROVE ValueOf(s, 1, Len(h)) = k
      <4>1. s[Len(g) + 1] = c /\ \A i \in 1 .. Len(g) : s[i] = g[i]
        BY <3>3, <3>4, <3>6
      <4>2. ValueOf(s, 1, Len(g)) = j
        BY <3>2, <4>1 DEF SizeText
      <4>3. ValueOf(s, 1, Len(g) + 1) = Base * ValueOf(s, 1, Len(g)) + Bit(s[Len(g) + 1])
        BY <3>3, ValueStep
      <4> QED BY <2>1, <3>1, <3>4, <4>1, <4>2, <4>3
    <3>7. SizeText(h, k)
      <4>1. \A i \in 1 .. Len(h) : h[i] \in Digit
        BY <2>1, <3>2, <3>3, <3>4 DEF SizeText
      <4> QED BY <3>3, <3>4, <3>6, <4>1 DEF SizeText
    <3>8. f[k] = Units(h)
      BY <1>2, <2>2, <2>4, <3>2, <3>5 DEF j
    <3> QED BY <3>7, <3>8
  <2> QED BY <2>3, <2>4
<1> HIDE DEF S
<1>4. n \in S
  BY <1>3, Induction
<1> QED BY <1>1, <1>4 DEF S

LEMMA CutJoin ==
  ASSUME NEW T, SeqSet(T), NEW a \in T, NEW b \in T
  PROVE  SubSeq(a \o b, 1, Len(a)) = a /\ Cut(a \o b, Len(a)) = b
<1> DEFINE s == a \o b
           n == Len(a)
           x == SubSeq(s, 1, n)
           y == Cut(s, n)
<1>1. s \in T /\ n \in Nat /\ n \in 0 .. Len(s) /\ Len(s) = n + Len(b) /\ Len(b) \in Nat
  BY JoinIn, JoinLen
<1>2. x \in T /\ Len(x) = n /\ y \in T /\ Len(y) = Len(s) - n /\ x \o y = s
  <2> HIDE DEF s, n
  <2> QED BY <1>1, CutInTwo
<1> HIDE DEF x, y
<1>3. Same(a, b, x, y)
  BY <1>2 DEF Same
<1>4. Rest(T, a, b, x, y)
  BY <1>1, <1>2, <1>3, LongerFirst
<1>5. PICK r \in T : a = x \o r /\ r \o b = y
  BY <1>4 DEF Rest
<1>6. r = <<>>
  <2>1. Len(x \o r) = Len(x) + Len(r) /\ Len(r) \in Nat /\ (Len(r) = 0 <=> r = <<>>)
    BY <1>2, JoinLen
  <2> QED BY <1>1, <1>2, <1>5, <2>1
<1>7. a = x /\ b = y
  BY <1>2, <1>5, <1>6, JoinEmpty
<1> QED BY <1>7 DEF x, y

\* A size line, as it stands in the buffer.
LEMMA LineText ==
  ASSUME NEW h \in Text, NEW q \in Text
  PROVE  LET r == h \o (LineEnd \o q)
         IN  /\ r \in Text /\ Len(r) = Len(h) + 2 + Len(q) /\ Len(h) \in Nat /\ Len(q) \in Nat
             /\ DOMAIN r = 1 .. Len(r)
             /\ \A i \in 1 .. Len(h) : r[i] = h[i]
             /\ r[Len(h) + 1] = "CR" /\ r[Len(h) + 2] = "LF"
<1> DEFINE t == LineEnd \o q
           r == h \o t
<1>0. h \in Seq(Char) /\ q \in Seq(Char) /\ LineEnd \in Seq(Char) /\ Len(LineEnd) = 2
      /\ LineEnd[1] = "CR" /\ LineEnd[2] = "LF" /\ Len(h) \in Nat /\ Len(q) \in Nat
  BY LineEndText, LenProperties DEF Text
<1>1. /\ t \in Seq(Char) /\ Len(t) = 2 + Len(q)
      /\ \A i \in 1 .. 2 : t[i] = LineEnd[i]
  <2>1. /\ t \in Seq(Char) /\ Len(t) = Len(LineEnd) + Len(q)
        /\ \A i \in 1 .. Len(LineEnd) + Len(q) :
              t[i] = IF i <= Len(LineEnd) THEN LineEnd[i] ELSE q[i - Len(LineEnd)]
    BY <1>0, ConcatProperties
  <2> HIDE DEF t
  <2> QED BY <1>0, <2>1
<1>2. t[1] = "CR" /\ t[2] = "LF"
  BY <1>0, <1>1
<1> HIDE DEF t
<1>3. /\ r \in Seq(Char) /\ Len(r) = Len(h) + Len(t)
      /\ \A i \in 1 .. Len(h) + Len(t) : r[i] = IF i <= Len(h) THEN h[i] ELSE t[i - Len(h)]
  <2>1. h \in Seq(Char) /\ t \in Seq(Char)
    BY <1>0, <1>1
  <2> QED BY <2>1, ConcatProperties
<1> HIDE DEF r
<1>4. DOMAIN r = 1 .. Len(r)
  BY <1>3, LenProperties
<1>5. \A i \in 1 .. Len(h) : r[i] = h[i]
  BY <1>0, <1>1, <1>3
<1>6. r[Len(h) + 1] = t[1] /\ r[Len(h) + 2] = t[2]
  <2>1. \A i \in 1 .. 2 : Len(h) + i \in 1 .. Len(h) + Len(t) /\ ~(Len(h) + i <= Len(h)) /\ Len(h) + i - Len(h) = i
    BY <1>0, <1>1
  <2>2. \A i \in 1 .. 2 : r[Len(h) + i] = t[i]
    BY <1>3, <2>1
  <2> QED BY <2>2
<1>7. r \in Text /\ Len(r) = Len(h) + 2 + Len(q)
  BY <1>0, <1>1, <1>3 DEF Text
<1> QED BY <1>0, <1>2, <1>4, <1>5, <1>6, <1>7 DEF r, t

Numbers == 0 .. ULONG_MAX

LEMMA StrtoulReads ==
  ASSUME NEW h, NEW n \in Numbers, SizeText(h, n), NEW q \in Text, NEW size \in Numbers
  PROVE  Strtoul(h \o (LineEnd \o q), size) <=> size = n
<1> DEFINE r == h \o (LineEnd \o q)
           len == Len(h)
<1>0. h \in Text /\ \A i \in 1 .. Len(h) : h[i] \in Digit
  BY DEF SizeText
<1>1. /\ r \in Text /\ Len(r) = len + 2 + Len(q) /\ len \in Nat /\ Len(q) \in Nat
      /\ DOMAIN r = 1 .. Len(r) /\ len > 0
      /\ \A i \in 1 .. len : r[i] = h[i]
      /\ r[len + 1] = "CR"
  BY <1>0, LineText DEF SizeText
<1>2. ValueOf(r, 1, len) = n
  BY <1>1 DEF SizeText
<1> HIDE DEF r, len
<1>3. r[1] \in Digit /\ "CR" \notin Digit /\ \A c \in Digit : c \notin Blank /\ c # "-"
  <2>1. r[1] = h[1] /\ h[1] \in Digit
    BY <1>0, <1>1 DEF len
  <2> QED BY <2>1 DEF Digit, Blank, Eol
<1>4. \A b \in 1 .. Len(r) : Digits(r, 1, b) => b = len
  <2> SUFFICES ASSUME NEW b \in 1 .. Len(r), Digits(r, 1, b) PROVE b = len
    OBVIOUS
  <2>1. ~(b > len)
    <3>1. b > len => r[len + 1] \in Digit
      BY <1>1 DEF Digits
    <3> QED BY <1>1, <1>3, <3>1
  <2>2. ~(b < len)
    <3>1. b < len => r[b + 1] \notin Digit
      BY <1>1 DEF Digits
    <3>2. b < len => r[b + 1] = h[b + 1] /\ h[b + 1] \in Digit
      BY <1>0, <1>1 DEF len
    <3> QED BY <3>1, <3>2
  <2> QED BY <1>1, <2>1, <2>2
<1>5. Digits(r, 1, len)
  <2>1. \A i \in 1 .. len : r[i] \in Digit
    BY <1>0, <1>1 DEF len
  <2>2. r[len + 1] \notin Digit
    BY <1>1, <1>3
  <2> QED BY <2>1, <2>2 DEF Digits
<1>6. n \in Nat /\ ~(n > ULONG_MAX)
  BY DechunkAssumption DEF Numbers
<1>7. ASSUME Strtoul(r, size) PROVE size = n
  <2>1. PICK a \in DOMAIN r :
          /\ r[a] \in Digit
          /\ \A i \in 1 .. a - 1 : r[i] \in Blank \/ (r[i] = "-" /\ i = a - 1)
          /\ \E b \in a .. Len(r) :
               LET v == ValueOf(r, a, b)
                   minus == a > 1 /\ r[a - 1] = "-"
               IN  /\ Digits(r, a, b)
                   /\ size = IF v > ULONG_MAX THEN ULONG_MAX
                             ELSE IF minus THEN (ULONG_MAX + 1 - v) % (ULONG_MAX + 1) ELSE v
    BY <1>7 DEF Strtoul
  <2>2. a = 1
    <3>1. a # 1 => 1 \in 1 .. a - 1
      BY <1>1
    <3> QED BY <1>3, <2>1, <3>1
  <2>3. PICK b \in 1 .. Len(r) : Digits(r, 1, b) /\
          size = IF ValueOf(r, 1, b) > ULONG_MAX THEN ULONG_MAX ELSE ValueOf(r, 1, b)
    BY <2>1, <2>2
  <2>4. b = len
    BY <1>4, <2>3
  <2> QED BY <1>2, <1>6, <2>3, <2>4
<1>8. Strtoul(r, n)
  <2>1. 1 \in DOMAIN r /\ len \in 1 .. Len(r)
    BY <1>1
  <2>2. n = IF ValueOf(r, 1, len) > ULONG_MAX THEN ULONG_MAX
            ELSE IF 1 > 1 /\ r[1 - 1] = "-"
                 THEN (ULONG_MAX + 1 - ValueOf(r, 1, len)) % (ULONG_MAX + 1) ELSE ValueOf(r, 1, len)
    BY <1>2, <1>6
  <2>3. \A i \in 1 .. 1 - 1 : r[i] \in Blank \/ (r[i] = "-" /\ i = 1 - 1)
    OBVIOUS
  <2> QED BY <1>3, <1>5, <2>1, <2>2, <2>3 DEF Strtoul
<1> QED BY <1>7, <1>8 DEF r
-----------------------------------------------------------------------------
(* Chunks to come, as text and as units.                                   *)

\* What the proofs need of the instance: sizes are written in the two digits there
\* are, and no piece ends inside the CRLF of a size line.
Uncut == Base = 2 /\ ~CutAnywhere

Chunk == {c \in Text : Len(c) \in 1 .. ULONG_MAX}
Chunks == Seq(Chunk)

Piece(c) == Hex(Len(c)) \o (SizeLine \o Units(c \o LineEnd))
Pieces(cs) == [i \in DOMAIN cs |-> Piece(cs[i])]
Coded(cs) == FlattenSeq(Pieces(cs))
End == Hex(0) \o (SizeLine \o Units(LineEnd \o Following))

LEMMA UnitsJoin ==
  /\ \A u, w \in Wire : u \o w \in Wire /\ u \o <<>> = u /\ <<>> \o u = u
  /\ \A s, t \in Text : s \o t \in Text /\ s \o <<>> = s /\ <<>> \o s = s
  /\ <<>> \in Wire /\ <<>> \in Text
  /\ LineEnd \in Text /\ Following \in Text
<1>1. \A u, w \in Wire : u \o w \in Wire /\ u \o <<>> = u /\ <<>> \o u = u
  BY TextAndWire, JoinIn, JoinEmpty
<1>2. \A s, t \in Text : s \o t \in Text /\ s \o <<>> = s /\ <<>> \o s = s
  BY TextAndWire, JoinIn, JoinEmpty
<1>3. <<>> \in Wire /\ <<>> \in Text
  BY TextAndWire, JoinIn
<1>4. Following \in Text
  BY ChunkedTransferAssumption DEF Text
<1> QED BY <1>1, <1>2, <1>3, <1>4, LineEndText

LEMMA PieceWire ==
  ASSUME Uncut
  PROVE  /\ \A c \in Chunk : c \in Text /\ Piece(c) \in Wire
         /\ End \in Wire
<1>1. \A n \in Nat : Hex(n) \in Wire
  BY HexText, WireText DEF Uncut, SizeText
<1>2. \A s \in Text : SizeLine \o Units(s) \in Wire
  BY LineEndText, UnitsJoin, WireText
<1>3. ASSUME NEW c \in Chunk PROVE c \in Text /\ Piece(c) \in Wire
  <2>1. c \in Text /\ Len(c) \in Nat
    BY TextAndWire, JoinLen DEF Chunk
  <2>2. c \o LineEnd \in Text
    BY <2>1, UnitsJoin
  <2> QED BY <1>1, <1>2, <2>1, <2>2, UnitsJoin DEF Piece
<1>4. End \in Wire
  <2>1. LineEnd \o Following \in Text
    BY UnitsJoin
  <2>2. SizeLine \o Units(LineEnd \o Following) \in Wire /\ Hex(0) \in Wire
    BY <1>1, <1>2, <2>1
  <2> QED BY <2>2, UnitsJoin DEF End
<1> QED BY <1>3, <1>4

LEMMA PiecesProperties ==
  ASSUME Uncut, NEW cs \in Chunks
  PROVE  /\ Pieces(cs) \in Seq(Wire) /\ Len(Pieces(cs)) = Len(cs)
         /\ \A i \in 1 .. Len(cs) : Pieces(cs)[i] = Piece(cs[i])
<1>1. Len(cs) \in Nat /\ DOMAIN cs = 1 .. Len(cs) /\ \A i \in 1 .. Len(cs) : cs[i] \in Chunk
  BY LenProperties, ElementOfSeq DEF Chunks
<1>2. Pieces(cs) = [i \in 1 .. Len(cs) |-> Piece(cs[i])]
  BY <1>1 DEF Pieces
<1>3. \A i \in 1 .. Len(cs) : Piece(cs[i]) \in Wire
  BY <1>1, PieceWire
<1>4. Pieces(cs) \in [1 .. Len(cs) -> Wire]
  BY <1>2, <1>3
<1> QED BY <1>1, <1>2, <1>4

LEMMA CodedEmpty == Coded(<<>>) = <<>> /\ FlattenSeq(<<>>) = <<>> /\ <<>> \in Chunks
<1>1. Pieces(<<>>) = <<>>
  BY DEF Pieces
<1> QED BY <1>1, FlattenEmpty DEF Coded, Chunks

LEMMA CodedType ==
  ASSUME Uncut, NEW cs \in Chunks
  PROVE  Coded(cs) \in Wire /\ FlattenSeq(cs) \in Text
<1>1. Pieces(cs) \in Seq(Seq(Unit))
  BY PiecesProperties DEF Wire
<1>2. cs \in Seq(Seq(Char))
  <2>1. Chunk \subseteq Seq(Char)
    BY DEF Chunk, Text
  <2> QED BY <2>1, SeqMonotonic DEF Chunks
<1> QED BY <1>1, <1>2, FlattenType DEF Coded, Wire, Text

LEMMA CodedConcat ==
  ASSUME Uncut, NEW cs \in Chunks, NEW ds \in Chunks
  PROVE  /\ cs \o ds \in Chunks
         /\ Coded(cs \o ds) = Coded(cs) \o Coded(ds)
         /\ FlattenSeq(cs \o ds) = FlattenSeq(cs) \o FlattenSeq(ds)
<1> DEFINE es == cs \o ds
           p == Pieces(cs)
           q == Pieces(ds)
<1>1. /\ es \in Seq(Chunk) /\ Len(es) = Len(cs) + Len(ds)
      /\ \A i \in 1 .. Len(cs) + Len(ds) : es[i] = IF i <= Len(cs) THEN cs[i] ELSE ds[i - Len(cs)]
      /\ Len(cs) \in Nat /\ Len(ds) \in Nat
  BY ConcatProperties, LenProperties DEF Chunks
<1>2. /\ p \in Seq(Wire) /\ Len(p) = Len(cs) /\ \A i \in 1 .. Len(cs) : p[i] = Piece(cs[i])
      /\ q \in Seq(Wire) /\ Len(q) = Len(ds) /\ \A i \in 1 .. Len(ds) : q[i] = Piece(ds[i])
  BY PiecesProperties
<1>3. /\ Pieces(es) \in Seq(Wire) /\ Len(Pieces(es)) = Len(es)
      /\ \A i \in 1 .. Len(es) : Pieces(es)[i] = Piece(es[i])
  BY <1>1, PiecesProperties DEF Chunks
<1> HIDE DEF es, p, q
<1>4. /\ p \o q \in Seq(Wire) /\ Len(p \o q) = Len(p) + Len(q)
      /\ \A i \in 1 .. Len(p) + Len(q) : (p \o q)[i] = IF i <= Len(p) THEN p[i] ELSE q[i - Len(p)]
  <2>1. p \in Seq(Wire) /\ q \in Seq(Wire)
    BY <1>2
  <2> QED BY <2>1, ConcatProperties
<1>5. ASSUME NEW i \in 1 .. Len(es) PROVE Pieces(es)[i] = (p \o q)[i]
  <2>1. CASE i <= Len(cs)
    BY <1>1, <1>2, <1>3, <1>4, <2>1
  <2>2. CASE ~(i <= Len(cs))
    <3>1. i - Len(cs) \in 1 .. Len(ds)
      BY <1>1, <2>2
    <3>2. (p \o q)[i] = q[i - Len(cs)] /\ es[i] = ds[i - Len(cs)]
      BY <1>1, <1>2, <1>4, <2>2
    <3> QED BY <1>2, <1>3, <3>1, <3>2
  <2> QED BY <2>1, <2>2
<1>6. Pieces(es) = p \o q
  BY <1>1, <1>2, <1>3, <1>4, <1>5, SeqEqual
<1>7. FlattenSeq(p \o q) = FlattenSeq(p) \o FlattenSeq(q)
  <2>1. p \in Seq(Seq(Unit)) /\ q \in Seq(Seq(Unit))
    BY <1>2 DEF Wire
  <2> QED BY <2>1, FlattenConcat
<1>8. FlattenSeq(es) = FlattenSeq(cs) \o FlattenSeq(ds)
  <2>1. Chunk \subseteq Seq(Char)
    BY DEF Chunk, Text
  <2>2. cs \in Seq(Seq(Char)) /\ ds \in Seq(Seq(Char))
    BY <2>1, SeqMonotonic DEF Chunks
  <2> QED BY <2>2, FlattenConcat DEF es
<1> QED BY <1>1, <1>6, <1>7, <1>8 DEF Coded, es, p, q, Chunks

LEMMA CodedOne ==
  ASSUME Uncut, NEW c \in Chunk
  PROVE  <<c>> \in Chunks /\ Coded(<<c>>) = Piece(c) /\ FlattenSeq(<<c>>) = c
<1>1. <<c>> \in Chunks
  BY DEF Chunks
<1>2. c \in Text /\ Piece(c) \in Wire
  BY PieceWire
<1>3. Pieces(<<c>>) = <<Piece(c)>>
  BY DEF Pieces
<1>4. FlattenSeq(Append(<<>>, c)) = FlattenSeq(<<>>) \o c
  <2>1. <<>> \in Seq(Seq(Char)) /\ c \in Seq(Char)
    BY <1>2 DEF Text
  <2> QED BY <2>1, FlattenAppend
<1>5. \A p \in Wire : FlattenSeq(Append(<<>>, p)) = FlattenSeq(<<>>) \o p
  <2>1. <<>> \in Seq(Seq(Unit))
    OBVIOUS
  <2> QED BY <2>1, FlattenAppend DEF Wire
<1>6. Append(<<>>, c) = <<c>> /\ \A p : Append(<<>>, p) = <<p>>
  OBVIOUS
<1>7. <<>> \o c = c /\ <<>> \o Piece(c) = Piece(c)
  BY <1>2, UnitsJoin
<1>8. FlattenSeq(<<c>>) = c
  BY <1>4, <1>6, <1>7, FlattenEmpty
<1>9. FlattenSeq(<<Piece(c)>>) = Piece(c)
  <2>1. PICK p \in Wire : p = Piece(c)
    BY <1>2
  <2> QED BY <1>5, <1>6, <1>7, <2>1, FlattenEmpty
<1> QED BY <1>1, <1>3, <1>8, <1>9 DEF Coded

\* The chunks cs, and what is behind the last of them, begin with a size line for n.
Sized(cs, end, h, n, v) ==
  /\ SizeText(h, n) /\ n \in Numbers /\ v \in Wire
  /\ Coded(cs) \o end = Units(h) \o (SizeLine \o v)
  /\ \/ /\ n # 0
        /\ \E c \in Chunk, ds \in Chunks :
             /\ Len(c) = n
             /\ v = Units(c \o LineEnd) \o (Coded(ds) \o end)
             /\ FlattenSeq(cs) = c \o FlattenSeq(ds)
     \/ /\ n = 0 /\ cs = <<>> /\ end = End
        /\ v = Units(LineEnd \o Following)

LEMMA NextSize ==
  ASSUME Uncut, NEW cs \in Chunks, NEW end \in {<<>>, End}
  PROVE  Coded(cs) \o end = <<>> \/ \E h, n, v : Sized(cs, end, h, n, v)
<1>0. end \in Wire
  BY PieceWire, UnitsJoin
<1>1. CASE cs = <<>> /\ end = <<>>
  BY <1>0, <1>1, CodedEmpty, UnitsJoin
<1>2. CASE cs = <<>> /\ end = End
  <2>1. PICK h : SizeText(h, 0) /\ Hex(0) = Units(h)
    BY HexText DEF Uncut
  <2> DEFINE v == Units(LineEnd \o Following)
  <2>2. v \in Wire
    BY UnitsJoin, WireText
  <2>3. 0 \in Numbers
    BY DechunkAssumption DEF Numbers
  <2>4. End = Units(h) \o (SizeLine \o v)
    BY <2>1 DEF End
  <2>5. Coded(cs) \o end = End
    BY <1>0, <1>2, CodedEmpty, UnitsJoin
  <2>6. Sized(cs, end, h, 0, v)
    BY <1>2, <2>1, <2>2, <2>3, <2>4, <2>5 DEF Sized
  <2> QED BY <2>6
<1>3. CASE cs # <<>>
  <2>1. PICK c \in Chunk, ds \in Chunks : cs = <<c>> \o ds
    <3>1. Head(cs) \in Chunk /\ Tail(cs) \in Seq(Chunk)
      BY <1>3, HeadTailProperties DEF Chunks
    <3>2. cs = <<Head(cs)>> \o Tail(cs)
      <4>1. Len(cs) \in Nat /\ Len(cs) # 0
        BY <1>3, LenProperties, EmptySeq DEF Chunks
      <4>2. 1 \in 1 .. Len(cs) /\ Len(cs) \in 1 .. Len(cs)
        BY <4>1
      <4>3. SubSeq(cs, 1, Len(cs)) = <<cs[1]>> \o SubSeq(cs, 1 + 1, Len(cs))
        BY <4>2, SubSeqRecursiveFirst DEF Chunks
      <4>4. SubSeq(cs, 1, Len(cs)) = cs
        BY SubSeqFull DEF Chunks
      <4>5. Tail(cs) = SubSeq(cs, 2, Len(cs))
        BY <1>3, TailIsSubSeq DEF Chunks
      <4>6. Head(cs) = cs[1]
        OBVIOUS
      <4> QED BY <4>3, <4>4, <4>5, <4>6
    <3> QED BY <3>1, <3>2 DEF Chunks
  <2>2. Coded(cs) = Piece(c) \o Coded(ds) /\ FlattenSeq(cs) = c \o FlattenSeq(ds)
    <3>1. PICK o \in Chunks : o = <<c>> /\ Coded(o) = Piece(c) /\ FlattenSeq(o) = c
      BY CodedOne
    <3>2. Coded(o \o ds) = Coded(o) \o Coded(ds) /\ FlattenSeq(o \o ds) = FlattenSeq(o) \o FlattenSeq(ds)
      BY CodedConcat
    <3> QED BY <2>1, <3>1, <3>2
  <2>3. c \in Text /\ Len(c) \in Nat /\ Len(c) # 0 /\ Len(c) \in Numbers
    BY TextAndWire, JoinLen, DechunkAssumption DEF Chunk, Numbers
  <2>4. PICK h : SizeText(h, Len(c)) /\ Hex(Len(c)) = Units(h)
    BY <2>3, HexText DEF Uncut
  <2>5. PICK u \in Wire, d \in Wire, r \in Wire : u = Units(h) /\ d = Units(c \o LineEnd) /\ r = Coded(ds)
    <3>1. Units(h) \in Wire
      BY <2>4, WireText DEF SizeText
    <3>2. c \o LineEnd \in Text
      BY <2>3, UnitsJoin
    <3>3. Units(c \o LineEnd) \in Wire
      BY <3>2, WireText
    <3>4. Coded(ds) \in Wire
      BY CodedType
    <3> QED BY <3>1, <3>3, <3>4
  <2> DEFINE v == d \o (r \o end)
  <2>6. v \in Wire
    BY <1>0, UnitsJoin
  <2>7. ((u \o (SizeLine \o d)) \o r) \o end = u \o (SizeLine \o v)
    <3> PICK l \in Wire : l = SizeLine
      BY LineEndText
    <3> HIDE DEF v
    <3>1. PICK p \in Wire, y \in Wire, z \in Wire : p = l \o d /\ y = u \o (l \o d) /\ z = r \o end
      BY <1>0, UnitsJoin
    <3>2. Regroups(y, r, end) /\ Regroups(u, p, z) /\ Regroups(l, d, z)
      BY <1>0, WireRegroups
    <3>3. y \o z = u \o (p \o z)
      BY <3>1, <3>2 DEF Regroups
    <3>4. p \o z = l \o (d \o z)
      BY <3>1, <3>2 DEF Regroups
    <3>5. (y \o r) \o end = y \o z
      BY <3>1, <3>2 DEF Regroups
    <3>6. (y \o r) \o end = u \o (l \o (d \o z))
      BY <3>3, <3>4, <3>5
    <3> QED BY <3>1, <3>6 DEF v
  <2>8. Coded(cs) \o end = u \o (SizeLine \o v)
    BY <2>2, <2>4, <2>5, <2>7 DEF Piece
  <2>9. Sized(cs, end, h, Len(c), v)
    <3> HIDE DEF v
    <3>1. v = Units(c \o LineEnd) \o (Coded(ds) \o end)
      BY <2>5 DEF v
    <3> QED BY <2>2, <2>3, <2>4, <2>5, <2>6, <2>8, <3>1 DEF Sized
  <2> QED BY <2>9
<1> QED BY <1>1, <1>2, <1>3

\* What is left of the line end of a chunk.
Ends == {<<>>, <<"LF">>, LineEnd}

\* The buffer b, with w to come, ends what was encoded as s, of which given is out:
\* len bytes of a chunk, what is left of its line end, other chunks, and the end.
Coding(b, w, end, len, given, s) ==
  \E cs \in Chunks, x \in Text, e \in Ends :
    /\ Len(x) = len
    /\ x # <<>> => e = LineEnd
    /\ Holds(b, w, Units(x \o e) \o (Coded(cs) \o end))
    /\ s = given \o (x \o FlattenSeq(cs))

LEMMA EndsText ==
  /\ \A e \in Ends : e \in Text /\ Len(e) <= 2 /\ \A i \in 1 .. Len(e) : e[i] \in Eol
  /\ <<"LF">> \in Text /\ Len(<<"LF">>) = 1
<1>1. <<"LF">> \in Text /\ Len(<<"LF">>) = 1 /\ <<"LF">>[1] \in Eol
  BY DEF Text, Char, Blank, Eol
<1>2. <<>> \in Text /\ Len(<<>>) = 0
  BY DEF Text
<1>3. LineEnd \in Text /\ Len(LineEnd) = 2 /\ \A i \in 1 .. 2 : LineEnd[i] \in Eol
  BY LineEndText DEF Eol
<1>4. ASSUME NEW e \in Ends PROVE e \in Text /\ Len(e) <= 2 /\ \A i \in 1 .. Len(e) : e[i] \in Eol
  <2>1. CASE e = <<>>
    BY <1>2, <2>1
  <2>2. CASE e = <<"LF">>
    BY <1>1, <2>2
  <2>3. CASE e = LineEnd
    BY <1>3, <2>3
  <2> QED BY <2>1, <2>2, <2>3 DEF Ends
<1> QED BY <1>1, <1>4

\* Everything in a coding is text.
LEMMA CodingParts ==
  ASSUME Uncut, NEW cs \in Chunks, NEW end \in {<<>>, End}
  PROVE  Coded(cs) \in Wire /\ end \in Wire /\ Coded(cs) \o end \in Wire /\ FlattenSeq(cs) \in Text
<1>1. end \in Wire
  BY PieceWire, UnitsJoin
<1> QED BY <1>1, CodedType, UnitsJoin

RegroupsUnits(x, e, a) ==
  Units(x) \in Wire /\ Units(e) \o a \in Wire /\ Units(x \o e) \o a = Units(x) \o (Units(e) \o a)

LEMMA UnitsRegroup ==
  ASSUME NEW x \in Text, NEW e \in Text, NEW a \in Wire
  PROVE  RegroupsUnits(x, e, a)
<1>1. PICK u \in Wire, v \in Wire : u = Units(x) /\ v = Units(e) /\ Units(x \o e) = u \o v
  BY WireText, SMTT(30)
<1>2. Regroups(u, v, a)
  BY WireRegroups
<1>3. v \o a \in Wire
  BY UnitsJoin
<1> QED BY <1>1, <1>2, <1>3 DEF Regroups, RegroupsUnits

Shifts(g, b, y, f) == g \o ((b \o y) \o f) = (g \o b) \o (y \o f)

LEMMA TextRegroup ==
  ASSUME NEW g \in Text, NEW b \in Text, NEW y \in Text, NEW f \in Text
  PROVE  Shifts(g, b, y, f)
<1>1. PICK c \in Text, d \in Text : c = b \o y /\ d = y \o f
  BY UnitsJoin
<1>2. Regroups(b, y, f) /\ Regroups(g, b, d)
  BY <1>1, TextRegroups
<1>3. c \o f = b \o d
  BY <1>1, <1>2 DEF Regroups
<1> QED BY <1>1, <1>2, <1>3 DEF Regroups, Shifts

\* The data of a chunk, or what of it is there, is taken from the buffer.
LEMMA CodingData ==
  ASSUME Uncut, NEW b, NEW w \in Wire, NEW end \in {<<>>, End}, NEW len \in Nat, len # 0,
         NEW given \in Text, NEW s, Coding(b, w, end, len, given, s)
  PROVE  /\ b \in Text /\ Len(b) \in Nat
         /\ Len(b) < len => Coding(<<>>, w, end, len - Len(b), given \o b, s)
         /\ len <= Len(b) => Coding(Cut(b, len), w, end, 0, given \o SubSeq(b, 1, len), s)
<1>1. PICK cs \in Chunks, x \in Text, e \in Ends :
        /\ Len(x) = len
        /\ x # <<>> => e = LineEnd
        /\ Holds(b, w, Units(x \o e) \o (Coded(cs) \o end))
        /\ s = given \o (x \o FlattenSeq(cs))
  BY DEF Coding
<1>2. PICK a \in Wire, f \in Text : a = Coded(cs) \o end /\ f = FlattenSeq(cs)
  BY CodingParts
<1>3. e \in Text /\ x # <<>> /\ e = LineEnd
  BY <1>1, TextAndWire, JoinLen, EndsText
<1>4. Units(x) \in Wire /\ Units(e) \o a \in Wire /\ Units(x \o e) \o a = Units(x) \o (Units(e) \o a)
  <2>1. RegroupsUnits(x, e, a)
    BY <1>3, UnitsRegroup
  <2> QED BY <2>1 DEF RegroupsUnits
<1>5. PICK v \in Wire : v = Units(e) \o a
  BY <1>4
<1>6. Holds(b, w, Units(x) \o v)
  BY <1>1, <1>2, <1>4, <1>5
<1>7. CASE Has(b, w, x, v)
  <2>1. PICK q \in Text : b = x \o q /\ Holds(q, w, v)
    BY <1>7 DEF Has
  <2>2. b \in Text /\ Len(b) \in Nat /\ Len(b) = len + Len(q) /\ Len(q) \in Nat
    <3>1. x \o q \in Text /\ Len(x \o q) = Len(x) + Len(q) /\ Len(q) \in Nat
      BY TextAndWire, JoinIn, JoinLen
    <3> QED BY <1>1, <2>1, <3>1
  <2>3. Cut(b, len) = q /\ SubSeq(b, 1, len) = x
    BY <1>1, <2>1, TextAndWire, CutJoin
  <2>4. Coding(q, w, end, 0, given \o x, s)
    <3>1. <<>> \in Text /\ Len(<<>>) = 0 /\ <<>> \o e = e /\ <<>> \o f = f
      BY <1>3, UnitsJoin
    <3>2. Holds(q, w, Units(<<>> \o e) \o (Coded(cs) \o end))
      BY <1>2, <1>5, <2>1, <3>1
    <3>3. s = (given \o x) \o (<<>> \o FlattenSeq(cs))
      <4>1. Regroups(given, x, f)
        BY TextRegroups
      <4> QED BY <1>1, <1>2, <3>1, <4>1 DEF Regroups
    <3> QED BY <3>1, <3>2, <3>3 DEF Coding
  <2>5. Coding(Cut(b, len), w, end, 0, given \o SubSeq(b, 1, len), s)
    BY <2>3, <2>4
  <2>6. ~(Len(b) < len)
    BY <2>2
  <2> QED BY <2>2, <2>5, <2>6
<1>8. CASE Lacks(b, w, x, v)
  <2>1. PICK y \in Text : y # <<>> /\ x = b \o y /\ b \in Text /\ Holds(<<>>, w, Units(y) \o v)
    BY <1>8 DEF Lacks
  <2>2. Len(b) \in Nat /\ len = Len(b) + Len(y) /\ Len(y) \in Nat /\ Len(y) # 0
    BY <1>1, <2>1, TextAndWire, JoinLen
  <2>3. Holds(<<>>, w, Units(y \o e) \o (Coded(cs) \o end))
    <3>1. Units(y \o e) \o a = Units(y) \o (Units(e) \o a)
      <4>1. RegroupsUnits(y, e, a)
        BY <1>3, UnitsRegroup
      <4> QED BY <4>1 DEF RegroupsUnits
    <3> QED BY <1>2, <1>5, <2>1, <3>1
  <2>4. s = (given \o b) \o (y \o FlattenSeq(cs))
    <3>1. Shifts(given, b, y, f)
      BY <2>1, TextRegroup
    <3> QED BY <1>1, <1>2, <2>1, <3>1 DEF Shifts
  <2>5. Coding(<<>>, w, end, len - Len(b), given \o b, s)
    <3>1. Len(y) = len - Len(b)
      BY <2>2
    <3> QED BY <1>3, <2>3, <2>4, <3>1 DEF Coding
  <2>6. ~(len <= Len(b))
    BY <2>2
  <2> QED BY <2>1, <2>2, <2>5, <2>6
<1> QED BY <1>6, <1>7, <1>8, HoldsText

-----------------------------------------------------------------------------
(* Line ends, and the size line behind them.                               *)

AllEol(e) == \A i \in 1 .. Len(e) : e[i] \in Eol
AllDigit(r) == \A i \in 1 .. Len(r) : r[i] \in Digit

LEMMA DigitsNotEol == \A c \in Digit : c \notin Eol
BY DEF Digit, Eol

\* What php_http_buffer_cut leaves behind the line ends in front of r.
LEMMA EolsBefore ==
  ASSUME NEW e \in Text, AllEol(e), NEW r \in Text, r # <<>> => r[1] \notin Eol,
         NEW n \in 0 .. Len(e \o r), EolsAt(e \o r, n)
  PROVE  n = Len(e) /\ Cut(e \o r, n) = r /\ Len(e \o r) = n + Len(r)
<1> DEFINE b == e \o r
<1>1. /\ b \in Seq(Char) /\ Len(b) = Len(e) + Len(r) /\ Len(e) \in Nat /\ Len(r) \in Nat
      /\ \A i \in 1 .. Len(e) + Len(r) : b[i] = IF i <= Len(e) THEN e[i] ELSE r[i - Len(e)]
  BY ConcatProperties, LenProperties DEF Text
<1>2. Len(r) # 0 => r[1] \notin Eol
  BY TextAndWire, JoinLen
<1>3. n \in 0 .. Len(b) /\ (\A i \in 1 .. n : b[i] \in Eol) /\ (n < Len(b) => b[n + 1] \notin Eol)
  BY DEF EolsAt
<1> HIDE DEF b
<1>4. ~(n < Len(e))
  <2> SUFFICES ASSUME n < Len(e) PROVE FALSE
    OBVIOUS
  <2>1. n + 1 \in 1 .. Len(e) /\ n + 1 \in 1 .. Len(e) + Len(r) /\ n < Len(b)
    BY <1>1, <1>3
  <2>2. b[n + 1] = e[n + 1]
    BY <1>1, <2>1
  <2> QED BY <1>3, <2>1, <2>2 DEF AllEol
<1>5. ~(Len(e) < n)
  <2> SUFFICES ASSUME Len(e) < n PROVE FALSE
    OBVIOUS
  <2>1. Len(e) + 1 \in 1 .. n /\ Len(e) + 1 \in 1 .. Len(e) + Len(r) /\ Len(r) # 0
    BY <1>1, <1>3
  <2>2. b[Len(e) + 1] = r[1]
    BY <1>1, <2>1
  <2> QED BY <1>2, <1>3, <2>1, <2>2
<1>6. n = Len(e)
  BY <1>1, <1>3, <1>4, <1>5
<1>7. Cut(e \o r, Len(e)) = r
  BY TextAndWire, CutJoin
<1> QED BY <1>1, <1>6, <1>7 DEF b

\* The first line end of a size line is its own.
LEMMA EolOfLine ==
  ASSUME NEW h \in Text, AllDigit(h), NEW q \in Text, NEW k \in 1 .. Len(h \o (LineEnd \o q)),
         EolAt(h \o (LineEnd \o q), k)
  PROVE  k = Len(h) + 1
<1> DEFINE r == h \o (LineEnd \o q)
<1>1. /\ Len(r) = Len(h) + 2 + Len(q) /\ Len(h) \in Nat /\ Len(q) \in Nat
      /\ \A i \in 1 .. Len(h) : r[i] = h[i]
      /\ r[Len(h) + 1] = "CR"
  BY LineText
<1>2. k \in 1 .. Len(r) /\ r[k] \in Eol /\ \A j \in 1 .. k - 1 : r[j] \notin Eol
  BY DEF EolAt
<1> HIDE DEF r
<1>3. ~(k <= Len(h))
  BY <1>1, <1>2, DigitsNotEol DEF AllDigit
<1>4. ~(Len(h) + 1 < k)
  <2>1. Len(h) + 1 < k => Len(h) + 1 \in 1 .. k - 1
    BY <1>1, <1>2
  <2>2. "CR" \in Eol
    BY DEF Eol
  <2> QED BY <1>1, <1>2, <2>1, <2>2
<1> QED BY <1>1, <1>2, <1>3, <1>4

\* The buffer r begins with a size line, or holds a part of one.
Line(r, w, h, v) == \E q \in Text : r = h \o (LineEnd \o q) /\ Holds(q, w, v)
Begun(r, cs, w, end) ==
  \E h, n, v : Sized(cs, end, h, n, v) /\ (Line(r, w, h, v) \/ AllDigit(r))

LEMMA SizeBegun ==
  ASSUME Uncut, NEW r, r # <<>>, NEW w \in Wire, NEW cs \in Chunks, NEW end \in {<<>>, End},
         Holds(r, w, Coded(cs) \o end)
  PROVE  r \in Text /\ r[1] \notin Eol /\ Begun(r, cs, w, end)
<1>0. PICK a \in Wire : a = Coded(cs) \o end /\ Holds(r, w, a)
  BY CodingParts
<1>1. r \in Text /\ Len(r) \in Nat /\ Len(r) # 0
  <2>1. r \in Text
    BY <1>0, HoldsAll
  <2> QED BY <2>1, TextAndWire, JoinLen
<1>2. a # <<>>
  <2> SUFFICES ASSUME a = <<>> PROVE FALSE
    OBVIOUS
  <2>1. PICK u \in Wire : FlattenSeq(u) = r /\ u \o w = <<>>
    BY <1>0 DEF Holds, Wire
  <2>2. Len(u \o w) = Len(u) + Len(w) /\ Len(u) \in Nat /\ Len(w) \in Nat /\ (Len(u) = 0 <=> u = <<>>)
    BY TextAndWire, JoinLen
  <2>3. Len(<<>>) = 0
    OBVIOUS
  <2>4. u = <<>>
    BY <2>1, <2>2, <2>3
  <2> QED BY <2>1, <2>4, FlattenEmpty
<1>3. PICK h, n, v : Sized(cs, end, h, n, v)
  BY <1>0, <1>2, NextSize
<1>4. SizeText(h, n) /\ v \in Wire /\ a = Units(h) \o (SizeLine \o v)
  BY <1>0, <1>3 DEF Sized
<1>5. h \in Text /\ Len(h) > 0 /\ AllDigit(h) /\ Len(h) \in Nat
  BY <1>4, TextAndWire, JoinLen DEF SizeText, AllDigit
<1>6. PICK l \in Wire : l = SizeLine \o v
  BY <1>4, LineEndText, UnitsJoin
<1>7. Has(r, w, h, l) \/ Lacks(r, w, h, l)
  BY <1>0, <1>4, <1>5, <1>6, HoldsText
<1>8. CASE Has(r, w, h, l)
  <2>1. PICK t \in Text : r = h \o t /\ Holds(t, w, l)
    BY <1>8 DEF Has
  <2>4. AllDigit(r) \/ Line(r, w, h, v)
    <3>1. CASE t = <<>>
      BY <1>5, <2>1, <3>1, UnitsJoin
    <3>2. CASE t # <<>>
      <4>1. PICK q \in Text : t = LineEnd \o q /\ Holds(q, w, v)
        BY <1>4, <1>6, <2>1, <3>2, HoldsLine
      <4> QED BY <2>1, <4>1 DEF Line
    <3> QED BY <3>1, <3>2
  <2>5. r[1] \in Digit
    <3>1. h \in Seq(Char) /\ t \in Seq(Char)
      BY <1>5 DEF Text
    <3>2. 1 \in 1 .. Len(h) /\ 1 \in 1 .. Len(h) + Len(t) /\ 1 <= Len(h)
      BY <1>5, <3>1, LenProperties
    <3>3. (h \o t)[1] = h[1]
      BY <3>1, <3>2, ConcatProperties
    <3> QED BY <1>5, <2>1, <3>2, <3>3 DEF AllDigit
  <2> QED BY <1>1, <1>3, <2>4, <2>5, DigitsNotEol DEF Begun
<1>9. CASE Lacks(r, w, h, l)
  <2>1. PICK y \in Text : h = r \o y
    BY <1>9 DEF Lacks
  <2>2. Len(h) = Len(r) + Len(y) /\ Len(y) \in Nat
    BY <1>1, <2>1, TextAndWire, JoinLen
  <2>3. \A i \in 1 .. Len(r) : (r \o y)[i] = r[i]
    <3>1. r \in Seq(Char) /\ y \in Seq(Char)
      BY <1>1 DEF Text
    <3>2. \A i \in 1 .. Len(r) + Len(y) : (r \o y)[i] = IF i <= Len(r) THEN r[i] ELSE y[i - Len(r)]
      BY <3>1, ConcatProperties
    <3> QED BY <1>1, <2>2, <3>2
  <2>4. AllDigit(r)
    BY <1>1, <1>5, <2>1, <2>2, <2>3 DEF AllDigit
  <2>5. 1 \in 1 .. Len(r)
    BY <1>1
  <2>6. r[1] \in Digit
    BY <2>4, <2>5 DEF AllDigit
  <2> QED BY <1>1, <1>3, <2>4, <2>6, DigitsNotEol DEF Begun
<1> QED BY <1>7, <1>8, <1>9

Starts(b, w, end, given, s, n) ==
  \E cs \in Chunks, e \in Text :
    /\ s = given \o FlattenSeq(cs)
    /\ b = e \o Cut(b, n) /\ Len(e) = n
    /\ Cut(b, n) # <<>>
    /\ Holds(Cut(b, n), w, Coded(cs) \o end)

\* Behind the line ends in front of it, the buffer holds the beginning of other
\* chunks, if it holds anything.
LEMMA CodingStart ==
  ASSUME Uncut, NEW b, b # <<>>, NEW w \in Wire, NEW end \in {<<>>, End}, NEW given \in Text, NEW s,
         Coding(b, w, end, 0, given, s), NEW n \in 0 .. Len(b), EolsAt(b, n)
  PROVE  /\ b \in Text /\ Len(b) \in Nat
         /\ n = Len(b) => Coding(<<>>, w, end, 0, given, s)
         /\ n < Len(b) => Starts(b, w, end, given, s, n)
<1>1. PICK cs \in Chunks, x \in Text, e \in Ends :
        /\ Len(x) = 0
        /\ Holds(b, w, Units(x \o e) \o (Coded(cs) \o end))
        /\ s = given \o (x \o FlattenSeq(cs))
  BY DEF Coding
<1>2. PICK a \in Wire, f \in Text : a = Coded(cs) \o end /\ f = FlattenSeq(cs)
  BY CodingParts
<1>3. e \in Text /\ AllEol(e) /\ Len(e) <= 2 /\ Len(e) \in Nat
  <2>1. e \in Text /\ AllEol(e) /\ Len(e) <= 2
    BY EndsText DEF AllEol
  <2> QED BY <2>1, TextAndWire, JoinLen
<1>4. x = <<>> /\ x \o e = e /\ x \o f = f
  <2>1. x = <<>>
    BY <1>1, TextAndWire, JoinLen
  <2> QED BY <1>3, <2>1, UnitsJoin
<1>5. Holds(b, w, Units(e) \o a) /\ s = given \o f
  BY <1>1, <1>2, <1>4
<1>6. b \in Text
  <2>1. PICK v \in Wire : v = Units(e) \o a
    BY <1>3, UnitsJoin, WireText
  <2> QED BY <1>5, <2>1, HoldsAll
<1>7. Len(b) \in Nat /\ Len(b) # 0
  BY <1>6, TextAndWire, JoinLen
\* Nothing is there, and d is left of the line end.
<1>8. ASSUME NEW d \in Ends, Holds(<<>>, w, Units(d) \o a) PROVE Coding(<<>>, w, end, 0, given, s)
  <2>1. d \in Text
    BY EndsText
  <2>2. <<>> \in Text /\ Len(<<>>) = 0 /\ <<>> \o d = d /\ <<>> \o f = f
    BY <2>1, UnitsJoin
  <2>3. Holds(<<>>, w, Units(<<>> \o d) \o (Coded(cs) \o end)) /\ s = given \o (<<>> \o FlattenSeq(cs))
    BY <1>2, <1>5, <1>8, <2>2
  <2> QED BY <2>2, <2>3 DEF Coding
<1>9. CASE Has(b, w, e, a)
  <2>1. PICK r \in Text : b = e \o r /\ Holds(r, w, a)
    BY <1>9 DEF Has
  <2>2. CASE r = <<>>
    <3>1. <<>> \in Ends /\ <<>> \in Text /\ AllEol(<<>>)
      BY UnitsJoin DEF Ends, AllEol
    <3>2. Units(<<>>) \o a = a
      <4>1. Units(<<>>) = <<>>
        BY DEF Units
      <4> QED BY <4>1, UnitsJoin
    <3>3. Coding(<<>>, w, end, 0, given, s)
      BY <1>8, <2>1, <2>2, <3>1, <3>2
    <3>4. n = Len(b)
      <4>1. r # <<>> => r[1] \notin Eol
        BY <2>2
      <4>2. n \in 0 .. Len(e \o r) /\ EolsAt(e \o r, n)
        BY <2>1
      <4>3. n = Len(e) /\ Len(e \o r) = n + Len(r)
        BY <1>3, <4>1, <4>2, EolsBefore
      <4>4. Len(r) = 0
        BY <2>2
      <4> QED BY <1>3, <2>1, <4>3, <4>4
    <3> QED BY <1>6, <1>7, <3>3, <3>4
  <2>3. CASE r # <<>>
    <3>1. r[1] \notin Eol /\ Holds(r, w, Coded(cs) \o end)
      BY <1>2, <2>1, <2>3, SizeBegun
    <3>2. n \in 0 .. Len(e \o r) /\ EolsAt(e \o r, n)
      BY <2>1
    <3>3. n = Len(e) /\ Cut(e \o r, n) = r /\ Len(e \o r) = n + Len(r)
      BY <1>3, <3>1, <3>2, EolsBefore
    <3>4. Cut(b, n) = r /\ Len(b) = n + Len(r) /\ Len(r) \in Nat /\ Len(r) # 0
      BY <2>1, <2>3, <3>3, TextAndWire, JoinLen
    <3>5. s = given \o FlattenSeq(cs) /\ b = e \o Cut(b, n) /\ Len(e) = n /\ Cut(b, n) # <<>>
      BY <1>2, <1>5, <2>1, <2>3, <3>3, <3>4
    <3>6. Holds(Cut(b, n), w, Coded(cs) \o end)
      BY <3>1, <3>4
    <3>7. n # Len(b)
      BY <1>3, <3>3, <3>4
    <3>8. Starts(b, w, end, given, s, n)
      BY <1>3, <3>5, <3>6 DEF Starts
    <3> QED BY <1>6, <1>7, <3>7, <3>8
  <2> QED BY <2>2, <2>3
<1>10. CASE Lacks(b, w, e, a)
  <2>1. PICK y \in Text : y # <<>> /\ e = b \o y /\ Holds(<<>>, w, Units(y) \o a)
    BY <1>10 DEF Lacks
  <2>2. Len(e) = Len(b) + Len(y) /\ Len(y) \in Nat /\ Len(y) # 0
    BY <1>6, <2>1, TextAndWire, JoinLen
  <2>3. /\ \A i \in 1 .. Len(b) : e[i] = b[i]
        /\ e[Len(b) + 1] = y[1]
    <3>1. b \in Seq(Char) /\ y \in Seq(Char)
      BY <1>6 DEF Text
    <3>2. \A i \in 1 .. Len(b) + Len(y) : (b \o y)[i] = IF i <= Len(b) THEN b[i] ELSE y[i - Len(b)]
      BY <3>1, ConcatProperties
    <3>3. Len(b) + 1 \in 1 .. Len(b) + Len(y) /\ ~(Len(b) + 1 <= Len(b)) /\ Len(b) + 1 - Len(b) = 1
      BY <1>7, <2>2
    <3> QED BY <1>7, <2>1, <2>2, <3>2, <3>3
  <2>4. AllEol(b)
    BY <1>3, <1>7, <2>2, <2>3 DEF AllEol
  <2>5. n = Len(b)
    BY <1>7, <2>4 DEF EolsAt, AllEol
  <2>6. Len(e) = 2 /\ Len(b) = 1 /\ Len(y) = 1
    <3>1. \A i, j, k \in Nat : k = i + j /\ k <= 2 /\ i # 0 /\ j # 0 => k = 2 /\ i = 1 /\ j = 1
      OBVIOUS
    <3> QED BY <1>3, <1>7, <2>2, <3>1
  <2>7. e = LineEnd
    <3>1. Len(<<>>) = 0 /\ Len(<<"LF">>) = 1
      OBVIOUS
    <3>2. e # <<>> /\ e # <<"LF">>
      BY <2>6, <3>1, SMTT(30)
    <3> QED BY <3>2 DEF Ends
  <2>8. y[1] = "LF"
    BY <2>3, <2>6, <2>7, LineEndText
  <2>9. y = <<"LF">>
    BY <2>6, <2>8 DEF Text
  <2> QED BY <1>6, <1>7, <1>8, <2>1, <2>5, <2>9 DEF Ends
<1> QED BY <1>3, <1>5, <1>9, <1>10, HoldsText

\* Cutting the line ends off loses nothing.
LEMMA CodingRest ==
  ASSUME Uncut, NEW b, b # <<>>, NEW w \in Wire, NEW end \in {<<>>, End}, NEW given \in Text, NEW s,
         Coding(b, w, end, 0, given, s), NEW n \in 0 .. Len(b), EolsAt(b, n), n < Len(b)
  PROVE  Coding(Cut(b, n), w, end, 0, given, s)
<1>1. PICK cs \in Chunks : s = given \o FlattenSeq(cs) /\ Holds(Cut(b, n), w, Coded(cs) \o end)
  <2>1. Starts(b, w, end, given, s, n)
    BY CodingStart
  <2> QED BY <2>1 DEF Starts
<1>2. PICK a \in Wire, f \in Text : a = Coded(cs) \o end /\ f = FlattenSeq(cs)
  BY CodingParts
<1>3. <<>> \in Text /\ Len(<<>>) = 0 /\ <<>> \o f = f /\ <<>> \o <<>> = <<>> /\ <<>> \o a = a
  BY UnitsJoin
<1>4. Units(<<>>) = <<>>
  BY DEF Units
<1>5. Holds(Cut(b, n), w, Units(<<>> \o <<>>) \o (Coded(cs) \o end))
  BY <1>1, <1>2, <1>3, <1>4
<1>6. s = given \o (<<>> \o FlattenSeq(cs))
  BY <1>1, <1>2, <1>3
<1> QED BY <1>3, <1>5, <1>6 DEF Coding, Ends

\* The size line is read right, and what is behind it is cut right.
Reads(b, w, end, given, s, n) ==
  \E m \in Numbers, q \in Text :
    /\ \A size \in Numbers : Strtoul(Cut(b, n), size) <=> size = m
    /\ \A i \in n + 1 .. Len(b) : EolAt(Cut(b, n), i - n) => Cut(b, i - 1 + EolLen(b, i)) = q
    /\ m # 0 => Coding(q, w, end, m, given, s)
    /\ m = 0 => end = End /\ s = given /\ q \o FlattenSeq(w) = LineEnd \o Following

LEMMA CodingSize ==
  ASSUME Uncut, NEW b, b # <<>>, NEW w \in Wire, NEW end \in {<<>>, End}, NEW given \in Text, NEW s,
         Coding(b, w, end, 0, given, s), NEW n \in 0 .. Len(b), EolsAt(b, n), n < Len(b),
         \E i \in n + 1 .. Len(b) : b[i] \in Eol
  PROVE  Reads(b, w, end, given, s, n)
<1>1. PICK cs \in Chunks, e \in Text :
        /\ s = given \o FlattenSeq(cs)
        /\ b = e \o Cut(b, n) /\ Len(e) = n
        /\ Cut(b, n) # <<>>
        /\ Holds(Cut(b, n), w, Coded(cs) \o end)
  <2>1. Starts(b, w, end, given, s, n)
    BY CodingStart
  <2> QED BY <2>1 DEF Starts
<1>2. PICK r \in Text : r = Cut(b, n) /\ Begun(r, cs, w, end)
  BY <1>1, SizeBegun
<1>3. /\ b \in Text /\ Len(b) = n + Len(r) /\ Len(r) \in Nat /\ n \in Nat
      /\ \A i \in n + 1 .. Len(b) : b[i] = r[i - n] /\ i - n \in 1 .. Len(r)
  <2>1. e \in Seq(Char) /\ r \in Seq(Char) /\ b = e \o r
    BY <1>1, <1>2 DEF Text
  <2>2. /\ e \o r \in Seq(Char) /\ Len(e \o r) = Len(e) + Len(r)
        /\ \A i \in 1 .. Len(e) + Len(r) : (e \o r)[i] = IF i <= Len(e) THEN e[i] ELSE r[i - Len(e)]
        /\ Len(e) \in Nat /\ Len(r) \in Nat
    BY <2>1, ConcatProperties, LenProperties
  <2> QED BY <1>1, <2>1, <2>2 DEF Text
<1>4. PICK h, m, v : Sized(cs, end, h, m, v) /\ (Line(r, w, h, v) \/ AllDigit(r))
  BY <1>2 DEF Begun
<1>5. /\ SizeText(h, m) /\ m \in Numbers /\ v \in Wire
      /\ \/ /\ m # 0
            /\ \E c \in Chunk, ds \in Chunks :
                 /\ Len(c) = m
                 /\ v = Units(c \o LineEnd) \o (Coded(ds) \o end)
                 /\ FlattenSeq(cs) = c \o FlattenSeq(ds)
         \/ m = 0 /\ cs = <<>> /\ end = End /\ v = Units(LineEnd \o Following)
  BY <1>4 DEF Sized
<1>6. ~AllDigit(r)
  BY <1>3, DigitsNotEol DEF AllDigit
<1>7. PICK q \in Text : r = h \o (LineEnd \o q) /\ Holds(q, w, v)
  BY <1>4, <1>6 DEF Line
<1>8. h \in Text /\ AllDigit(h) /\ Len(h) \in Nat
  BY <1>5, TextAndWire, JoinLen DEF SizeText, AllDigit
<1>9. \A size \in Numbers : Strtoul(Cut(b, n), size) <=> size = m
  BY <1>2, <1>5, <1>7, StrtoulReads
<1>10. ASSUME NEW i \in n + 1 .. Len(b), EolAt(Cut(b, n), i - n)
       PROVE  Cut(b, i - 1 + EolLen(b, i)) = q
  <2>1. i - n = Len(h) + 1
    BY <1>2, <1>3, <1>7, <1>8, <1>10, EolOfLine
  <2>2. /\ r[Len(h) + 1] = "CR" /\ r[Len(h) + 2] = "LF" /\ Len(r) = Len(h) + 2 + Len(q) /\ Len(q) \in Nat
    <3> DEFINE z == h \o (LineEnd \o q)
    <3>1. /\ z[Len(h) + 1] = "CR" /\ z[Len(h) + 2] = "LF" /\ Len(z) = Len(h) + 2 + Len(q) /\ Len(q) \in Nat
      <4>1. h \in Text
        BY <1>8
      <4> QED BY <4>1, LineText, Zenon
    <3> HIDE DEF z
    <3>2. r = z
      BY <1>7 DEF z
    <3> QED BY <3>1, <3>2
  <2>3. i = n + (Len(h) + 1) /\ i + 1 \in n + 1 .. Len(b) /\ i < Len(b) /\ (i + 1) - n = Len(h) + 2
    BY <1>3, <1>8, <2>1, <2>2
  <2>4. b[i] = "CR" /\ b[i + 1] = "LF"
    BY <1>3, <2>1, <2>2, <2>3
  <2>5. EolLen(b, i) = 2
    BY <2>3, <2>4 DEF EolLen
  <2>6. i - 1 + EolLen(b, i) = n + (Len(h) + 2)
    BY <1>3, <1>8, <2>3, <2>5
  <2>7. Cut(b, n + (Len(h) + 2)) = q
    <3>1. PICK d \in Text, g \in Text : d = h \o LineEnd /\ g = e \o d
      BY <1>8, UnitsJoin
    <3>2. Len(d) = Len(h) + 2 /\ Len(g) = n + Len(d)
      <4>1. Len(h \o LineEnd) = Len(h) + Len(LineEnd) /\ Len(e \o d) = Len(e) + Len(d)
        <5>1. h \in Text /\ LineEnd \in Text /\ SeqSet(Text)
          BY <1>8, LineEndText, TextAndWire
        <5> QED BY <5>1, JoinLen
      <4> QED BY <1>1, <3>1, <4>1, LineEndText
    <3>3. b = g \o q
      <4>1. Regroups(h, LineEnd, q) /\ Regroups(e, d, q)
        BY <1>8, LineEndText, TextRegroups
      <4>2. d \o q = r
        BY <1>7, <3>1, <4>1 DEF Regroups
      <4>3. g \o q = e \o r
        BY <3>1, <4>1, <4>2 DEF Regroups
      <4> QED BY <1>1, <1>2, <4>3
    <3>4. Cut(g \o q, Len(g)) = q
      BY TextAndWire, CutJoin
    <3> QED BY <3>2, <3>3, <3>4
  <2> QED BY <2>6, <2>7
<1>11. m # 0 => Coding(q, w, end, m, given, s)
  <2> SUFFICES ASSUME m # 0 PROVE Coding(q, w, end, m, given, s)
    OBVIOUS
  <2>1. PICK c \in Chunk, ds \in Chunks :
          /\ Len(c) = m
          /\ v = Units(c \o LineEnd) \o (Coded(ds) \o end)
          /\ FlattenSeq(cs) = c \o FlattenSeq(ds)
    BY <1>5
  <2>2. c \in Text /\ LineEnd \in Ends
    BY DEF Chunk, Ends
  <2>3. s = given \o (c \o FlattenSeq(ds))
    BY <1>1, <2>1
  <2>4. Holds(q, w, Units(c \o LineEnd) \o (Coded(ds) \o end))
    BY <1>7, <2>1
  <2> QED BY <2>1, <2>2, <2>3, <2>4 DEF Coding
<1>12. m = 0 => end = End /\ s = given /\ q \o FlattenSeq(w) = LineEnd \o Following
  <2> SUFFICES ASSUME m = 0 PROVE end = End /\ s = given /\ q \o FlattenSeq(w) = LineEnd \o Following
    OBVIOUS
  <2>1. cs = <<>> /\ end = End /\ v = Units(LineEnd \o Following)
    BY <1>5
  <2>2. s = given
    BY <1>1, <2>1, CodedEmpty, UnitsJoin
  <2>3. q \o FlattenSeq(w) = FlattenSeq(v)
    BY <1>5, <1>7, HoldsAll
  <2>4. FlattenSeq(v) = LineEnd \o Following
    BY <2>1, UnitsJoin, WireText
  <2> QED BY <2>1, <2>2, <2>3, <2>4
<1>13. /\ m \in Numbers /\ q \in Text
       /\ \A i \in n + 1 .. Len(b) : EolAt(Cut(b, n), i - n) => Cut(b, i - 1 + EolLen(b, i)) = q
  BY <1>5, <1>10
<1> QED BY <1>9, <1>11, <1>12, <1>13 DEF Reads
-----------------------------------------------------------------------------
(* What the filter and the wire do to a coding.                            *)

RegroupsAll(w, h, l, u, v) == (((w \o h) \o l) \o u) \o v = w \o (h \o (l \o (u \o v)))

LEMMA WireJoins ==
  ASSUME NEW w \in Wire, NEW h \in Wire, NEW l \in Wire, NEW u \in Wire, NEW v \in Wire
  PROVE  RegroupsAll(w, h, l, u, v)
<1>1. PICK a \in Wire, c \in Wire, d \in Wire, p \in Wire, q \in Wire :
        /\ a = w \o h /\ c = a \o l /\ d = u \o v /\ p = l \o d /\ q = h \o p
  <2>1. PICK a \in Wire, d \in Wire : a = w \o h /\ d = u \o v
    BY UnitsJoin
  <2>2. PICK c \in Wire, p \in Wire : c = a \o l /\ p = l \o d
    BY UnitsJoin
  <2>3. PICK q \in Wire : q = h \o p
    BY UnitsJoin
  <2> QED BY <2>1, <2>2, <2>3
<1>2. Regroups(c, u, v) /\ Regroups(a, l, d) /\ Regroups(w, h, p)
  BY WireRegroups
<1>3. (c \o u) \o v = c \o d /\ c \o d = a \o p /\ a \o p = w \o q
  BY <1>1, <1>2 DEF Regroups
<1>4. (((w \o h) \o l) \o u) \o v = w \o (h \o (l \o (u \o v)))
  BY <1>1, <1>3
<1> QED BY <1>4 DEF RegroupsAll

LEMMA WireEncode ==
  ASSUME Uncut, NEW w \in Wire
  PROVE  /\ \A c \in Chunk : w \o Hex(Len(c)) \o SizeCrlf \o Units(c) \o Crlf = w \o Piece(c)
         /\ w \o Hex(0) \o SizeCrlf \o Crlf \o Units(Following) = w \o End
<1>1. \A n \in Nat : Hex(n) \in Wire
  BY HexText, WireText DEF Uncut, SizeText
<1>2. PICK l \in Wire, u \in Wire : l = SizeCrlf /\ l = SizeLine /\ u = Crlf /\ u = Units(LineEnd)
  <2>1. SizeCrlf = SizeLine
    BY DEF Uncut, SizeCrlf, SizeLine, LineEnd
  <2> QED BY <2>1, LineEndText, WireText
<1>3. ASSUME NEW c \in Chunk PROVE w \o Hex(Len(c)) \o SizeCrlf \o Units(c) \o Crlf = w \o Piece(c)
  <2>1. c \in Text /\ Len(c) \in Nat
    BY TextAndWire, JoinLen DEF Chunk
  <2>2. PICK h \in Wire, d \in Wire : h = Hex(Len(c)) /\ d = Units(c)
    BY <1>1, <2>1, WireText
  <2>3. RegroupsAll(w, h, l, d, u)
    BY WireJoins
  <2>4. Units(c \o LineEnd) = d \o u
    <3>1. Units(c \o LineEnd) = Units(c) \o Units(LineEnd)
      BY <2>1, UnitsJoin, WireText
    <3> QED BY <1>2, <2>2, <3>1
  <2>5. Piece(c) = h \o (l \o (d \o u))
    BY <1>2, <2>2, <2>4 DEF Piece
  <2> QED BY <1>2, <2>2, <2>3, <2>5 DEF RegroupsAll
<1>4. w \o Hex(0) \o SizeCrlf \o Crlf \o Units(Following) = w \o End
  <2>1. PICK h \in Wire, d \in Wire : h = Hex(0) /\ d = Units(Following)
    BY <1>1, UnitsJoin, WireText
  <2>2. RegroupsAll(w, h, l, u, d)
    BY WireJoins
  <2>3. Units(LineEnd \o Following) = u \o d
    <3>1. Units(LineEnd \o Following) = Units(LineEnd) \o Units(Following)
      BY UnitsJoin, WireText
    <3> QED BY <1>2, <2>1, <3>1
  <2>4. End = h \o (l \o (u \o d))
    BY <1>2, <2>1, <2>3 DEF End
  <2> QED BY <1>2, <2>1, <2>2, <2>4 DEF RegroupsAll
<1> QED BY <1>3, <1>4

\* A bucket is encoded behind the other ones.
LEMMA CodingEncode ==
  ASSUME Uncut, NEW b, NEW w \in Wire, NEW len, NEW given \in Text, NEW s, NEW c \in Chunk,
         Coding(b, w, <<>>, len, given, s)
  PROVE  Coding(b, w \o Piece(c), <<>>, len, given, s \o c)
<1>1. PICK cs \in Chunks, x \in Text, e \in Ends :
        /\ Len(x) = len
        /\ x # <<>> => e = LineEnd
        /\ Holds(b, w, Units(x \o e) \o (Coded(cs) \o <<>>))
        /\ s = given \o (x \o FlattenSeq(cs))
  BY DEF Coding
<1>2. PICK o \in Chunks : o = <<c>> /\ Coded(o) = Piece(c) /\ FlattenSeq(o) = c
  BY CodedOne
<1>3. PICK ds \in Chunks : /\ ds = cs \o o
                           /\ Coded(ds) = Coded(cs) \o Coded(o)
                           /\ FlattenSeq(ds) = FlattenSeq(cs) \o FlattenSeq(o)
  BY CodedConcat
<1>4. PICK a \in Wire, f \in Text, p \in Wire, u \in Wire :
        a = Coded(cs) /\ f = FlattenSeq(cs) /\ p = Piece(c) /\ u = Units(x \o e)
  <2>1. x \o e \in Text
    BY EndsText, UnitsJoin
  <2> QED BY <2>1, CodingParts, PieceWire, WireText
<1>5. c \in Text /\ a \o <<>> = a /\ a \o p \in Wire /\ (a \o p) \o <<>> = a \o p /\ u \o a \in Wire
  BY UnitsJoin DEF Chunk
<1>6. Holds(b, w \o p, (u \o a) \o p)
  <2>1. Holds(b, w, u \o a)
    BY <1>1, <1>4, <1>5
  <2> QED BY <1>5, <2>1, HoldsAdd
<1>7. Holds(b, w \o Piece(c), Units(x \o e) \o (Coded(ds) \o <<>>))
  <2>1. Regroups(u, a, p)
    BY WireRegroups
  <2>2. Coded(ds) \o <<>> = a \o p
    BY <1>2, <1>3, <1>4, <1>5
  <2> QED BY <1>4, <1>6, <2>1, <2>2 DEF Regroups
<1>8. s \o c = given \o (x \o FlattenSeq(ds))
  <2>1. PICK y \in Text : y = x \o f
    BY UnitsJoin
  <2>2. Regroups(given, y, c) /\ Regroups(x, f, c)
    BY <1>5, TextRegroups
  <2>3. FlattenSeq(ds) = f \o c
    BY <1>2, <1>3, <1>4
  <2> QED BY <1>1, <1>4, <2>1, <2>2, <2>3 DEF Regroups
<1> QED BY <1>1, <1>7, <1>8 DEF Coding

LEMMA CodingClose ==
  ASSUME Uncut, NEW b, NEW w \in Wire, NEW len, NEW given, NEW s, Coding(b, w, <<>>, len, given, s)
  PROVE  Coding(b, w \o End, End, len, given, s)
<1>1. PICK cs \in Chunks, x \in Text, e \in Ends :
        /\ Len(x) = len
        /\ x # <<>> => e = LineEnd
        /\ Holds(b, w, Units(x \o e) \o (Coded(cs) \o <<>>))
        /\ s = given \o (x \o FlattenSeq(cs))
  BY DEF Coding
<1>2. PICK a \in Wire, p \in Wire, u \in Wire : a = Coded(cs) /\ p = End /\ u = Units(x \o e)
  <2>1. x \o e \in Text
    BY EndsText, UnitsJoin
  <2> QED BY <2>1, CodedType, PieceWire, WireText
<1>3. a \o <<>> = a /\ u \o a \in Wire
  BY UnitsJoin
<1>4. Holds(b, w \o p, (u \o a) \o p)
  <2>1. Holds(b, w, u \o a)
    BY <1>1, <1>2, <1>3
  <2> QED BY <1>3, <2>1, HoldsAdd
<1>5. Holds(b, w \o End, Units(x \o e) \o (Coded(cs) \o End))
  <2>1. Regroups(u, a, p)
    BY WireRegroups
  <2> QED BY <1>2, <1>4, <2>1 DEF Regroups
<1> QED BY <1>1, <1>5 DEF Coding

LEMMA CodingReceive ==
  ASSUME Uncut, NEW b, NEW w \in Wire, NEW end \in {<<>>, End}, NEW len, NEW given, NEW s,
         Coding(b, w, end, len, given, s), NEW n \in 0 .. Len(w)
  PROVE  Cut(w, n) \in Wire /\ Coding(b \o FlattenSeq(SubSeq(w, 1, n)), Cut(w, n), end, len, given, s)
<1>1. PICK cs \in Chunks, x \in Text, e \in Ends :
        /\ Len(x) = len
        /\ x # <<>> => e = LineEnd
        /\ Holds(b, w, Units(x \o e) \o (Coded(cs) \o end))
        /\ s = given \o (x \o FlattenSeq(cs))
  BY DEF Coding
<1>2. PICK all \in Wire : all = Units(x \o e) \o (Coded(cs) \o end)
  <2>1. x \o e \in Text
    BY EndsText, UnitsJoin
  <2>2. PICK u \in Wire, a \in Wire : u = Units(x \o e) /\ a = Coded(cs) \o end
    BY <2>1, CodingParts, WireText
  <2>3. u \o a \in Wire
    BY UnitsJoin
  <2> QED BY <2>2, <2>3, Zenon
<1>3. Cut(w, n) \in Wire /\ Holds(b \o FlattenSeq(SubSeq(w, 1, n)), Cut(w, n), all)
  BY <1>1, <1>2, HoldsMore
<1> QED BY <1>1, <1>2, <1>3 DEF Coding

\* What has been decoded begins what was sent.
Begins(given, s) == \E rest \in Text : s = given \o rest

LEMMA CodingSent ==
  ASSUME Uncut, NEW b, NEW w \in Wire, NEW end \in {<<>>, End}, NEW len, NEW given, NEW s,
         Coding(b, w, end, len, given, s)
  PROVE  Begins(given, s)
<1>1. PICK cs \in Chunks, x \in Text : s = given \o (x \o FlattenSeq(cs))
  BY DEF Coding
<1> QED BY <1>1, CodingParts, UnitsJoin DEF Begins

\* When all of a transfer has arrived, its last size line is there, and the chunk
\* before it.
LEMMA CodingEnd ==
  ASSUME Uncut, NEW b, NEW len, NEW given, NEW s, Coding(b, <<>>, End, len, given, s)
  PROVE  len <= Len(b) /\ \E i \in DOMAIN b : b[i] \in Eol
<1>1. PICK cs \in Chunks, x \in Text, e \in Ends :
        /\ Len(x) = len
        /\ Holds(b, <<>>, Units(x \o e) \o (Coded(cs) \o End))
  BY DEF Coding
<1>2. PICK y \in Text : y = x \o e /\ Len(x) <= Len(y) /\ Len(y) \in Nat /\ Len(x) \in Nat
  <2>1. e \in Text /\ x \o e \in Text
    BY EndsText, UnitsJoin
  <2>2. Len(x \o e) = Len(x) + Len(e) /\ Len(x) \in Nat /\ Len(e) \in Nat
    BY <2>1, TextAndWire, JoinLen
  <2>3. PICK y \in Text : y = x \o e
    BY <2>1
  <2>4. Len(x) <= Len(y) /\ Len(y) \in Nat /\ Len(x) \in Nat
    BY <2>2, <2>3
  <2> QED BY <2>3, <2>4
<1>3. PICK a \in Wire, p \in Wire, u \in Wire : a = Coded(cs) /\ p = End /\ u = Units(y) /\ FlattenSeq(u) = y
  BY CodedType, PieceWire, WireText
<1>4. PICK f \in Text : f = FlattenSeq(a)
  BY WireText
<1>5. PICK h \in Text, z \in Text : FlattenSeq(p) = h \o (LineEnd \o z)
  <2>1. PICK h : SizeText(h, 0) /\ Hex(0) = Units(h)
    BY HexText DEF Uncut
  <2>2. PICK z \in Text, d \in Wire, l \in Wire : d = Units(z) /\ FlattenSeq(d) = z /\ z = LineEnd \o Following /\ l = SizeLine
    BY UnitsJoin, WireText, LineEndText
  <2>3. PICK v \in Wire : h \in Text /\ v = Units(h) /\ FlattenSeq(v) = h
    BY <2>1, WireText DEF SizeText
  <2>4. PICK q \in Wire : q = l \o d
    BY UnitsJoin
  <2>5. p = v \o q
    BY <1>3, <2>1, <2>2, <2>3, <2>4 DEF End
  <2>6. FlattenSeq(v \o q) = FlattenSeq(v) \o FlattenSeq(q) /\ FlattenSeq(l \o d) = FlattenSeq(l) \o FlattenSeq(d)
    BY WireText
  <2>7. FlattenSeq(p) = h \o (LineEnd \o z)
    BY <2>2, <2>3, <2>4, <2>5, <2>6, LineEndText
  <2> QED BY <2>2, <2>3, <2>7
<1>6. b \in Text /\ b = y \o (f \o (h \o (LineEnd \o z)))
  <2>1. PICK q \in Wire : q = a \o p
    BY UnitsJoin
  <2>2. PICK all \in Wire : all = u \o q
    BY UnitsJoin
  <2>3. FlattenSeq(all) = FlattenSeq(u) \o FlattenSeq(q) /\ FlattenSeq(q) = FlattenSeq(a) \o FlattenSeq(p)
    BY <2>1, <2>2, WireText
  <2>4. Holds(b, <<>>, all) /\ <<>> \in Wire
    BY <1>1, <1>2, <1>3, <2>1, <2>2, UnitsJoin
  <2>5. b \in Text /\ b \o FlattenSeq(<<>>) = FlattenSeq(all)
    BY <2>4, HoldsAll
  <2>6. b \o FlattenSeq(<<>>) = b
    BY <2>5, FlattenEmpty, UnitsJoin
  <2> QED BY <1>3, <1>4, <1>5, <2>3, <2>5, <2>6
<1>7. PICK t \in Text : b = t \o (LineEnd \o z) /\ Len(x) <= Len(t) /\ Len(t) \in Nat
  <2>1. PICK j \in Text : j = LineEnd \o z
    BY UnitsJoin
  <2>2. PICK k \in Text, g \in Text : k = y \o f /\ g = h \o j
    BY UnitsJoin
  <2>3. PICK t \in Text : t = k \o h
    BY UnitsJoin
  <2>4. Regroups(y, f, g) /\ Regroups(k, h, j)
    BY TextRegroups
  <2>5. b = k \o g /\ k \o g = t \o j
    BY <1>6, <2>1, <2>2, <2>3, <2>4 DEF Regroups
  <2>6. Len(k \o h) = Len(k) + Len(h) /\ Len(y \o f) = Len(y) + Len(f) /\ Len(h) \in Nat /\ Len(f) \in Nat /\ Len(k) \in Nat
    BY TextAndWire, JoinLen
  <2>7. Len(x) <= Len(t) /\ Len(t) \in Nat
    BY <1>2, <2>2, <2>3, <2>6
  <2> QED BY <2>1, <2>5, <2>7
<1> DEFINE r == t \o (LineEnd \o z)
<1>8. DOMAIN r = 1 .. Len(r) /\ Len(r) = Len(t) + 2 + Len(z) /\ Len(z) \in Nat /\ r[Len(t) + 1] = "CR"
  BY LineText
<1> HIDE DEF r
<1>9. b = r
  BY <1>7 DEF r
<1>10. Len(t) + 1 \in DOMAIN b /\ b[Len(t) + 1] \in Eol /\ len <= Len(b)
  BY <1>1, <1>2, <1>7, <1>8, <1>9 DEF Eol
<1> QED BY <1>10

\* The line ends behind the last chunk are its own: what follows begins with none.
Behind(b, w) == \E k \in 0 .. 2 : b \o FlattenSeq(w) = Cut(LineEnd, k) \o Following

LEMMA EolsBehind ==
  ASSUME NEW q \in Text, NEW w \in Wire, q \o FlattenSeq(w) = LineEnd \o Following,
         NEW k \in 0 .. Len(q), EolsAt(q, k)
  PROVE  Behind(Cut(q, k), w)
<1>1. PICK f \in Text : f = FlattenSeq(w)
  BY WireText
<1>2. Len(q) \in Nat /\ Len(f) \in Nat /\ Len(Following) \in Nat /\ k \in Nat /\ k <= Len(q)
  BY UnitsJoin, TextAndWire, JoinLen
<1>3. q \in Seq(Char) /\ f \in Seq(Char) /\ Following \in Seq(Char) /\ LineEnd \in Seq(Char)
      /\ Len(LineEnd) = 2
  BY UnitsJoin, LineEndText DEF Text
<1>4. /\ \A i \in 1 .. Len(q) + Len(f) : (q \o f)[i] = IF i <= Len(q) THEN q[i] ELSE f[i - Len(q)]
      /\ Len(q \o f) = Len(q) + Len(f)
      /\ \A i \in 1 .. 2 + Len(Following) :
           (LineEnd \o Following)[i] = IF i <= 2 THEN LineEnd[i] ELSE Following[i - 2]
      /\ Len(LineEnd \o Following) = 2 + Len(Following)
  <2>1. /\ \A i \in 1 .. Len(q) + Len(f) : (q \o f)[i] = IF i <= Len(q) THEN q[i] ELSE f[i - Len(q)]
        /\ Len(q \o f) = Len(q) + Len(f)
    BY <1>3, ConcatProperties
  <2>2. /\ \A i \in 1 .. Len(LineEnd) + Len(Following) :
             (LineEnd \o Following)[i] = IF i <= Len(LineEnd) THEN LineEnd[i] ELSE Following[i - Len(LineEnd)]
        /\ Len(LineEnd \o Following) = Len(LineEnd) + Len(Following)
    BY <1>3, ConcatProperties
  <2> QED BY <1>3, <2>1, <2>2
<1>5. k <= 2
  <2> SUFFICES ASSUME 3 <= k PROVE FALSE
    BY <1>2
  <2>1. 3 \in 1 .. k /\ 3 \in 1 .. Len(q) + Len(f) /\ 3 <= Len(q) /\ Len(Following) # 0 /\ 3 \in 1 .. 2 + Len(Following)
    BY <1>1, <1>2, <1>4
  <2>2. q[3] = Following[1]
    <3>1. (q \o f)[3] = q[3] /\ (LineEnd \o Following)[3] = Following[3 - 2]
      BY <1>4, <2>1
    <3> QED BY <1>1, <3>1
  <2>3. q[3] \in Eol
    BY <2>1 DEF EolsAt
  <2>4. Following # <<>>
    BY <2>1
  <2> QED BY <2>2, <2>3, <2>4, ChunkedTransferAssumption
<1>6. PICK a \in Text, b \in Text : b = Cut(q, k) /\ Len(a) = k /\ q = a \o b
  BY TextAndWire, CutInTwo
<1>7. PICK c \in Text, d \in Text : d = Cut(LineEnd, k) /\ Len(c) = k /\ LineEnd = c \o d
  <2>1. k \in 0 .. Len(LineEnd) /\ LineEnd \in Text
    BY <1>2, <1>3, <1>5, LineEndText
  <2>2. SubSeq(LineEnd, 1, k) \in Text /\ Len(SubSeq(LineEnd, 1, k)) = k /\ Cut(LineEnd, k) \in Text
        /\ SubSeq(LineEnd, 1, k) \o Cut(LineEnd, k) = LineEnd
    BY <2>1, TextAndWire, CutInTwo
  <2> QED BY <2>2
<1>8. PICK u \in Text, v \in Text : u = b \o f /\ v = d \o Following
  BY UnitsJoin
<1>9. Same(a, u, c, v)
  <2>1. Regroups(a, b, f) /\ Regroups(c, d, Following)
    BY UnitsJoin, TextRegroups
  <2> QED BY <1>1, <1>6, <1>7, <1>8, <2>1 DEF Regroups, Same
<1>10. PICK r \in Text : a = c \o r /\ r \o u = v
  <2>1. Rest(Text, a, u, c, v)
    BY <1>2, <1>6, <1>7, <1>9, TextAndWire, LongerFirst
  <2> QED BY <2>1 DEF Rest
<1>11. r = <<>>
  <2>1. Len(c \o r) = Len(c) + Len(r) /\ Len(r) \in Nat /\ (Len(r) = 0 <=> r = <<>>)
    BY TextAndWire, JoinLen
  <2> QED BY <1>2, <1>6, <1>7, <1>10, <2>1
<1>12. u = v
  BY <1>10, <1>11, UnitsJoin
<1>13. k \in 0 .. 2
  BY <1>2, <1>5
<1> QED BY <1>1, <1>6, <1>7, <1>8, <1>12, <1>13 DEF Behind

LEMMA EndIsNotEmpty == ASSUME Uncut PROVE End # <<>>
<1>1. PICK h \in Wire, l \in Wire, u \in Wire : h = Hex(0) /\ l = SizeLine /\ Len(l) = 1 /\ u = Units(LineEnd \o Following)
  <2>1. Hex(0) \in Wire
    BY HexText, WireText DEF Uncut, SizeText
  <2> QED BY <2>1, LineEndText, UnitsJoin, WireText
<1>2. PICK v \in Wire : v = l \o u
  BY UnitsJoin
<1>3. Len(l \o u) = Len(l) + Len(u) /\ Len(h \o v) = Len(h) + Len(v)
      /\ Len(h) \in Nat /\ Len(u) \in Nat
  BY TextAndWire, JoinLen
<1>4. End = h \o v
  BY <1>1, <1>2 DEF End
<1>5. Len(End) # 0
  BY <1>1, <1>2, <1>3, <1>4
<1> QED BY <1>5
-----------------------------------------------------------------------------
(* The invariant of a transfer.                                            *)

Ending == IF closed THEN End ELSE <<>>
Decoding == Coding(buffer, wire, Ending, hexlen, out \o tmp, sent)
NoEol == \A i \in DOMAIN buffer : buffer[i] \notin Eol

\* When the last size line has been read all has been returned.
DecodedAll == ~running /\ hexlen = 0 /\ closed /\ out = sent /\ Behind(buffer, wire)

Transferring ==
  /\ rc = "SUCCESS"
  /\ ~running => tmp = <<>>
  /\ ~zeroed => Decoding
  /\ ~zeroed /\ ~running /\ hexlen = 0 => NoEol
  /\ zeroed => DecodedAll

TransferInv ==
  /\ Inv
  /\ wire \in Wire /\ sent \in Text /\ closed \in BOOLEAN
  /\ fed = 0 => Transferring

LEMMA InitTransfer == ASSUME Uncut, TransferInit PROVE TransferInv
<1>1. Inv
  <2>1. Init
    BY DEF TransferInit
  <2> QED BY <2>1, InitInv
<1>2. wire \in Wire /\ sent \in Text /\ closed \in BOOLEAN
  <2>1. closed \in BOOLEAN
    BY Zenon DEF TransferInit
  <2> QED BY <2>1, UnitsJoin DEF TransferInit
<1>3. Transferring
  <2>1. /\ buffer = <<>> /\ wire = <<>> /\ Ending = <<>> /\ hexlen = 0 /\ out = <<>> /\ tmp = <<>> /\ sent = <<>>
        /\ rc = "SUCCESS" /\ ~zeroed
    BY DEF TransferInit, Init, StreamInit, Ending
  <2>2. <<>> \in Chunks /\ <<>> \in Text /\ <<>> \in Wire /\ Len(<<>>) = 0 /\ <<>> \in Ends /\ <<>> \o <<>> = <<>>
    BY UnitsJoin, CodedEmpty DEF Ends
  <2>3. Units(<<>>) = <<>> /\ Coded(<<>>) = <<>> /\ FlattenSeq(<<>>) = <<>>
    BY CodedEmpty DEF Units
  <2>4. Holds(<<>>, <<>>, <<>>)
    BY <2>2, <2>3 DEF Holds, Wire
  <2>5. Coding(<<>>, <<>>, <<>>, 0, <<>> \o <<>>, <<>>)
    BY <2>2, <2>3, <2>4 DEF Coding
  <2>6. Decoding
    BY <2>1, <2>5 DEF Decoding
  <2>7. NoEol
    BY <2>1 DEF NoEol
  <2> QED BY <2>1, <2>6, <2>7 DEF Transferring
<1> QED BY <1>1, <1>2, <1>3 DEF TransferInv

LEMMA TransferTypes ==
  ASSUME TransferInv
  PROVE  /\ buffer \in Text /\ Len(buffer) \in Nat /\ out \in Text /\ tmp \in Text /\ out \o tmp \in Text
         /\ wire \in Wire /\ sent \in Text /\ Ending \in {<<>>, End}
         /\ hexlen \in Nat /\ DOMAIN buffer = 1 .. Len(buffer)
         /\ ~running /\ hexlen # 0 => Len(buffer) < hexlen
<1>1. /\ buffer \in Text /\ out \in Text /\ tmp \in Text /\ hexlen \in 0 .. ULONG_MAX
      /\ ~running /\ hexlen # 0 => Len(buffer) < hexlen
  BY DEF TransferInv, Inv, TypeOK, HexlenCovers, Text
<1>2. hexlen \in Nat
  BY <1>1, DechunkAssumption
<1>3. Len(buffer) \in Nat /\ DOMAIN buffer = 1 .. Len(buffer)
  BY <1>1, LenProperties DEF Text
<1>4. Ending \in {<<>>, End}
  BY DEF Ending
<1>5. out \o tmp \in Text
  BY <1>1, UnitsJoin
<1> QED BY <1>1, <1>2, <1>3, <1>4, <1>5 DEF TransferInv

\* The filter writes a chunk, or the last one.
LEMMA TransferEncode ==
  ASSUME Uncut, TransferInv, NEW b \in Bucket, Encode(b)
  PROVE  TransferInv'
<1>1. b \in Chunk
  <2>1. b \in Text /\ b # <<>> /\ Len(b) <= ULONG_MAX
    BY ChunkedTransferAssumption DEF Text
  <2>2. Len(b) \in Nat /\ Len(b) # 0
    BY <2>1, TextAndWire, JoinLen
  <2> QED BY <2>1, <2>2, DechunkAssumption DEF Chunk
<1>2. wire' = wire \o Piece(b) /\ sent' = sent \o b /\ ~closed /\ fed = 0
  <2>1. wire' = wire \o Hex(Len(b)) \o SizeCrlf \o Units(b) \o Crlf
    BY DEF Encode
  <2>2. wire \in Wire
    BY TransferTypes
  <2> QED BY <1>1, <2>1, <2>2, WireEncode DEF Encode
<1>3. wire' \in Wire /\ sent' \in Text
  BY <1>1, <1>2, TransferTypes, PieceWire, UnitsJoin
<1>4. UNCHANGED vars /\ closed' = closed
  BY DEF Encode
<1>5. /\ UNCHANGED <<buffer, hexlen, zeroed, flush_full, running, tmp, out, rc, fed>>
  BY <1>4 DEF vars, stream, ctx
<1>6. Inv'
  BY <1>5 DEF TransferInv, Inv, TypeOK, HexlenCovers
<1>7. ~zeroed /\ Decoding /\ Ending = <<>> /\ Ending' = <<>>
  BY <1>2, <1>4 DEF TransferInv, Transferring, DecodedAll, Ending
<1>8. Coding(buffer, wire \o Piece(b), <<>>, hexlen, out \o tmp, sent \o b)
  <2>1. Coding(buffer, wire, <<>>, hexlen, out \o tmp, sent)
    BY <1>7 DEF Decoding
  <2> QED BY <1>1, <2>1, TransferTypes, CodingEncode
<1>9. Decoding'
  BY <1>2, <1>5, <1>7, <1>8 DEF Decoding
<1>10. Transferring'
  BY <1>2, <1>5, <1>7, <1>9 DEF TransferInv, Transferring, NoEol
<1>11. closed' \in BOOLEAN
  BY <1>4 DEF TransferInv
<1> QED BY <1>3, <1>6, <1>10, <1>11 DEF TransferInv

LEMMA TransferClose ==
  ASSUME Uncut, TransferInv, Close
  PROVE  TransferInv'
<1>1. wire' = wire \o End /\ sent' = sent /\ ~closed /\ fed = 0 /\ closed'
  <2>1. wire' = wire \o Hex(0) \o SizeCrlf \o Crlf \o Units(Following)
    BY DEF Close
  <2>2. wire \in Wire
    BY TransferTypes
  <2> QED BY <2>1, <2>2, WireEncode DEF Close
<1>2. wire' \in Wire /\ sent' \in Text
  BY <1>1, TransferTypes, PieceWire, UnitsJoin
<1>3. UNCHANGED vars /\ closed' = TRUE
  BY DEF Close
<1>4. /\ UNCHANGED <<buffer, hexlen, zeroed, flush_full, running, tmp, out, rc, fed>>
  BY <1>3 DEF vars, stream, ctx
<1>5. Inv'
  BY <1>4 DEF TransferInv, Inv, TypeOK, HexlenCovers
<1>6. ~zeroed /\ Decoding /\ Ending = <<>> /\ Ending' = End
  BY <1>1 DEF TransferInv, Transferring, DecodedAll, Ending
<1>7. Coding(buffer, wire \o End, End, hexlen, out \o tmp, sent)
  <2>1. Coding(buffer, wire, <<>>, hexlen, out \o tmp, sent)
    BY <1>6 DEF Decoding
  <2> QED BY <2>1, TransferTypes, CodingClose
<1>8. Decoding'
  BY <1>1, <1>4, <1>6, <1>7 DEF Decoding
<1>9. Transferring'
  BY <1>1, <1>4, <1>6, <1>8 DEF TransferInv, Transferring, NoEol
<1>10. closed' \in BOOLEAN
  BY <1>3, Zenon
<1> QED BY <1>2, <1>5, <1>9, <1>10 DEF TransferInv

\* A piece of the text arrives, or nothing does.
LEMMA TransferUpdate ==
  ASSUME Uncut, TransferInv, NEW data \in Text, ~zeroed, Update(data),
         wire' \in Wire, UNCHANGED <<fed, sent, closed>>,
         fed = 0 => Coding(buffer \o data, wire', Ending, hexlen, out \o tmp, sent)
  PROVE  TransferInv'
<1>1. /\ ~running /\ running' = TRUE /\ buffer' = buffer \o data /\ rc' = rc /\ tmp' = <<>>
      /\ hexlen' = hexlen /\ zeroed' = zeroed /\ flush_full' = flush_full /\ out' = out
      /\ fed' = fed /\ sent' = sent /\ closed' = closed
  BY DEF Update
<1>2. Inv'
  <2>1. buffer' \in Text /\ tmp' \in Text
    BY <1>1, TransferTypes, UnitsJoin
  <2>2. running' \in BOOLEAN
    BY <1>1, Zenon
  <2> QED BY <1>1, <2>1, <2>2 DEF TransferInv, Inv, TypeOK, HexlenCovers, Text
<1>3. ASSUME fed = 0 PROVE Transferring'
  <2>1. tmp = <<>> /\ rc = "SUCCESS"
    BY <1>1, <1>3 DEF TransferInv, Transferring
  <2>2. Ending' = Ending
    BY <1>1 DEF Ending
  <2>3. Coding(buffer', wire', Ending', hexlen', out' \o tmp', sent')
    BY <1>1, <1>3, <2>1, <2>2
  <2>4. Decoding'
    BY <2>3 DEF Decoding
  <2> QED BY <1>1, <2>1, <2>4 DEF Transferring
<1>4. sent' \in Text /\ closed' \in BOOLEAN
  BY <1>1 DEF TransferInv
<1> QED BY <1>1, <1>2, <1>3, <1>4 DEF TransferInv

LEMMA TransferReceive ==
  ASSUME Uncut, TransferInv, NEW n \in DOMAIN wire, Receive(n)
  PROVE  TransferInv'
<1>1. n \in 0 .. Len(wire)
  <2>1. wire \in Seq(Unit)
    BY TransferTypes DEF Wire
  <2> QED BY <2>1, LenProperties
<1> DEFINE data == FlattenSeq(SubSeq(wire, 1, n))
<1>2. Update(data) /\ ~zeroed /\ wire' = Cut(wire, n) /\ UNCHANGED <<fed, sent, closed>>
  BY DEF Receive
<1>3. data \in Text /\ wire' \in Wire
  <2>1. SubSeq(wire, 1, n) \in Wire /\ Cut(wire, n) \in Wire
    BY <1>1, TransferTypes, TextAndWire, CutInTwo
  <2> QED BY <1>2, <2>1, WireText
<1>4. ASSUME fed = 0 PROVE Coding(buffer \o data, wire', Ending, hexlen, out \o tmp, sent)
  <2>1. Coding(buffer, wire, Ending, hexlen, out \o tmp, sent)
    BY <1>2, <1>4 DEF TransferInv, Transferring, Decoding
  <2> QED BY <1>1, <1>2, <2>1, TransferTypes, CodingReceive
<1> HIDE DEF data
<1> QED BY <1>2, <1>3, <1>4, TransferUpdate

LEMMA TransferGarbage ==
  ASSUME Uncut, TransferInv, NEW data \in Input, Garbage(data)
  PROVE  TransferInv'
<1>1. /\ ~closed /\ Feed(data) /\ Update(data) /\ fed' = fed + Len(data)
      /\ sent' = sent /\ closed' = closed /\ wire' = wire
  BY DEF Garbage, Feed
<1>2. data \in Text /\ Len(data) \in Nat /\ (Len(data) = 0 <=> data = <<>>) /\ fed \in Nat
  <2>1. data \in Text
    BY DechunkAssumption DEF Text
  <2> QED BY <2>1, TextAndWire, JoinLen, DechunkAssumption DEF TransferInv, Inv, TypeOK
<1>3. Inv'
  BY <1>1, OtherInv DEF TransferInv
<1>4. ASSUME fed' = 0 PROVE Transferring'
  <2>1. fed = 0 /\ fed' = fed /\ data = <<>>
    BY <1>1, <1>2, <1>4
  <2>2. ~zeroed
    BY <1>1, <2>1 DEF TransferInv, Transferring, DecodedAll
  <2>3. buffer \o data = buffer
    BY <2>1, TransferTypes, UnitsJoin
  <2>4. Coding(buffer \o data, wire', Ending, hexlen, out \o tmp, sent)
    BY <1>1, <2>1, <2>2, <2>3 DEF TransferInv, Transferring, Decoding
  <2>5. wire' \in Wire /\ UNCHANGED <<fed, sent, closed>>
    BY <1>1, <2>1, TransferTypes
  <2>6. TransferInv'
    BY <1>1, <1>2, <2>2, <2>4, <2>5, TransferUpdate
  <2> QED BY <1>4, <2>6 DEF TransferInv
<1>5. wire' \in Wire /\ sent' \in Text /\ closed' \in BOOLEAN
  BY <1>1 DEF TransferInv
<1> QED BY <1>3, <1>4, <1>5 DEF TransferInv

\* The user flushes the stream.
LEMMA TransferFlush ==
  ASSUME Uncut, TransferInv, UserFlush
  PROVE  TransferInv'
<1>1. /\ ~running /\ hexlen # 0 /\ out' = out \o buffer /\ hexlen' = hexlen - Len(buffer) /\ buffer' = <<>>
      /\ zeroed' = zeroed /\ running' = running /\ tmp' = tmp /\ rc' = rc
      /\ fed' = fed /\ sent' = sent /\ closed' = closed /\ wire' = wire
  BY DEF UserFlush, Flush
<1>2. Inv'
  BY OtherInv DEF UserFlush, TransferInv
<1>3. ASSUME fed = 0 PROVE Transferring'
  <2>1. tmp = <<>> /\ rc = "SUCCESS" /\ ~zeroed /\ Coding(buffer, wire, Ending, hexlen, out \o tmp, sent)
    BY <1>1, <1>3 DEF TransferInv, Transferring, Decoding, DecodedAll
  <2>2. out \o tmp = out /\ out' \o tmp' = out \o buffer
    <3>1. buffer \in Text /\ out \in Text /\ out \o buffer \in Text
      BY TransferTypes, UnitsJoin
    <3>2. (out \o buffer) \o <<>> = out \o buffer /\ out \o <<>> = out
      BY <3>1, UnitsJoin
    <3> QED BY <1>1, <2>1, <3>2
  <2>3. Len(buffer) < hexlen /\ hexlen \in Nat /\ Len(buffer) \in Nat
    BY <1>1, TransferTypes
  <2>4. Coding(<<>>, wire, Ending, hexlen - Len(buffer), out \o buffer, sent)
    <3>1. Coding(buffer, wire, Ending, hexlen, out, sent)
      BY <2>1, <2>2
    <3> QED BY <1>1, <2>3, <3>1, TransferTypes, CodingData
  <2>5. Ending' = Ending
    BY <1>1 DEF Ending
  <2>6. Decoding'
    BY <1>1, <2>2, <2>4, <2>5 DEF Decoding
  <2>7. hexlen' # 0
    BY <1>1, <2>3
  <2> QED BY <1>1, <2>1, <2>6, <2>7 DEF Transferring
<1>4. wire' \in Wire /\ sent' \in Text /\ closed' \in BOOLEAN
  BY <1>1 DEF TransferInv
<1> QED BY <1>1, <1>2, <1>3, <1>4 DEF TransferInv

\* What a round finds of a transfer, and what it leaves: the call returns ...
LEMMA TransferRound ==
  ASSUME TransferInv, fed = 0, running
  PROVE  rc = "SUCCESS" /\ ~zeroed /\ Coding(buffer, wire, Ending, hexlen, out \o tmp, sent)
BY DEF TransferInv, Transferring, Decoding, DecodedAll

Others == UNCHANGED <<fed, sent, closed, wire>>

LEMMA TransferReturn ==
  ASSUME TransferInv, fed = 0, running, Return("SUCCESS"), Others, zeroed' = zeroed,
         Coding(buffer', wire, Ending, hexlen', out \o tmp, sent), hexlen' = 0 => NoEol'
  PROVE  Transferring'
<1>1. /\ ~running' /\ rc' = "SUCCESS" /\ out' = out \o tmp /\ tmp' = <<>> /\ ~zeroed'
      /\ wire' = wire /\ sent' = sent /\ closed' = closed
  BY TransferRound DEF Return, Others
<1>2. out' \o tmp' = out \o tmp
  BY <1>1, TransferTypes, UnitsJoin
<1>3. Ending' = Ending
  BY <1>1 DEF Ending
<1>4. Decoding'
  BY <1>1, <1>2, <1>3 DEF Decoding
<1> QED BY <1>1, <1>4 DEF Transferring

\* ... or goes on.
LEMMA TransferContinue ==
  ASSUME TransferInv, fed = 0, running, Continue, Others, zeroed' = zeroed,
         Coding(buffer', wire, Ending, hexlen', out \o tmp', sent)
  PROVE  Transferring'
<1>1. /\ running' /\ rc' = "SUCCESS" /\ out' = out /\ ~zeroed'
      /\ wire' = wire /\ sent' = sent /\ closed' = closed
  BY TransferRound DEF Continue, Others
<1>2. Ending' = Ending
  BY <1>1 DEF Ending
<1>3. Decoding'
  BY <1>1, <1>2 DEF Decoding
<1> QED BY <1>1, <1>3 DEF Transferring

\* The rounds that know a chunk, or have nothing to do.
LEMMA TransferChunk ==
  ASSUME Uncut, TransferInv, fed = 0, Others, BufferEmpty \/ ChunkIncomplete \/ ChunkFlush \/ ChunkComplete
  PROVE  Transferring'
<1>0. /\ buffer \in Text /\ Len(buffer) \in Nat /\ hexlen \in Nat /\ out \in Text /\ tmp \in Text
      /\ wire \in Wire /\ Ending \in {<<>>, End} /\ out \o tmp \in Text /\ running
  BY TransferTypes DEF BufferEmpty, ChunkIncomplete, ChunkFlush, ChunkComplete, Round
<1>1. Coding(buffer, wire, Ending, hexlen, out \o tmp, sent)
  BY <1>0, TransferRound
<1>2. CASE BufferEmpty
  <2>1. /\ Return("SUCCESS") /\ zeroed' = zeroed /\ hexlen' = hexlen /\ buffer' = buffer /\ buffer = <<>>
    BY <1>2 DEF BufferEmpty, ctx
  <2>2. NoEol'
    BY <2>1 DEF NoEol
  <2> QED BY <1>0, <1>1, <2>1, <2>2, TransferReturn
<1>3. CASE ChunkIncomplete
  <2>1. /\ Return("SUCCESS") /\ zeroed' = zeroed /\ hexlen' = hexlen /\ buffer' = buffer /\ hexlen # 0
    BY <1>0, <1>3 DEF ChunkIncomplete, ctx
  <2> QED BY <1>0, <1>1, <2>1, TransferReturn
<1>4. CASE ChunkFlush
  <2>1. /\ Continue /\ zeroed' = zeroed /\ hexlen' = hexlen - Len(buffer) /\ buffer' = <<>>
        /\ tmp' = tmp \o buffer /\ Len(buffer) < hexlen /\ hexlen # 0
    BY <1>0, <1>4 DEF ChunkFlush
  <2>2. Coding(<<>>, wire, Ending, hexlen - Len(buffer), (out \o tmp) \o buffer, sent)
    BY <1>0, <1>1, <2>1, CodingData
  <2>3. (out \o tmp) \o buffer = out \o tmp'
    <3>1. Regroups(out, tmp, buffer)
      BY <1>0, TextRegroups
    <3> QED BY <2>1, <3>1 DEF Regroups
  <2>4. Coding(buffer', wire, Ending, hexlen', out \o tmp', sent)
    BY <2>1, <2>2, <2>3
  <2> QED BY <1>0, <2>1, <2>4, TransferContinue
<1>5. CASE ChunkComplete
  <2>1. /\ Continue /\ zeroed' = zeroed /\ hexlen' = 0 /\ buffer' = Cut(buffer, hexlen)
        /\ tmp' = tmp \o SubSeq(buffer, 1, hexlen) /\ hexlen <= Len(buffer) /\ hexlen # 0
    BY <1>0, <1>5 DEF ChunkComplete
  <2>2. PICK d \in Text : d = SubSeq(buffer, 1, hexlen)
    <3>1. hexlen \in 0 .. Len(buffer)
      BY <1>0, <2>1
    <3> QED BY <1>0, <3>1, TextAndWire, CutInTwo
  <2>3. Coding(Cut(buffer, hexlen), wire, Ending, 0, (out \o tmp) \o d, sent)
    BY <1>0, <1>1, <2>1, <2>2, CodingData
  <2>4. (out \o tmp) \o d = out \o tmp'
    <3>1. Regroups(out, tmp, d)
      BY <1>0, TextRegroups
    <3> QED BY <2>1, <2>2, <3>1 DEF Regroups
  <2>5. Coding(buffer', wire, Ending, hexlen', out \o tmp', sent)
    BY <2>1, <2>3, <2>4
  <2> QED BY <1>0, <2>1, <2>5, TransferContinue
<1> QED BY <1>2, <1>3, <1>4, <1>5

\* The rounds that look for a chunk size, behind n line ends.
LEMMA TransferNoSize ==
  ASSUME Uncut, TransferInv, fed = 0, Others, NEW n \in 0 .. Len(buffer),
         SkipEols(n) \/ SizeIncomplete(n) \/ SizeInvalid(n)
  PROVE  Transferring'
<1>0. /\ buffer \in Text /\ Len(buffer) \in Nat /\ DOMAIN buffer = 1 .. Len(buffer)
      /\ wire \in Wire /\ Ending \in {<<>>, End} /\ out \o tmp \in Text
      /\ running /\ buffer # <<>> /\ hexlen = 0 /\ EolsAt(buffer, n)
  BY TransferTypes DEF SkipEols, SizeIncomplete, SizeInvalid, Round
<1>1. Coding(buffer, wire, Ending, 0, out \o tmp, sent)
  BY <1>0, TransferRound
<1>2. CASE SkipEols(n)
  <2>1. /\ Continue /\ zeroed' = zeroed /\ hexlen' = 0 /\ buffer' = <<>> /\ tmp' = tmp /\ n = Len(buffer)
    BY <1>0, <1>2 DEF SkipEols
  <2>2. Coding(<<>>, wire, Ending, 0, out \o tmp, sent)
    BY <1>0, <1>1, <2>1, CodingStart
  <2> QED BY <1>0, <2>1, <2>2, TransferContinue
<1>3. CASE SizeIncomplete(n)
  <2>1. /\ Return("SUCCESS") /\ zeroed' = zeroed /\ hexlen' = 0 /\ buffer' = Cut(buffer, n) /\ n < Len(buffer)
        /\ \A i \in n + 1 .. Len(buffer) : buffer[i] \notin Eol
    BY <1>0, <1>3 DEF SizeIncomplete
  <2>2. Coding(Cut(buffer, n), wire, Ending, 0, out \o tmp, sent)
    BY <1>0, <1>1, <2>1, CodingRest
  <2>3. NoEol'
    <3>1. /\ DOMAIN Cut(buffer, n) = 1 .. Len(buffer) - n
          /\ \A i \in 1 .. Len(buffer) - n : Cut(buffer, n)[i] = buffer[n + i]
      BY <1>0, <2>1 DEF Cut, Text
    <3>2. \A i \in 1 .. Len(buffer) - n : n + i \in n + 1 .. Len(buffer)
      BY <1>0
    <3> QED BY <2>1, <3>1, <3>2 DEF NoEol
  <2> QED BY <1>0, <2>1, <2>2, <2>3, TransferReturn
<1>4. CASE SizeInvalid(n)
  <2>1. /\ n < Len(buffer) /\ \E i \in n + 1 .. Len(buffer) : buffer[i] \in Eol
        /\ \A size \in Numbers : ~Strtoul(Cut(buffer, n), size)
    BY <1>4 DEF SizeInvalid, Numbers
  <2>2. Reads(buffer, wire, Ending, out \o tmp, sent, n)
    BY <1>0, <1>1, <2>1, CodingSize
  <2> QED BY <2>1, <2>2 DEF Reads
<1> QED BY <1>2, <1>3, <1>4

LEMMA TransferSize ==
  ASSUME Uncut, TransferInv, fed = 0, Others, NEW n \in 0 .. Len(buffer), NEW size \in 0 .. ULONG_MAX,
         SizeRead(n, size)
  PROVE  Transferring'
<1>0. /\ buffer \in Text /\ Len(buffer) \in Nat /\ DOMAIN buffer = 1 .. Len(buffer)
      /\ wire \in Wire /\ Ending \in {<<>>, End} /\ out \o tmp \in Text
      /\ running /\ buffer # <<>> /\ hexlen = 0 /\ EolsAt(buffer, n) /\ n < Len(buffer)
      /\ size \in Numbers
  BY TransferTypes DEF SizeRead, Round, Numbers
<1>1. Coding(buffer, wire, Ending, 0, out \o tmp, sent)
  BY <1>0, TransferRound
<1>2. PICK i \in n + 1 .. Len(buffer) :
        /\ EolAt(Cut(buffer, n), i - n)
        /\ Strtoul(Cut(buffer, n), size)
        /\ Left(size, Cut(buffer, i - 1 + EolLen(buffer, i)), buffer')
  BY DEF SizeRead
<1>3. buffer[i] \in Eol
  <2>1. Cut(buffer, n)[i - n] \in Eol
    BY <1>2 DEF EolAt
  <2>2. Cut(buffer, n)[i - n] = buffer[i]
    <3>1. \A j \in 1 .. Len(buffer) - n : Cut(buffer, n)[j] = buffer[n + j]
      BY <1>0 DEF Cut, Text
    <3>2. i - n \in 1 .. Len(buffer) - n /\ n + (i - n) = i
      BY <1>0
    <3> QED BY <3>1, <3>2
  <2> QED BY <2>1, <2>2
<1>4. Reads(buffer, wire, Ending, out \o tmp, sent, n)
  BY <1>0, <1>1, <1>3, CodingSize
<1>5. PICK q \in Text :
        /\ Cut(buffer, i - 1 + EolLen(buffer, i)) = q
        /\ size # 0 => Coding(q, wire, Ending, size, out \o tmp, sent)
        /\ size = 0 => Ending = End /\ sent = out \o tmp /\ q \o FlattenSeq(wire) = LineEnd \o Following
  BY <1>0, <1>2, <1>4 DEF Reads
<1>6. hexlen' = size
  BY DEF SizeRead, WaitFor
<1>7. CASE size # 0
  <2>1. Continue /\ tmp' = tmp /\ zeroed' = zeroed
    BY <1>7 DEF SizeRead
  <2>2. buffer' = q
    BY <1>2, <1>5, <1>7 DEF Left
  <2>3. Coding(buffer', wire, Ending, hexlen', out \o tmp', sent)
    BY <1>5, <1>6, <1>7, <2>1, <2>2
  <2> QED BY <1>0, <2>1, <2>3, TransferContinue
<1>8. CASE size = 0
  <2>1. Return("SUCCESS") /\ zeroed'
    BY <1>8 DEF SizeRead
  <2>2. /\ ~running' /\ rc' = "SUCCESS" /\ out' = out \o tmp /\ tmp' = <<>>
        /\ wire' = wire /\ sent' = sent /\ closed' = closed
    BY <2>1 DEF Return, Others
  <2>3. closed
    BY <1>5, <1>8, EndIsNotEmpty DEF Ending
  <2>4. PICK k \in 0 .. Len(q) : EolsAt(q, k) /\ buffer' = Cut(q, k)
    BY <1>2, <1>5, <1>8 DEF Left
  <2>5. Behind(buffer', wire')
    BY <1>0, <1>5, <1>8, <2>2, <2>4, EolsBehind
  <2>6. DecodedAll'
    BY <1>5, <1>6, <1>8, <2>2, <2>3, <2>5 DEF DecodedAll
  <2> QED BY <2>1, <2>2, <2>6 DEF Transferring
<1> QED BY <1>7, <1>8

LEMMA TransferDecode ==
  ASSUME Uncut, TransferInv, Decode
  PROVE  TransferInv'
<1>1. Loop /\ Others
  BY DEF Decode, Others
<1>2. Inv'
  BY <1>1, LoopInv DEF Others, TransferInv
<1>3. ASSUME fed = 0 PROVE Transferring'
  BY <1>1, <1>3, TransferChunk, TransferNoSize, TransferSize DEF Loop
<1>4. wire' \in Wire /\ sent' \in Text /\ closed' \in BOOLEAN /\ fed' = fed
  BY <1>1 DEF TransferInv, Others
<1> QED BY <1>2, <1>3, <1>4 DEF TransferInv

LEMMA TransferStep ==
  ASSUME Uncut, TransferInv, [TransferNext]_transfer
  PROVE  TransferInv'
<1>1. CASE UserFinish
  <2>1. Inv' /\ fed' # 0 /\ wire' = wire /\ sent' = sent /\ closed' = closed
    BY <1>1, OtherInv DEF UserFinish, TransferInv
  <2> QED BY <2>1 DEF TransferInv
<1>2. CASE UNCHANGED transfer
  BY <1>2 DEF transfer, vars, stream, ctx, TransferInv, Inv, TypeOK, HexlenCovers,
              Transferring, Decoding, DecodedAll, NoEol, Ending
<1>3. CASE Ended
  <2>1. UNCHANGED transfer
    BY <1>3 DEF Ended
  <2> QED BY <1>2, <2>1
<1> QED BY <1>1, <1>2, <1>3, TransferEncode, TransferClose, TransferReceive, TransferDecode,
           TransferFlush, TransferGarbage DEF TransferNext

\* What the invariant says of a transfer to its user.
LEMMA TransferSent ==
  ASSUME Uncut, TransferInv
  PROVE  DecodedIsSent
<1> SUFFICES ASSUME fed = 0
             PROVE  /\ IsPrefix(out \o tmp, sent)
                    /\ rc = "SUCCESS"
                    /\ zeroed => closed /\ out = sent
                    /\ closed /\ wire = <<>> /\ ~running => zeroed
  BY DEF DecodedIsSent
<1>0. Transferring
  BY DEF TransferInv
<1>1. PICK given \in Text : given = out \o tmp
  BY TransferTypes
<1>2. \E rest \in Text : sent = given \o rest
  <2>1. CASE zeroed
    <3>1. sent = out /\ tmp = <<>>
      BY <1>0, <2>1 DEF Transferring, DecodedAll
    <3>2. out \o <<>> = out /\ out \in Text /\ (out \o <<>>) \o <<>> = out /\ <<>> \in Text
      BY TransferTypes, UnitsJoin
    <3> QED BY <1>1, <3>1, <3>2
  <2>2. CASE ~zeroed
    <3>1. Coding(buffer, wire, Ending, hexlen, given, sent)
      BY <1>0, <1>1, <2>2 DEF Transferring, Decoding
    <3>2. PICK end \in {<<>>, End} : end = Ending /\ Coding(buffer, wire, end, hexlen, given, sent)
      BY <3>1, TransferTypes
    <3>3. wire \in Wire
      BY TransferTypes
    <3>4. Begins(given, sent)
      BY <3>2, <3>3, CodingSent
    <3> QED BY <3>4 DEF Begins
  <2> QED BY <2>1, <2>2
<1>3. IsPrefix(given, sent)
  <2>1. PICK rest \in Text : sent = given \o rest
    BY <1>2
  <2>2. SubSeq(given \o rest, 1, Len(given)) = given
    BY TextAndWire, CutJoin
  <2>3. Len(given \o rest) = Len(given) + Len(rest) /\ Len(given) \in Nat /\ Len(rest) \in Nat
    BY TextAndWire, JoinLen
  <2>4. SubSeq(given, 1, Len(given)) = given
    BY SubSeqFull DEF Text
  <2> QED BY <2>1, <2>2, <2>3, <2>4 DEF IsPrefix
<1>4. rc = "SUCCESS" /\ (zeroed => closed /\ out = sent)
  BY <1>0 DEF Transferring, DecodedAll
<1>5. ASSUME closed, wire = <<>>, ~running, ~zeroed PROVE FALSE
  <2>1. Coding(buffer, <<>>, End, hexlen, out \o tmp, sent)
    BY <1>0, <1>5 DEF Transferring, Decoding, Ending
  <2>2. hexlen <= Len(buffer) /\ \E i \in DOMAIN buffer : buffer[i] \in Eol
    BY <2>1, CodingEnd
  <2>3. hexlen = 0
    BY <1>5, <2>2, TransferTypes
  <2> QED BY <1>0, <1>5, <2>2, <2>3 DEF Transferring, NoEol
<1> QED BY <1>1, <1>3, <1>4, <1>5

LEMMA TransferFollowing ==
  ASSUME Uncut, TransferInv
  PROVE  FollowingKept
<1> SUFFICES ASSUME fed = 0, zeroed
             PROVE  \E n \in 0 .. 2 : LET left == buffer \o FlattenSeq(wire)
                                      IN  Cut(left, n) = Following /\ \A i \in 1 .. n : left[i] \in Eol
  BY DEF FollowingKept
<1>1. PICK k \in 0 .. 2 : buffer \o FlattenSeq(wire) = Cut(LineEnd, k) \o Following
  BY DEF TransferInv, Transferring, DecodedAll, Behind
<1>2. PICK a \in Text, d \in Text : d = Cut(LineEnd, k) /\ Len(a) = k /\ Len(d) = 2 - k /\ LineEnd = a \o d
  <2>1. k \in 0 .. Len(LineEnd) /\ LineEnd \in Text /\ Len(LineEnd) = 2
    BY LineEndText
  <2>2. SubSeq(LineEnd, 1, k) \in Text /\ Len(SubSeq(LineEnd, 1, k)) = k /\ Cut(LineEnd, k) \in Text
        /\ Len(Cut(LineEnd, k)) = Len(LineEnd) - k
        /\ SubSeq(LineEnd, 1, k) \o Cut(LineEnd, k) = LineEnd
    BY <2>1, TextAndWire, CutInTwo
  <2> QED BY <2>1, <2>2
<1>3. Following \in Text /\ a \in Seq(Char) /\ d \in Seq(Char) /\ Following \in Seq(Char)
  BY UnitsJoin DEF Text
<1>4. AllEol(d)
  <2>1. \A i \in 1 .. Len(d) : k + i \in 1 .. Len(a) + Len(d) /\ ~(k + i <= Len(a)) /\ (k + i) - Len(a) = i /\ k + i \in 1 .. 2
    BY <1>2
  <2>2. \A i \in 1 .. Len(a) + Len(d) : (a \o d)[i] = IF i <= Len(a) THEN a[i] ELSE d[i - Len(a)]
    BY <1>3, ConcatProperties
  <2>3. \A i \in 1 .. Len(d) : (a \o d)[k + i] = d[i]
    BY <2>1, <2>2
  <2>4. \A i \in 1 .. 2 : LineEnd[i] \in Eol
    BY LineEndText DEF Eol
  <2>5. \A i \in 1 .. Len(d) : LineEnd[k + i] = d[i]
    BY <1>2, <2>3
  <2> QED BY <2>1, <2>4, <2>5 DEF AllEol
<1>5. Cut(d \o Following, Len(d)) = Following
  BY <1>3, TextAndWire, CutJoin
<1>6. \A i \in 1 .. Len(d) : (d \o Following)[i] = d[i]
  <2>1. \A i \in 1 .. Len(d) + Len(Following) :
          (d \o Following)[i] = IF i <= Len(d) THEN d[i] ELSE Following[i - Len(d)]
    BY <1>3, ConcatProperties
  <2>2. Len(d) \in Nat /\ Len(Following) \in Nat
    BY <1>3, LenProperties
  <2> QED BY <2>1, <2>2
<1>7. Len(d) \in 0 .. 2
  BY <1>2
<1> DEFINE left == buffer \o FlattenSeq(wire)
<1>8. left = d \o Following
  BY <1>1, <1>2
<1> HIDE DEF left
<1>9. Cut(left, Len(d)) = Following /\ \A i \in 1 .. Len(d) : left[i] \in Eol
  BY <1>4, <1>5, <1>6, <1>8 DEF AllEol
<1>10. \E n \in 0 .. 2 : Cut(left, n) = Following /\ \A i \in 1 .. n : left[i] \in Eol
  BY <1>7, <1>9
<1> QED BY <1>10 DEF left
-----------------------------------------------------------------------------
\* TransferInv holds in every reachable state: what is left in the buffer and on
\* the wire is always the rest of what the filter wrote.
THEOREM TransferInvariance ==
  ASSUME Uncut
  PROVE  TransferSpec => []TransferInv
<1>1. TransferInit => TransferInv
  BY InitTransfer
<1>2. TransferInv /\ [TransferNext]_transfer => TransferInv'
  BY TransferStep
<1> QED BY <1>1, <1>2, PTL DEF TransferSpec

\* What dechunk_update and dechunk_flush return is, however the text is cut between
\* characters and line ends and whenever it is flushed, the beginning of what
\* chunked_encode was given, and all of it when done() is true.
THEOREM DecodedAlwaysSent ==
  ASSUME Uncut
  PROVE  TransferSpec => []DecodedIsSent
<1>1. TransferInv => DecodedIsSent
  BY TransferSent
<1> QED BY <1>1, TransferInvariance, PTL

\* dechunk_update swallows the line end of the last chunk and nothing else: what
\* follows is there for the message parser.
THEOREM FollowingAlwaysKept ==
  ASSUME Uncut
  PROVE  TransferSpec => []FollowingKept
<1>1. TransferInv => FollowingKept
  BY TransferFollowing
<1> QED BY <1>1, TransferInvariance, PTL

\* Nor does it wrap in the middle of a transfer.
THEOREM TransferNeverWraps ==
  ASSUME Uncut
  PROVE  TransferSpec => []HexlenCovers
<1>1. TransferInv => HexlenCovers
  BY DEF TransferInv, Inv
<1> QED BY <1>1, TransferInvariance, PTL
=============================================================================
