------------------------- MODULE CurlTransferProofs -------------------------
(***************************************************************************)
(* Proofs about CurlTransfer, for every set of options, requests and       *)
(* responses: what becomes of response bodies, responses and the request   *)
(* body; and that a handle which requeue() has reset and prepared again is *)
(* set as a new one would be.  For this two handlers, one used before and  *)
(* one new, go through the registry side by side; after each option they   *)
(* are alike as far as the settings in a growing set go.                   *)
(***************************************************************************)
EXTENDS CurlTransfer, SeqLemmas, FiniteSetTheorems, SequenceTheorems, TLAPS

-----------------------------------------------------------------------------
(* The responses that user code holds.                                     *)

Holders(s, b) == {i \in DOMAIN s : s[i].body = b}

\* A sequence is one of its own elements.
LEMMA SeqRange ==
  ASSUME NEW S, NEW t \in Seq(S)
  PROVE  t \in Seq(Range(t))
BY DEF Range

\* A response is delivered.
LEMMA SeqAppend ==
  ASSUME NEW s, s \in Seq(Range(s)), NEW x
  PROVE  LET t == Append(s, x)
         IN  /\ t \in Seq(Range(t)) /\ Len(s) \in Nat /\ DOMAIN s = 1 .. Len(s)
             /\ DOMAIN t = 1 .. Len(s) + 1
             /\ t[Len(s) + 1] = x /\ \A i \in 1 .. Len(s) : t[i] = s[i]
<1> DEFINE t == Append(s, x)
           S == Range(s) \cup {x}
<1>1. s \in Seq(S)
  OBVIOUS
<1> HIDE DEF S
<1>2. /\ t \in Seq(S \cup {x}) /\ Len(s) \in Nat /\ DOMAIN s = 1 .. Len(s)
      /\ Len(t) = Len(s) + 1 /\ DOMAIN t = 1 .. Len(s) + 1
      /\ t[Len(s) + 1] = x /\ \A i \in 1 .. Len(s) : t[i] = s[i]
  BY <1>1
<1> HIDE DEF t
<1>3. t \in Seq(Range(t))
  BY <1>2, SeqRange
<1> QED BY <1>2, <1>3 DEF t

\* User code lets go of one.
LEMMA SeqRemove ==
  ASSUME NEW s, s \in Seq(Range(s)), NEW i \in DOMAIN s
  PROVE  LET t == RemoveAt(s, i)
         IN  /\ t \in Seq(Range(t)) /\ Len(s) \in Nat /\ DOMAIN s = 1 .. Len(s)
             /\ DOMAIN t = 1 .. Len(s) - 1
             /\ \A j \in 1 .. Len(s) - 1 : t[j] = IF j < i THEN s[j] ELSE s[j + 1]
<1> DEFINE t == RemoveAt(s, i)
           S == Range(s)
<1>1. s \in Seq(S)
  OBVIOUS
<1> HIDE DEF S
<1>2. Len(s) \in Nat /\ DOMAIN s = 1 .. Len(s) /\ i \in 1 .. Len(s)
  BY <1>1
<1> DEFINE a == SubSeq(s, 1, i - 1)
           b == SubSeq(s, i + 1, Len(s))
<1>3. /\ a \in Seq(S) /\ Len(a) = i - 1
      /\ \A j \in 1 .. i - 1 : a[j] = s[j]
  BY <1>1, <1>2
<1>4. /\ b \in Seq(S) /\ Len(b) = Len(s) - i
      /\ \A j \in 1 .. Len(s) - i : b[j] = s[i + j]
  BY <1>1, <1>2
<1>5. t = a \o b
  BY DEF RemoveAt
<1> HIDE DEF a, b, t
<1>6. /\ t \in Seq(S) /\ Len(t) = Len(s) - 1
      /\ \A j \in 1 .. Len(s) - 1 : t[j] = IF j <= i - 1 THEN a[j] ELSE b[j - (i - 1)]
  <2>1. /\ t \in Seq(S) /\ Len(t) = Len(a) + Len(b)
        /\ \A j \in 1 .. Len(a) + Len(b) : t[j] = IF j <= Len(a) THEN a[j] ELSE b[j - Len(a)]
    BY <1>3, <1>4, <1>5, ConcatProperties
  <2>2. Len(a) = i - 1 /\ Len(a) + Len(b) = Len(s) - 1
    BY <1>2, <1>3, <1>4
  <2> QED BY <2>1, <2>2
<1>7. DOMAIN t = 1 .. Len(s) - 1
  BY <1>6
<1>8. ASSUME NEW j \in 1 .. Len(s) - 1 PROVE t[j] = IF j < i THEN s[j] ELSE s[j + 1]
  <2>1. CASE j < i
    BY <1>2, <1>3, <1>6, <2>1
  <2>2. CASE ~(j < i)
    <3>1. j - (i - 1) \in 1 .. Len(s) - i /\ i + (j - (i - 1)) = j + 1
      BY <1>2, <2>2
    <3>2. t[j] = b[j - (i - 1)]
      BY <1>2, <1>6, <2>2
    <3>3. b[j - (i - 1)] = s[i + (j - (i - 1))]
      BY <1>4, <3>1
    <3> QED BY <2>2, <3>1, <3>2, <3>3
  <2> QED BY <2>1, <2>2
<1>9. t \in Seq(Range(t))
  BY <1>6, SeqRange
<1> QED BY <1>2, <1>7, <1>8, <1>9 DEF t

\* The holders of a body are finitely many.
LEMMA HoldersFinite ==
  ASSUME NEW s, s \in Seq(Range(s)), NEW b
  PROVE  IsFiniteSet(Holders(s, b)) /\ Cardinality(Holders(s, b)) \in Nat
<1>1. DOMAIN s = 1 .. Len(s) /\ Len(s) \in Nat
  OBVIOUS
<1>2. IsFiniteSet(1 .. Len(s)) /\ Holders(s, b) \subseteq 1 .. Len(s)
  BY <1>1, FS_Interval DEF Holders
<1> QED BY <1>2, FS_Subset, FS_CardinalityType

\* One more response holds its body.
LEMMA HoldersAppend ==
  ASSUME NEW s, s \in Seq(Range(s)), NEW x, NEW b
  PROVE  Cardinality(Holders(Append(s, x), b))
           = Cardinality(Holders(s, b)) + (IF x.body = b THEN 1 ELSE 0)
<1> DEFINE t == Append(s, x)
           n == Len(s) + 1
<1>1. /\ Len(s) \in Nat /\ DOMAIN s = 1 .. Len(s) /\ DOMAIN t = 1 .. n
      /\ t[n] = x /\ \A i \in 1 .. Len(s) : t[i] = s[i]
  BY SeqAppend
<1> HIDE DEF t
<1>2. IsFiniteSet(Holders(s, b)) /\ Cardinality(Holders(s, b)) \in Nat
  BY HoldersFinite
<1>3. CASE x.body = b
  <2>1. Holders(t, b) = Holders(s, b) \cup {n} /\ n \notin Holders(s, b)
    BY <1>1, <1>3 DEF Holders
  <2>2. Cardinality(Holders(s, b) \cup {n}) = Cardinality(Holders(s, b)) + 1
    BY <1>2, <2>1, FS_AddElement
  <2>3. Cardinality(Holders(t, b)) = Cardinality(Holders(s, b)) + 1
    BY <2>1, <2>2
  <2> QED BY <1>3, <2>3 DEF t
<1>4. CASE x.body # b
  <2>1. Holders(t, b) = Holders(s, b)
    BY <1>1, <1>4 DEF Holders
  <2> QED BY <1>2, <1>4, <2>1 DEF t
<1> QED BY <1>3, <1>4

\* One response less holds its body.
LEMMA HoldersRemove ==
  ASSUME NEW s, s \in Seq(Range(s)), NEW i \in DOMAIN s, NEW b
  PROVE  Cardinality(Holders(RemoveAt(s, i), b))
           = Cardinality(Holders(s, b)) - (IF s[i].body = b THEN 1 ELSE 0)
<1> DEFINE t == RemoveAt(s, i)
           T == Holders(t, b)
           S == Holders(s, b) \ {i}
           f == [j \in T |-> IF j < i THEN j ELSE j + 1]
<1>1. /\ t \in Seq(Range(t)) /\ Len(s) \in Nat /\ DOMAIN s = 1 .. Len(s)
      /\ DOMAIN t = 1 .. Len(s) - 1
      /\ \A j \in 1 .. Len(s) - 1 : t[j] = IF j < i THEN s[j] ELSE s[j + 1]
  BY SeqRemove
<1> HIDE DEF t
<1>2. IsFiniteSet(T) /\ IsFiniteSet(Holders(s, b)) /\ Cardinality(Holders(s, b)) \in Nat
  BY <1>1, HoldersFinite
<1>3. \A j \in T : f[j] \in S
  BY <1>1 DEF Holders
<1>4. \A j, k \in T : f[j] = f[k] => j = k
  BY <1>1 DEF Holders
<1>5. ASSUME NEW k \in S PROVE \E j \in T : f[j] = k
  <2>1. CASE k < i
    <3>1. k \in T
      BY <1>1, <2>1 DEF Holders
    <3> QED BY <2>1, <3>1
  <2>2. CASE ~(k < i)
    <3>1. k - 1 \in T /\ ~(k - 1 < i) /\ k - 1 + 1 = k
      BY <1>1, <2>2 DEF Holders
    <3> QED BY <3>1
  <2> QED BY <2>1, <2>2
<1>6. f \in Bijection(T, S)
  BY <1>3, <1>4, <1>5 DEF Bijection, Injection, Surjection, IsInjective
<1>7. Cardinality(T) = Cardinality(S)
  BY <1>2, <1>6, FS_Bijection DEF ExistsBijection
<1>8. Cardinality(S) = Cardinality(Holders(s, b)) - (IF s[i].body = b THEN 1 ELSE 0)
  <2>1. CASE s[i].body = b
    <3>1. i \in Holders(s, b)
      BY <2>1 DEF Holders
    <3> QED BY <1>2, <2>1, <3>1, FS_RemoveElement
  <2>2. CASE s[i].body # b
    <3>1. S = Holders(s, b)
      BY <2>2 DEF Holders
    <3> HIDE DEF S
    <3> QED BY <1>2, <2>2, <3>1
  <2> QED BY <2>1, <2>2
<1> QED BY <1>7, <1>8 DEF t

-----------------------------------------------------------------------------
(* The inductive invariant.                                                *)

Block == Interim \cup Final
BodyRecord == [data : Seq(Nat), refs : Nat]
ResponseRecord == [blocks : Seq(Block), errorcode : {"OK", "error"}, body : Body \cup {NoBody}]
WireRecord == [phase : {"idle", "running", "stale", "done"}, blocks : Seq(Block),
               data : Seq(Nat), sent : Nat]

\* The request: a record of which the options and the server know nothing.
RequestShape ==
  /\ request = [url |-> request.url, method |-> request.method, size |-> request.size,
                pos |-> request.pos, hdrs |-> request.hdrs]
  /\ request.size \in Nat /\ request.pos \in 0 .. request.size

TransferTypes ==
  /\ bodies \in [Body -> BodyRecord]
  /\ delivered \in Seq(Range(delivered))
  /\ \A i \in DOMAIN delivered : delivered[i].body \in Body
  /\ response \in ResponseRecord
  /\ q = None <=> response.body = NoBody
  /\ wire \in WireRecord
  /\ calls \in 0 .. MaxCalls

\* Every body in use was made by a call of its own: there is always one more to make.
Used == {b \in Body : bodies[b].refs # 0}
UsedFew == Cardinality(Used) <= calls

\* While a transfer goes on, the handler has what was received, and no response with
\* data in it shares the body that is written to.
InTransfer ==
  Running =>
    /\ bodies[response.body].data = wire.data
    /\ response.blocks = wire.blocks
    /\ response.errorcode = "OK"
    /\ \A i \in DOMAIN delivered :
         delivered[i].body = response.body => delivered[i].got.data = <<>>

\* The body of a response with data is kept; what else a response says never changes.
DataKept ==
  \A i \in DOMAIN delivered :
    delivered[i].got.data # <<>> => bodies[delivered[i].body].data = delivered[i].got.data

Genuine(d) ==
  /\ d.info.curlcode = d.got.result
  /\ d.code = IF d.got.blocks = <<>> THEN 0 ELSE Last(d.got.blocks).code
  /\ d.got.data # <<>> /\ "Content-Range" \notin DOMAIN d.hdrs =>
       d.hdrs["Content-Length"] = Len(d.got.data)

AllGenuine == \A i \in DOMAIN delivered : Genuine(delivered[i])

BodyInv == TransferTypes /\ UsedFew /\ BodyRefsBalanced
ReceivedInv == BodyInv /\ InTransfer /\ DataKept /\ AllGenuine

\* Of the upload: only a request that is queued is sent.
UploadInv ==
  /\ BodyInv /\ RequestShape /\ UploadFromStart
  /\ wire.phase = "running" => q # None

-----------------------------------------------------------------------------
(* Bodies.                                                                 *)

LEMMA NoBodyIsNone == NoBody \notin Body
BY CurlTransferAssumption DEF NoBody, Body

LEMMA BodyFinite == IsFiniteSet(Body) /\ Cardinality(Body) = MaxCalls + 1
BY CurlTransferAssumption, FS_Interval DEF Body

\* Letting go of a body: one reference less, and its data stay unless it was the last.
LEMMA FreeBodyIs ==
  ASSUME NEW bs \in [Body -> BodyRecord], NEW b \in Body, bs[b].refs # 0
  PROVE  LET fs == FreeBody(bs, b)
         IN  /\ fs \in [Body -> BodyRecord]
             /\ \A c \in Body : fs[c].refs = IF c = b THEN bs[c].refs - 1 ELSE bs[c].refs
             /\ \A c \in Body : fs[c].refs # 0 => fs[c].data = bs[c].data
<1> DEFINE fs == FreeBody(bs, b)
           r == IF bs[b].refs = 1 THEN [data |-> <<>>, refs |-> 0]
                ELSE [data |-> bs[b].data, refs |-> bs[b].refs - 1]
<1>1. bs[b] \in BodyRecord
  OBVIOUS
<1>2. r \in BodyRecord /\ r.refs = bs[b].refs - 1 /\ (r.refs # 0 => r.data = bs[b].data)
  BY <1>1 DEF BodyRecord
<1>3. fs[b] = r /\ DOMAIN fs = Body /\ fs = [c \in Body |-> fs[c]]
  BY DEF FreeBody
<1>4. \A c \in Body : c # b => fs[c] = bs[c]
  BY DEF FreeBody
<1> HIDE DEF r, fs
<1>5. fs \in [Body -> BodyRecord]
  BY <1>2, <1>3, <1>4
<1> QED BY <1>2, <1>3, <1>4, <1>5 DEF fs

\* One that is made has its first reference, and no data.
LEMMA FreshIs ==
  ASSUME NEW bs \in [Body -> BodyRecord], NEW b \in Body
  PROVE  LET fs == [bs EXCEPT ![b] = Fresh]
         IN  /\ fs \in [Body -> BodyRecord]
             /\ fs[b].refs = 1 /\ fs[b].data = <<>>
             /\ \A c \in Body : c # b => fs[c] = bs[c]
<1>1. Fresh \in BodyRecord /\ Fresh.refs = 1 /\ Fresh.data = <<>>
  BY DEF Fresh, BodyRecord
<1> QED BY <1>1

\* The bodies in use are finitely many, and one is free as long as a call is left.
LEMMA NewBodyIsFree ==
  ASSUME TransferTypes, UsedFew
  PROVE  /\ NewBody \in Body /\ bodies[NewBody].refs = 0
         /\ IsFiniteSet(Used) /\ Cardinality(Used) \in Nat
<1>1. IsFiniteSet(Used) /\ Cardinality(Used) \in Nat
  <2>1. Used \subseteq Body
    BY DEF Used
  <2> QED BY <2>1, BodyFinite, FS_Subset, FS_CardinalityType
<1>2. Cardinality(Used) < Cardinality(Body)
  BY <1>1, BodyFinite, CurlTransferAssumption DEF UsedFew, TransferTypes
<1>3. Used # Body
  BY <1>1, <1>2
<1>4. PICK b \in Body : bodies[b].refs = 0
  BY <1>3 DEF Used
<1>5. NewBody \in Free
  BY <1>4 DEF NewBody, Free
<1> QED BY <1>1, <1>5 DEF Free

\* A call that makes at most one body leaves enough for the calls to come.
LEMMA UsedGrows ==
  ASSUME TransferTypes, UsedFew, Call, NEW n \in Body,
         \A b \in Body : bodies'[b].refs # 0 => bodies[b].refs # 0 \/ b = n
  PROVE  UsedFew'
<1>1. IsFiniteSet(Used) /\ Cardinality(Used) \in Nat
  BY NewBodyIsFree
<1>2. Used' \subseteq Used \cup {n}
  BY DEF Used
<1>3. /\ IsFiniteSet(Used \cup {n})
      /\ Cardinality(Used \cup {n}) \in Nat /\ Cardinality(Used \cup {n}) <= Cardinality(Used) + 1
  <2>1. CASE n \in Used
    <3>1. Used \cup {n} = Used
      BY <2>1
    <3>2. Cardinality(Used) <= Cardinality(Used) + 1
      BY <1>1
    <3> QED BY <1>1, <3>1, <3>2
  <2>2. CASE n \notin Used
    <3>1. /\ IsFiniteSet(Used \cup {n})
          /\ Cardinality(Used \cup {n}) = Cardinality(Used) + 1
      BY <1>1, <2>2, FS_AddElement
    <3>2. Cardinality(Used) + 1 \in Nat /\ Cardinality(Used) + 1 <= Cardinality(Used) + 1
      BY <1>1
    <3> QED BY <3>1, <3>2
  <2> QED BY <2>1, <2>2
<1>4. Cardinality(Used') <= Cardinality(Used \cup {n}) /\ Cardinality(Used') \in Nat
  BY <1>2, <1>3, FS_Subset, FS_CardinalityType
<1>5. calls' = calls + 1 /\ Cardinality(Used) <= calls /\ calls \in Nat
  BY DEF Call, UsedFew, TransferTypes
<1>6. Cardinality(Used') <= calls'
  BY <1>1, <1>3, <1>4, <1>5
<1> QED BY <1>6 DEF UsedFew

\* A step that makes none.
LEMMA UsedKept ==
  ASSUME TransferTypes, UsedFew, calls' \in Nat, calls <= calls',
         \A b \in Body : bodies'[b].refs # 0 => bodies[b].refs # 0
  PROVE  UsedFew'
<1>1. IsFiniteSet(Used) /\ Cardinality(Used) \in Nat
  BY NewBodyIsFree
<1>2. Used' \subseteq Used
  BY DEF Used
<1>3. Cardinality(Used') <= Cardinality(Used) /\ Cardinality(Used') \in Nat
  BY <1>1, <1>2, FS_Subset, FS_CardinalityType
<1>4. Cardinality(Used) <= calls /\ calls \in Nat
  BY DEF UsedFew, TransferTypes
<1>5. Cardinality(Used') <= calls'
  BY <1>1, <1>3, <1>4
<1> QED BY <1>5 DEF UsedFew

\* Who holds a body keeps it alive; if handler and response hold it, it has two.
LEMMA HeldIsAlive ==
  ASSUME TransferTypes, BodyRefsBalanced
  PROVE  /\ \A i \in DOMAIN delivered : bodies[delivered[i].body].refs # 0
         /\ response.body # NoBody =>
              response.body \in Body /\ bodies[response.body].refs # 0
<1>1. ASSUME NEW b \in Body PROVE
        /\ Cardinality(Holders(delivered, b)) \in Nat /\ IsFiniteSet(Holders(delivered, b))
        /\ bodies[b].refs = Cardinality(Holders(delivered, b)) + (IF response.body = b THEN 1 ELSE 0)
  <2>1. delivered \in Seq(Range(delivered))
    BY DEF TransferTypes
  <2>2. Cardinality(Holders(delivered, b)) \in Nat /\ IsFiniteSet(Holders(delivered, b))
    BY <2>1, HoldersFinite
  <2> QED BY <2>2 DEF BodyRefsBalanced, Holders
<1>2. ASSUME NEW i \in DOMAIN delivered PROVE bodies[delivered[i].body].refs # 0
  <2> DEFINE b == delivered[i].body
  <2>1. b \in Body
    BY DEF TransferTypes
  <2>2. i \in Holders(delivered, b)
    BY DEF Holders
  <2> HIDE DEF b
  <2>3. Cardinality(Holders(delivered, b)) # 0
    BY <1>1, <2>1, <2>2, FS_EmptySet
  <2>4. bodies[b].refs # 0
    BY <1>1, <2>1, <2>3
  <2> QED BY <2>4 DEF b
<1>3. ASSUME response.body # NoBody PROVE response.body \in Body /\ bodies[response.body].refs # 0
  <2>1. response.body \in Body
    BY <1>3 DEF TransferTypes, ResponseRecord
  <2> QED BY <1>1, <2>1
<1> QED BY <1>2, <1>3

\* A body that is not in use is nobody's.
LEMMA FreeIsUnheld ==
  ASSUME TransferTypes, BodyRefsBalanced, NEW b \in Body, bodies[b].refs = 0
  PROVE  /\ \A i \in DOMAIN delivered : delivered[i].body # b
         /\ response.body # b
         /\ Cardinality(Holders(delivered, b)) = 0
<1>1. \A i \in DOMAIN delivered : delivered[i].body # b
  BY HeldIsAlive
<1>2. response.body # b
  BY HeldIsAlive, NoBodyIsNone
<1>3. Holders(delivered, b) = {}
  BY <1>1 DEF Holders
<1> QED BY <1>1, <1>2, <1>3, FS_EmptySet

\* The balance, with the name for the holders.
LEMMA Balance ==
  ASSUME TransferTypes, BodyRefsBalanced, NEW b \in Body
  PROVE  /\ Cardinality(Holders(delivered, b)) \in Nat
         /\ bodies[b].refs \in Nat
         /\ bodies[b].refs = Cardinality(Holders(delivered, b)) + (IF response.body = b THEN 1 ELSE 0)
<1>1. delivered \in Seq(Range(delivered)) /\ bodies \in [Body -> BodyRecord]
  BY DEF TransferTypes
<1>2. Cardinality(Holders(delivered, b)) \in Nat
  BY <1>1, HoldersFinite
<1>3. bodies[b].refs \in Nat
  BY <1>1 DEF BodyRecord
<1> QED BY <1>2, <1>3 DEF BodyRefsBalanced, Holders

\* A new body for the handler, maybe in place of one that it lets go.
LEMMA MadeForHandler ==
  ASSUME BodyInv, NEW bs \in [Body -> BodyRecord],
         bodies' = [bs EXCEPT ![NewBody] = Fresh],
         response' = NoResponse(NewBody), delivered' = delivered,
         \A b \in Body : bs[b].refs = bodies[b].refs - (IF response.body = b THEN 1 ELSE 0),
         \A b \in Body : bs[b].refs # 0 => bs[b].data = bodies[b].data
  PROVE  /\ bodies' \in [Body -> BodyRecord]
         /\ bodies'[NewBody].data = <<>>
         /\ BodyRefsBalanced'
         /\ \A b \in Body : bodies'[b].refs # 0 => bodies[b].refs # 0 \/ b = NewBody
         /\ \A i \in DOMAIN delivered :
              bodies'[delivered[i].body].data = bodies[delivered[i].body].data
<1>1. NewBody \in Body /\ bodies[NewBody].refs = 0
  BY NewBodyIsFree DEF BodyInv
<1>2. /\ \A i \in DOMAIN delivered : delivered[i].body # NewBody
      /\ response.body # NewBody
      /\ Cardinality(Holders(delivered, NewBody)) = 0
  BY <1>1, FreeIsUnheld DEF BodyInv
<1>3. /\ bodies' \in [Body -> BodyRecord]
      /\ bodies'[NewBody].refs = 1 /\ bodies'[NewBody].data = <<>>
      /\ \A c \in Body : c # NewBody => bodies'[c] = bs[c]
  BY <1>1, FreshIs
<1>4. response'.body = NewBody
  BY DEF NoResponse
<1>5. ASSUME NEW b \in Body PROVE
        bodies'[b].refs = Cardinality(Holders(delivered, b)) + (IF response'.body = b THEN 1 ELSE 0)
  <2>1. CASE b = NewBody
    BY <1>2, <1>3, <1>4, <2>1
  <2>2. CASE b # NewBody
    BY <1>3, <1>4, <2>2, Balance DEF BodyInv
  <2> QED BY <2>1, <2>2
<1>6. BodyRefsBalanced'
  BY <1>5 DEF BodyRefsBalanced, Holders
<1>7. ASSUME NEW b \in Body, bodies'[b].refs # 0, b # NewBody PROVE bodies[b].refs # 0
  <2>1. bs[b].refs # 0 /\ bs[b].refs \in Nat
    BY <1>3, <1>7 DEF BodyRecord
  <2> QED BY <2>1, Balance DEF BodyInv
<1>8. ASSUME NEW i \in DOMAIN delivered
      PROVE  bodies'[delivered[i].body].data = bodies[delivered[i].body].data
  <2> DEFINE b == delivered[i].body
  <2>1. b \in Body /\ b # NewBody
    BY <1>2 DEF BodyInv, TransferTypes
  <2>2. Cardinality(Holders(delivered, b)) # 0 /\ Cardinality(Holders(delivered, b)) \in Nat
    <3>1. i \in Holders(delivered, b)
      BY DEF Holders
    <3>2. IsFiniteSet(Holders(delivered, b))
      BY HoldersFinite DEF BodyInv, TransferTypes
    <3> HIDE DEF b
    <3> QED BY <2>1, <3>1, <3>2, FS_EmptySet, FS_CardinalityType
  <2> HIDE DEF b
  <2>3. bs[b].refs # 0
    BY <2>1, <2>2, Balance DEF BodyInv
  <2>4. bodies'[b].data = bodies[b].data
    BY <1>3, <2>1, <2>3
  <2> QED BY <2>4 DEF b
<1> QED BY <1>3, <1>6, <1>7, <1>8

\* handler_reset() leaves the handler with an empty body that no response's data are in.
LEMMA ResetBodies ==
  ASSUME BodyInv, q # None, ResetResponse, delivered' = delivered
  PROVE  /\ bodies' \in [Body -> BodyRecord]
         /\ response'.body \in Body /\ response' = NoResponse(response'.body)
         /\ bodies'[response'.body].data = <<>>
         /\ BodyRefsBalanced'
         /\ \A b \in Body : bodies'[b].refs # 0 => bodies[b].refs # 0 \/ b = NewBody
         /\ \A i \in DOMAIN delivered :
              bodies'[delivered[i].body].data = bodies[delivered[i].body].data
<1>1. bodies \in [Body -> BodyRecord] /\ response.body # NoBody
  BY DEF BodyInv, TransferTypes
<1>2. response.body \in Body /\ bodies[response.body].refs # 0
  BY <1>1, HeldIsAlive DEF BodyInv
<1>3. NewBody \in Body
  BY NewBodyIsFree DEF BodyInv
<1>4. CASE Renewed(response.body)
  <2> DEFINE bs == FreeBody(bodies, response.body)
  <2>1. /\ bs \in [Body -> BodyRecord]
        /\ \A c \in Body : bs[c].refs = IF c = response.body THEN bodies[c].refs - 1
                                        ELSE bodies[c].refs
        /\ \A c \in Body : bs[c].refs # 0 => bs[c].data = bodies[c].data
    BY <1>1, <1>2, FreeBodyIs
  <2>2. bodies' = [bs EXCEPT ![NewBody] = Fresh] /\ response' = NoResponse(NewBody)
    BY <1>4 DEF ResetResponse
  <2> HIDE DEF bs
  <2>3. \A b \in Body : bs[b].refs = bodies[b].refs - (IF response.body = b THEN 1 ELSE 0)
    BY <1>1, <2>1 DEF BodyRecord
  <2>4. response'.body = NewBody
    BY <2>2 DEF NoResponse
  <2> QED BY <1>3, <2>1, <2>2, <2>3, <2>4, MadeForHandler
<1>5. CASE ~Renewed(response.body)
  <2>1. bodies' = bodies /\ response' = NoResponse(response.body)
    BY <1>5 DEF ResetResponse
  <2>2. response'.body = response.body
    BY <2>1 DEF NoResponse
  <2>3. bodies[response.body].data = <<>>
    BY <1>5 DEF Renewed
  <2>4. BodyRefsBalanced'
    BY <2>1, <2>2 DEF BodyInv, BodyRefsBalanced
  <2> QED BY <1>1, <1>2, <2>1, <2>2, <2>3, <2>4
<1> QED BY <1>4, <1>5

\* enqueue() makes a handler with a body of its own, or changes nothing of this.
LEMMA EnqueueBodies ==
  ASSUME BodyInv, enqueue
  PROVE  \/ UNCHANGED <<q, response, bodies, wire, delivered>>
         \/ /\ q' # None /\ wire' = Started /\ delivered' = delivered
            /\ bodies' \in [Body -> BodyRecord]
            /\ response'.body \in Body /\ response' = NoResponse(response'.body)
            /\ bodies'[response'.body].data = <<>>
            /\ BodyRefsBalanced'
            /\ \A b \in Body : bodies'[b].refs # 0 => bodies[b].refs # 0 \/ b = NewBody
            /\ \A i \in DOMAIN delivered :
                 bodies'[delivered[i].body].data = bodies[delivered[i].body].data
<1>1. delivered' = delivered /\ q = None
  BY DEF enqueue
<1>2. \/ UNCHANGED <<q, response, bodies, wire>>
      \/ /\ q' # None /\ response' = NoResponse(NewBody)
         /\ bodies' = [bodies EXCEPT ![NewBody] = Fresh] /\ wire' = Started
  <2> DEFINE o == combined_options(copts, ropts)
             Entry(h) == [options |-> o, h |-> handler_prepare(h, o, request),
                          msg |-> request, ready |-> TRUE]
  <2>1. PICK h : IF Prepares(h, o, request)
                 THEN /\ q' = <<Entry(h)>>
                      /\ response' = NoResponse(NewBody)
                      /\ bodies' = [bodies EXCEPT ![NewBody] = Fresh]
                      /\ wire' = Started
                 ELSE UNCHANGED <<q, response, bodies, wire>>
    BY DEF enqueue
  <2> HIDE DEF Entry, o
  <2>2. \A x : <<x>> # None
    BY DEF None
  <2> QED BY <2>1, <2>2
<1>3. ASSUME q' # None, response' = NoResponse(NewBody),
             bodies' = [bodies EXCEPT ![NewBody] = Fresh], wire' = Started
      PROVE  /\ bodies' \in [Body -> BodyRecord]
             /\ response'.body \in Body /\ response' = NoResponse(response'.body)
             /\ bodies'[response'.body].data = <<>>
             /\ BodyRefsBalanced'
             /\ \A b \in Body : bodies'[b].refs # 0 => bodies[b].refs # 0 \/ b = NewBody
             /\ \A i \in DOMAIN delivered :
                  bodies'[delivered[i].body].data = bodies[delivered[i].body].data
  <2>1. bodies \in [Body -> BodyRecord] /\ response.body \notin Body
    BY <1>1, NoBodyIsNone DEF BodyInv, TransferTypes
  <2>2. \A b \in Body : bodies[b].refs = bodies[b].refs - (IF response.body = b THEN 1 ELSE 0)
    BY <2>1 DEF BodyRecord
  <2>3. response'.body = NewBody /\ NewBody \in Body
    BY <1>3, NewBodyIsFree DEF NoResponse, BodyInv
  <2> QED BY <1>1, <1>3, <2>1, <2>2, <2>3, MadeForHandler
<1> QED BY <1>1, <1>2, <1>3

\* dequeue() lets go of the handler's body.
LEMMA DequeueBodies ==
  ASSUME BodyInv, dequeue
  PROVE  /\ bodies' \in [Body -> BodyRecord]
         /\ BodyRefsBalanced'
         /\ \A b \in Body : bodies'[b].refs # 0 =>
              bodies[b].refs # 0 /\ bodies'[b].data = bodies[b].data
<1>1. bodies \in [Body -> BodyRecord] /\ response.body # NoBody /\ delivered' = delivered
  BY DEF BodyInv, TransferTypes, dequeue
<1>2. response.body \in Body /\ bodies[response.body].refs # 0
  BY <1>1, HeldIsAlive DEF BodyInv
<1>3. bodies' = FreeBody(bodies, response.body) /\ response'.body = NoBody
  BY DEF dequeue, NoResponse
<1>4. /\ bodies' \in [Body -> BodyRecord]
      /\ \A c \in Body : bodies'[c].refs = IF c = response.body THEN bodies[c].refs - 1
                                           ELSE bodies[c].refs
      /\ \A c \in Body : bodies'[c].refs # 0 => bodies'[c].data = bodies[c].data
  BY <1>1, <1>2, <1>3, FreeBodyIs
<1>5. ASSUME NEW b \in Body PROVE
        bodies'[b].refs = Cardinality(Holders(delivered, b)) + (IF response'.body = b THEN 1 ELSE 0)
  BY <1>3, <1>4, Balance, NoBodyIsNone DEF BodyInv
<1>6. BodyRefsBalanced'
  BY <1>1, <1>5 DEF BodyRefsBalanced, Holders
<1>7. ASSUME NEW b \in Body, bodies'[b].refs # 0 PROVE bodies[b].refs # 0
  BY <1>2, <1>4, <1>7
<1> QED BY <1>4, <1>6, <1>7

\* Release() lets go of a response's body.
LEMMA ReleaseBodies ==
  ASSUME BodyInv, NEW i \in DOMAIN delivered, Release(i)
  PROVE  /\ bodies' \in [Body -> BodyRecord]
         /\ delivered' \in Seq(Range(delivered'))
         /\ BodyRefsBalanced'
         /\ \A j \in DOMAIN delivered' : \E k \in DOMAIN delivered : delivered'[j] = delivered[k]
         /\ \A b \in Body : bodies'[b].refs # 0 =>
              bodies[b].refs # 0 /\ bodies'[b].data = bodies[b].data
<1>1. bodies \in [Body -> BodyRecord] /\ delivered \in Seq(Range(delivered))
  BY DEF BodyInv, TransferTypes
<1>2. delivered[i].body \in Body /\ bodies[delivered[i].body].refs # 0
  BY HeldIsAlive DEF BodyInv, TransferTypes
<1>3. /\ delivered' = RemoveAt(delivered, i) /\ response' = response
      /\ bodies' = FreeBody(bodies, delivered[i].body)
  BY DEF Release
<1>4. /\ bodies' \in [Body -> BodyRecord]
      /\ \A c \in Body : bodies'[c].refs = IF c = delivered[i].body THEN bodies[c].refs - 1
                                           ELSE bodies[c].refs
      /\ \A c \in Body : bodies'[c].refs # 0 => bodies'[c].data = bodies[c].data
  BY <1>1, <1>2, <1>3, FreeBodyIs
<1>5. /\ delivered' \in Seq(Range(delivered')) /\ Len(delivered) \in Nat
      /\ DOMAIN delivered = 1 .. Len(delivered)
      /\ DOMAIN delivered' = 1 .. Len(delivered) - 1
      /\ \A j \in 1 .. Len(delivered) - 1 :
           delivered'[j] = IF j < i THEN delivered[j] ELSE delivered[j + 1]
  BY <1>1, <1>3, SeqRemove
<1>6. ASSUME NEW j \in DOMAIN delivered' PROVE
        \E k \in DOMAIN delivered : delivered'[j] = delivered[k]
  <2>1. j \in DOMAIN delivered /\ j + 1 \in DOMAIN delivered /\ j \in 1 .. Len(delivered) - 1
    BY <1>5
  <2>2. delivered'[j] = delivered[j] \/ delivered'[j] = delivered[j + 1]
    BY <1>5, <2>1
  <2> QED BY <2>1, <2>2
<1>7. ASSUME NEW b \in Body PROVE
        bodies'[b].refs = Cardinality(Holders(delivered', b)) + (IF response'.body = b THEN 1 ELSE 0)
  <2>1. Cardinality(Holders(delivered', b))
          = Cardinality(Holders(delivered, b)) - (IF delivered[i].body = b THEN 1 ELSE 0)
    BY <1>1, <1>3, HoldersRemove
  <2> QED BY <1>3, <1>4, <2>1, Balance DEF BodyInv
<1>8. BodyRefsBalanced'
  BY <1>7 DEF BodyRefsBalanced, Holders
<1>9. ASSUME NEW b \in Body, bodies'[b].refs # 0 PROVE bodies[b].refs # 0
  BY <1>2, <1>4, <1>9
<1> QED BY <1>4, <1>5, <1>6, <1>8, <1>9

\* body_callback: the data of one body grow.
LEMMA ReceiveBodies ==
  ASSUME BodyInv, body_callback
  PROVE  /\ response.body \in Body
         /\ bodies' \in [Body -> BodyRecord]
         /\ BodyRefsBalanced'
         /\ \A b \in Body : bodies'[b].refs = bodies[b].refs
         /\ \A b \in Body : b # response.body => bodies'[b] = bodies[b]
         /\ bodies'[response.body].data = Append(bodies[response.body].data, Len(wire.data) + 1)
<1>1. bodies \in [Body -> BodyRecord] /\ response.body # NoBody /\ Len(wire.data) + 1 \in Nat
  BY DEF BodyInv, TransferTypes, body_callback, Running
<1>2. response.body \in Body
  BY <1>1, HeldIsAlive DEF BodyInv
<1>3. /\ bodies' = [bodies EXCEPT ![response.body].data = Append(@, Len(wire.data) + 1)]
      /\ response' = response /\ delivered' = delivered
  BY DEF body_callback
<1>4. bodies[response.body] \in BodyRecord
  BY <1>1, <1>2
<1> DEFINE d == Append(bodies[response.body].data, Len(wire.data) + 1)
           r == [bodies[response.body] EXCEPT !.data = d]
<1>5. d \in Seq(Nat)
  BY <1>1, <1>4 DEF BodyRecord
<1> HIDE DEF d
<1>6. r \in BodyRecord /\ r.refs = bodies[response.body].refs /\ r.data = d
  BY <1>4, <1>5 DEF BodyRecord
<1>7. bodies' = [bodies EXCEPT ![response.body] = r]
  BY <1>1, <1>2, <1>3 DEF d
<1> HIDE DEF r
<1>8. /\ bodies' \in [Body -> BodyRecord] /\ bodies'[response.body] = r
      /\ \A b \in Body : b # response.body => bodies'[b] = bodies[b]
  BY <1>1, <1>2, <1>6, <1>7
<1>9. \A b \in Body : bodies'[b].refs = bodies[b].refs
  BY <1>6, <1>8
<1>10. BodyRefsBalanced'
  BY <1>3, <1>9 DEF BodyInv, BodyRefsBalanced
<1> QED BY <1>2, <1>6, <1>8, <1>9, <1>10 DEF d

-----------------------------------------------------------------------------
(* Messages.                                                               *)

\* update_headers() changes the headers only; a body with data gets its length, unless
\* it is a part of something larger.
LEMMA UpdatedHeaders ==
  ASSUME NEW msg, msg.size \in Nat,
         msg = [url |-> msg.url, method |-> msg.method, size |-> msg.size,
                pos |-> msg.pos, hdrs |-> msg.hdrs]
  PROVE  LET x == update_headers(msg)
         IN  /\ x = [url |-> msg.url, method |-> msg.method, size |-> msg.size,
                     pos |-> msg.pos, hdrs |-> x.hdrs]
             /\ msg.size > 0 /\ "Content-Range" \notin DOMAIN x.hdrs =>
                  x.hdrs["Content-Length"] = msg.size
<1> DEFINE x == update_headers(msg)
           w == Over([k \in {"Content-Length"} |-> msg.size], msg.hdrs)
<1>1. x = [url |-> msg.url, method |-> msg.method, size |-> msg.size,
           pos |-> msg.pos, hdrs |-> x.hdrs]
  BY DEF update_headers
<1>2. ASSUME msg.size > 0, "Content-Range" \notin DOMAIN x.hdrs
      PROVE  x.hdrs["Content-Length"] = msg.size
  <2>1. CASE "Content-Range" \in DOMAIN msg.hdrs
    <3>1. x.hdrs = msg.hdrs
      BY <2>1 DEF update_headers
    <3> QED BY <1>2, <2>1, <3>1
  <2>2. CASE "Content-Range" \notin DOMAIN msg.hdrs
    <3>1. x.hdrs = w
      BY <1>2, <2>2 DEF update_headers
    <3>2. w["Content-Length"] = msg.size
      BY DEF Over
    <3> QED BY <3>1, <3>2
  <2> QED BY <2>1, <2>2
<1> QED BY <1>1, <1>2

\* The response parser: body of the handler, status of the last block, length of the data.
LEMMA Parsed ==
  ASSUME TransferTypes, response.body \in Body
  PROVE  LET d == responseparser
             n == Len(bodies[response.body].data)
         IN  /\ d.body = response.body
             /\ d.code = IF response.blocks = <<>> THEN 0 ELSE Last(response.blocks).code
             /\ bodies[response.body].data # <<>> /\ "Content-Range" \notin DOMAIN d.hdrs =>
                  d.hdrs["Content-Length"] = n
<1> DEFINE n == Len(bodies[response.body].data)
           msgs == Messages
           m == BodyMoved(msgs)
           x == [hdrs |-> Renamed(m.hdrs), size |-> n, method |-> "", url |-> "", pos |-> 0]
           u == update_headers(x)
           d == responseparser
<1>1. response.blocks \in Seq(Block) /\ bodies[response.body].data \in Seq(Nat)
  BY DEF TransferTypes, ResponseRecord, BodyRecord
<1>2. /\ m = [code |-> m.code, hdrs |-> m.hdrs, body |-> m.body]
      /\ m.body = response.body
      /\ m.code = IF response.blocks = <<>> THEN 0 ELSE Last(response.blocks).code
  <2>1. CASE response.blocks = <<>>
    <3>1. msgs = << [code |-> 0, hdrs |-> Empty, body |-> response.body] >>
      BY <2>1 DEF Messages
    <3>2. Last(msgs) = [code |-> 0, hdrs |-> Empty, body |-> response.body]
          /\ msgs[1] = [code |-> 0, hdrs |-> Empty, body |-> response.body]
      BY <3>1 DEF Last
    <3> HIDE DEF msgs
    <3> QED BY <2>1, <3>2 DEF BodyMoved
  <2>2. CASE response.blocks # <<>>
    <3> DEFINE M(i) == [code |-> response.blocks[i].code, hdrs |-> response.blocks[i].hdrs,
                        body |-> IF i = 1 THEN response.body ELSE NoBody]
               l == Len(response.blocks)
    <3>1. l \in Nat \ {0} /\ DOMAIN response.blocks = 1 .. l
      BY <1>1, <2>2
    <3>2. msgs = [i \in 1 .. l |-> M(i)]
      BY <2>2, <3>1 DEF Messages
    <3> HIDE DEF M, msgs, l
    <3>3. Len(msgs) = l /\ msgs[l] = M(l) /\ msgs[1] = M(1)
      BY <3>1, <3>2
    <3>4. Last(msgs) = M(l) /\ Last(response.blocks) = response.blocks[l]
      BY <3>3 DEF Last, l
    <3>5. m = [code |-> response.blocks[l].code, hdrs |-> response.blocks[l].hdrs,
               body |-> response.body]
      BY <3>3, <3>4 DEF BodyMoved, M
    <3> HIDE DEF m
    <3> QED BY <2>2, <3>4, <3>5
  <2> QED BY <2>1, <2>2
<1>3. d = [m EXCEPT !.hdrs = u.hdrs]
  BY DEF responseparser
<1>4. n \in Nat /\ (bodies[response.body].data # <<>> => n > 0)
  BY <1>1
<1> HIDE DEF m, d, n
<1>5. n > 0 /\ "Content-Range" \notin DOMAIN u.hdrs => u.hdrs["Content-Length"] = n
  <2>1. /\ x = [url |-> x.url, method |-> x.method, size |-> x.size,
                pos |-> x.pos, hdrs |-> x.hdrs]
        /\ x.size = n
    OBVIOUS
  <2> HIDE DEF x
  <2> QED BY <1>4, <2>1, UpdatedHeaders
<1> HIDE DEF u
<1>6. d.body = m.body /\ d.code = m.code /\ d.hdrs = u.hdrs
  BY <1>2, <1>3
<1> QED BY <1>2, <1>4, <1>5, <1>6 DEF d, n

\* Deliver: the new response is the last one, and holds the handler's body too.
LEMMA DeliverBodies ==
  ASSUME BodyInv, NEW result \in {"OK", "error"}, Deliver(result)
  PROVE  /\ response.body \in Body /\ response'.body = response.body
         /\ bodies' \in [Body -> BodyRecord]
         /\ delivered' \in Seq(Range(delivered'))
         /\ DOMAIN delivered = 1 .. Len(delivered) /\ Len(delivered) \in Nat
         /\ DOMAIN delivered' = 1 .. Len(delivered) + 1
         /\ \A i \in 1 .. Len(delivered) : delivered'[i] = delivered[i]
         /\ \E d \in {delivered'[Len(delivered) + 1]} :
              /\ d.body = response.body
              /\ d.code = responseparser.code /\ d.hdrs = responseparser.hdrs
              /\ d.info.curlcode = ErrorCode(result)
              /\ d.got = [blocks |-> wire.blocks, data |-> wire.data, result |-> result]
         /\ BodyRefsBalanced'
         /\ \A b \in Body : bodies'[b].data = bodies[b].data
         /\ \A b \in Body : bodies'[b].refs # 0 => bodies[b].refs # 0
<1>1. bodies \in [Body -> BodyRecord] /\ response.body # NoBody
      /\ delivered \in Seq(Range(delivered))
  BY DEF BodyInv, TransferTypes, Deliver, Running
<1>2. response.body \in Body /\ bodies[response.body].refs # 0
  BY <1>1, HeldIsAlive DEF BodyInv
<1> DEFINE p == responseparser
           e == [code |-> p.code, hdrs |-> p.hdrs, body |-> p.body,
                 info |-> get_info(p.code, ErrorCode(result)),
                 got |-> [blocks |-> wire.blocks, data |-> wire.data, result |-> result]]
<1>3. /\ delivered' = Append(delivered, e)
      /\ response' = [response EXCEPT !.blocks = <<>>, !.errorcode = ErrorCode(result)]
      /\ bodies' = [bodies EXCEPT ![response.body].refs = @ + 1]
  BY DEF Deliver, AddRef
<1>4. p.body = response.body
  BY <1>2, Parsed DEF BodyInv
<1>5. response'.body = response.body
  BY <1>3 DEF BodyInv, TransferTypes
<1> HIDE DEF p
<1>6. /\ e.body = response.body /\ e.code = p.code /\ e.hdrs = p.hdrs
      /\ e.info.curlcode = ErrorCode(result)
      /\ e.got = [blocks |-> wire.blocks, data |-> wire.data, result |-> result]
  BY <1>4 DEF get_info
<1> HIDE DEF e
<1>7. /\ delivered' \in Seq(Range(delivered')) /\ Len(delivered) \in Nat
      /\ DOMAIN delivered = 1 .. Len(delivered) /\ DOMAIN delivered' = 1 .. Len(delivered) + 1
      /\ delivered'[Len(delivered) + 1] = e
      /\ \A i \in 1 .. Len(delivered) : delivered'[i] = delivered[i]
  BY <1>1, <1>3, SeqAppend
<1>8. /\ bodies' \in [Body -> BodyRecord]
      /\ \A b \in Body : bodies'[b].data = bodies[b].data
      /\ \A b \in Body : bodies'[b].refs = bodies[b].refs + (IF b = response.body THEN 1 ELSE 0)
  <2> DEFINE r == [bodies[response.body] EXCEPT !.refs = @ + 1]
  <2>1. bodies[response.body] \in BodyRecord /\ bodies' = [bodies EXCEPT ![response.body] = r]
    BY <1>1, <1>2, <1>3
  <2>2. /\ r \in BodyRecord /\ r.refs = bodies[response.body].refs + 1
        /\ r.data = bodies[response.body].data
    BY <2>1 DEF BodyRecord
  <2> HIDE DEF r
  <2>3. /\ bodies' \in [Body -> BodyRecord] /\ bodies'[response.body] = r
        /\ \A b \in Body : b # response.body => bodies'[b] = bodies[b]
    BY <1>1, <1>2, <2>1, <2>2
  <2>4. \A b \in Body : bodies[b].refs + 0 = bodies[b].refs
    BY <1>1 DEF BodyRecord
  <2> QED BY <2>2, <2>3, <2>4
<1>9. ASSUME NEW b \in Body PROVE
        bodies'[b].refs = Cardinality(Holders(delivered', b)) + (IF response'.body = b THEN 1 ELSE 0)
  <2>1. Cardinality(Holders(delivered', b))
          = Cardinality(Holders(delivered, b)) + (IF e.body = b THEN 1 ELSE 0)
    BY <1>1, <1>3, HoldersAppend
  <2> QED BY <1>5, <1>6, <1>8, <2>1, Balance DEF BodyInv
<1>10. BodyRefsBalanced'
  BY <1>9 DEF BodyRefsBalanced, Holders
<1>11. ASSUME NEW b \in Body, bodies'[b].refs # 0 PROVE bodies[b].refs # 0
  BY <1>2, <1>8, <1>11
<1> QED BY <1>2, <1>5, <1>6, <1>7, <1>8, <1>10, <1>11 DEF p

-----------------------------------------------------------------------------
(* Every step keeps the bodies balanced.                                   *)

LEMMA RecordTypes ==
  /\ NoWire \in WireRecord /\ Started \in WireRecord
  /\ \A b \in Body \cup {NoBody} : NoResponse(b) \in ResponseRecord /\ NoResponse(b).body = b
<1>1. <<>> \in Seq(Block) /\ <<>> \in Seq(Nat)
  OBVIOUS
<1>2. NoWire \in WireRecord /\ Started \in WireRecord
  BY <1>1 DEF NoWire, Started, WireRecord
<1>3. \A b \in Body \cup {NoBody} : NoResponse(b) \in ResponseRecord /\ NoResponse(b).body = b
  BY <1>1 DEF NoResponse, ResponseRecord
<1> QED BY <1>2, <1>3

\* A call counts.
LEMMA CallCounts ==
  ASSUME TransferTypes, Call
  PROVE  calls' \in 0 .. MaxCalls /\ calls' \in Nat /\ calls <= calls'
BY CurlTransferAssumption DEF TransferTypes, Call

\* Steps that have nothing to do with bodies.
LEMMA QuietBodies ==
  ASSUME BodyInv, UNCHANGED <<bodies, delivered, q>>, wire' \in WireRecord,
         response' \in ResponseRecord, response'.body = response.body,
         calls' \in 0 .. MaxCalls, calls <= calls'
  PROVE  BodyInv'
<1>1. TransferTypes'
  BY DEF BodyInv, TransferTypes
<1>2. UsedFew'
  BY UsedKept, CurlTransferAssumption DEF BodyInv
<1>3. BodyRefsBalanced'
  BY DEF BodyInv, BodyRefsBalanced
<1> QED BY <1>1, <1>2, <1>3 DEF BodyInv

LEMMA BodyStart == Init => BodyInv
<1> SUFFICES ASSUME Init PROVE BodyInv
  OBVIOUS
<1>1. bodies \in [Body -> BodyRecord] /\ \A b \in Body : bodies[b].refs = 0
  BY DEF Init, BodyRecord
<1>2. delivered = <<>> /\ delivered \in Seq(Range(delivered)) /\ DOMAIN delivered = {}
  BY DEF Init
<1>3. /\ response \in ResponseRecord /\ response.body = NoBody /\ q = None
      /\ wire \in WireRecord /\ calls = 0
  BY RecordTypes DEF Init
<1>4. TransferTypes
  BY <1>1, <1>2, <1>3, CurlTransferAssumption DEF TransferTypes
<1>5. Used = {} /\ Cardinality({}) = 0
  BY <1>1, FS_EmptySet DEF Used
<1>6. UsedFew
  BY <1>3, <1>5 DEF UsedFew
<1>7. ASSUME NEW b \in Body PROVE
        bodies[b].refs = Cardinality({i \in DOMAIN delivered : delivered[i].body = b})
                         + (IF response.body = b THEN 1 ELSE 0)
  <2>1. {i \in DOMAIN delivered : delivered[i].body = b} = {} /\ response.body # b
    BY <1>2, <1>3, NoBodyIsNone
  <2> QED BY <1>1, <1>5, <2>1
<1> QED BY <1>4, <1>6, <1>7 DEF BodyInv, BodyRefsBalanced

LEMMA BodyStep == BodyInv /\ [Next]_vars => BodyInv'
<1> SUFFICES ASSUME BodyInv, [Next]_vars PROVE BodyInv'
  OBVIOUS
<1> USE NoBodyIsNone
<1>0. /\ wire \in WireRecord /\ response \in ResponseRecord /\ calls \in 0 .. MaxCalls
      /\ calls <= calls /\ TransferTypes /\ UsedFew
  BY CurlTransferAssumption DEF BodyInv, TransferTypes
<1>1. ASSUME Call, UNCHANGED <<bodies, delivered, q, response, wire>> PROVE BodyInv'
  BY <1>0, <1>1, CallCounts, QuietBodies
<1>2. CASE \/ \E o \in ClientOptions : setClientOptions(o)
           \/ \E o \in OptionSets : setOptions(o)
           \/ \E c \in SslCalls : setSslOptions(c[1], c[2])
           \/ \E c \in CookieCalls : setCookies(c[1], c[2])
           \/ \E r \in Requests : ModifyRequest(r)
  BY <1>1, <1>2 DEF setClientOptions, setOptions, setSslOptions, setCookies, ModifyRequest
<1>3. CASE enqueue
  <2>1. Call
    BY <1>3 DEF enqueue
  <2>2. CASE UNCHANGED <<q, response, bodies, wire, delivered>>
    BY <1>1, <2>1, <2>2
  <2>3. CASE /\ q' # None /\ wire' = Started /\ delivered' = delivered
             /\ bodies' \in [Body -> BodyRecord]
             /\ response'.body \in Body /\ response' = NoResponse(response'.body)
             /\ BodyRefsBalanced'
             /\ \A b \in Body : bodies'[b].refs # 0 => bodies[b].refs # 0 \/ b = NewBody
    <3>1. TransferTypes'
      BY <1>0, <2>1, <2>3, CallCounts, RecordTypes DEF TransferTypes
    <3>2. UsedFew'
      BY <1>0, <2>1, <2>3, NewBodyIsFree, UsedGrows
    <3> QED BY <2>3, <3>1, <3>2 DEF BodyInv
  <2> QED BY <1>3, <2>2, <2>3, EnqueueBodies
<1>4. CASE requeue
  <2>1. Call /\ q # None /\ ResetResponse /\ delivered' = delivered
    BY <1>4 DEF requeue
  <2>2. /\ bodies' \in [Body -> BodyRecord]
        /\ response'.body \in Body /\ response' = NoResponse(response'.body)
        /\ BodyRefsBalanced'
        /\ \A b \in Body : bodies'[b].refs # 0 => bodies[b].refs # 0 \/ b = NewBody
    BY <2>1, ResetBodies
  <2>3. q' # None /\ wire' \in WireRecord
    <3>1. PICK e, ready : /\ q' = <<e>>
                          /\ wire' = IF ready THEN Started
                               ELSE [wire EXCEPT !.blocks = <<>>, !.data = <<>>,
                                       !.phase = IF @ = "running" THEN "stale" ELSE @]
      BY <1>4 DEF requeue
    <3>2. [wire EXCEPT !.blocks = <<>>, !.data = <<>>,
             !.phase = IF @ = "running" THEN "stale" ELSE @] \in WireRecord
      <4>1. /\ wire.phase \in {"idle", "running", "stale", "done"} /\ wire.sent \in Nat
            /\ <<>> \in Seq(Block) /\ <<>> \in Seq(Nat)
        BY <1>0 DEF WireRecord
      <4>2. (IF wire.phase = "running" THEN "stale" ELSE wire.phase)
              \in {"idle", "running", "stale", "done"}
        BY <4>1
      <4> QED BY <1>0, <4>1, <4>2 DEF WireRecord
    <3> QED BY <3>1, <3>2, RecordTypes DEF None
  <2>4. TransferTypes'
    BY <1>0, <2>1, <2>2, <2>3, CallCounts, RecordTypes DEF TransferTypes
  <2>5. UsedFew'
    BY <1>0, <2>1, <2>2, NewBodyIsFree, UsedGrows
  <2> QED BY <2>2, <2>4, <2>5 DEF BodyInv
<1>5. CASE dequeue
  <2>1. Call /\ q' = None /\ response' = NoResponse(NoBody) /\ delivered' = delivered /\ wire' = NoWire
    BY <1>5 DEF dequeue
  <2>2. /\ bodies' \in [Body -> BodyRecord] /\ BodyRefsBalanced'
        /\ \A b \in Body : bodies'[b].refs # 0 => bodies[b].refs # 0
    BY <1>5, DequeueBodies
  <2>3. TransferTypes'
    BY <1>0, <2>1, <2>2, CallCounts, RecordTypes DEF TransferTypes
  <2>4. UsedFew'
    BY <1>0, <2>1, <2>2, CallCounts, UsedKept
  <2> QED BY <2>2, <2>3, <2>4 DEF BodyInv
<1>6. ASSUME NEW i \in DOMAIN delivered, Release(i) PROVE BodyInv'
  <2>1. Call /\ UNCHANGED <<q, response, wire>>
    BY <1>6 DEF Release
  <2>2. /\ bodies' \in [Body -> BodyRecord] /\ BodyRefsBalanced'
        /\ delivered' \in Seq(Range(delivered'))
        /\ \A j \in DOMAIN delivered' : \E k \in DOMAIN delivered : delivered'[j] = delivered[k]
        /\ \A b \in Body : bodies'[b].refs # 0 => bodies[b].refs # 0
    BY <1>6, ReleaseBodies
  <2>3. TransferTypes'
    BY <1>0, <2>1, <2>2, CallCounts DEF TransferTypes
  <2>4. UsedFew'
    BY <1>0, <2>1, <2>2, CallCounts, UsedKept
  <2> QED BY <2>2, <2>3, <2>4 DEF BodyInv
<1>7. CASE read_callback \/ seek_callback
  <2>1. UNCHANGED <<bodies, delivered, q, response, calls>>
    BY <1>7 DEF read_callback, seek_callback
  <2>2. wire' = [wire EXCEPT !.sent = @ + 1] \/ wire' = [wire EXCEPT !.sent = 0]
    BY <1>7 DEF read_callback, seek_callback
  <2>3. wire' \in WireRecord
    BY <1>0, <2>2 DEF WireRecord
  <2> QED BY <1>0, <2>1, <2>3, QuietBodies
<1>8. ASSUME NEW b \in Interim \cup Final, header_callback(b) PROVE BodyInv'
  <2>1. UNCHANGED <<bodies, delivered, q, calls>>
    BY <1>8 DEF header_callback
  <2>2. /\ response' = [response EXCEPT !.blocks = Append(@, b)]
        /\ wire' = [wire EXCEPT !.blocks = Append(@, b)]
    BY <1>8 DEF header_callback
  <2>3. Append(response.blocks, b) \in Seq(Block) /\ Append(wire.blocks, b) \in Seq(Block)
    BY <1>0 DEF WireRecord, ResponseRecord, Block
  <2>4. wire' \in WireRecord /\ response' \in ResponseRecord /\ response'.body = response.body
    BY <1>0, <2>2, <2>3 DEF WireRecord, ResponseRecord
  <2> QED BY <1>0, <2>1, <2>4, QuietBodies
<1>9. CASE body_callback
  <2>1. /\ UNCHANGED <<delivered, q, response, calls>>
        /\ wire' = [wire EXCEPT !.data = Append(@, Len(wire.data) + 1)]
    BY <1>9 DEF body_callback
  <2>2. /\ bodies' \in [Body -> BodyRecord] /\ BodyRefsBalanced'
        /\ \A b \in Body : bodies'[b].refs = bodies[b].refs
    BY <1>9, ReceiveBodies
  <2>3. wire' \in WireRecord
    <3>1. Append(wire.data, Len(wire.data) + 1) \in Seq(Nat)
      BY <1>0 DEF WireRecord
    <3> QED BY <1>0, <2>1, <3>1 DEF WireRecord
  <2>4. TransferTypes'
    BY <1>0, <2>1, <2>2, <2>3 DEF TransferTypes
  <2>5. UsedFew'
    BY <1>0, <2>1, <2>2, UsedKept, CurlTransferAssumption
  <2> QED BY <2>2, <2>4, <2>5 DEF BodyInv
<1>10. ASSUME NEW r \in {"OK", "error"}, Deliver(r) PROVE BodyInv'
  <2>1. /\ UNCHANGED <<q, calls>> /\ wire' = [wire EXCEPT !.phase = "done"]
        /\ response' = [response EXCEPT !.blocks = <<>>, !.errorcode = ErrorCode(r)]
    BY <1>10 DEF Deliver
  <2>2. /\ response.body \in Body /\ response'.body = response.body
        /\ bodies' \in [Body -> BodyRecord] /\ delivered' \in Seq(Range(delivered'))
        /\ DOMAIN delivered = 1 .. Len(delivered) /\ Len(delivered) \in Nat
        /\ DOMAIN delivered' = 1 .. Len(delivered) + 1
        /\ \A i \in 1 .. Len(delivered) : delivered'[i] = delivered[i]
        /\ delivered'[Len(delivered) + 1].body = response.body
        /\ BodyRefsBalanced'
        /\ \A b \in Body : bodies'[b].refs # 0 => bodies[b].refs # 0
    BY <1>10, DeliverBodies
  <2>3. wire' \in WireRecord /\ response' \in ResponseRecord
    <3>1. wire' \in WireRecord
      BY <1>0, <2>1 DEF WireRecord
    <3>2. ErrorCode(r) \in {"OK", "error"} /\ <<>> \in Seq(Block)
      BY <1>0 DEF ResponseRecord, ErrorCode
    <3>3. response' \in ResponseRecord
      BY <1>0, <2>1, <3>2 DEF ResponseRecord
    <3> QED BY <3>1, <3>3
  <2>4. \A i \in DOMAIN delivered' : delivered'[i].body \in Body
    BY <1>0, <2>2 DEF TransferTypes
  <2>5. TransferTypes'
    BY <1>0, <2>1, <2>2, <2>3, <2>4 DEF TransferTypes
  <2>6. UsedFew'
    BY <1>0, <2>1, <2>2, UsedKept, CurlTransferAssumption
  <2> QED BY <2>2, <2>5, <2>6 DEF BodyInv
<1>11. CASE UNCHANGED vars
  BY <1>0, <1>11, QuietBodies DEF vars
<1> QED BY <1>2, <1>3, <1>4, <1>5, <1>6, <1>7, <1>8, <1>9, <1>10, <1>11 DEF Next

\* A response body lives exactly as long as the handler or a response of the user refers
\* to it: handler_reset(), the response parser and the destructors keep the count.
THEOREM BodiesBalanced == Spec => []BodyRefsBalanced
<1>1. BodyInv => BodyRefsBalanced
  BY DEF BodyInv
<1> QED BY <1>1, BodyStart, BodyStep, PTL DEF Spec

-----------------------------------------------------------------------------
(* Every step keeps the responses what they were.                          *)

\* The bodies of responses are alive, before and after a step.
HeldAlive == \A i \in DOMAIN delivered :
               delivered[i].body \in Body /\ bodies[delivered[i].body].refs # 0

LEMMA HeldNow == BodyInv => HeldAlive
BY HeldIsAlive DEF BodyInv, HeldAlive, TransferTypes

LEMMA HeldNext == BodyInv' => HeldAlive'
BY HeldNow, PTL

\* And so is the handler's.
HandlerAlive == response.body \in Body => bodies[response.body].refs # 0

LEMMA AliveNow == BodyInv => HandlerAlive
BY HeldIsAlive, NoBodyIsNone DEF BodyInv, HandlerAlive

LEMMA AliveNext == BodyInv' => HandlerAlive'
BY AliveNow, PTL

\* The handler starts over: nothing received, nothing in the body.
LEMMA StartsOver ==
  ASSUME ReceivedInv, BodyInv', delivered' = delivered,
         response' = NoResponse(response'.body),
         bodies'[response'.body].data = <<>>,
         \A i \in DOMAIN delivered :
           bodies'[delivered[i].body].data = bodies[delivered[i].body].data,
         wire'.blocks = <<>>, wire'.data = <<>>
  PROVE  ReceivedInv'
<1>1. DataKept'
  BY DEF ReceivedInv, DataKept
<1>2. AllGenuine'
  BY DEF ReceivedInv, AllGenuine
<1>3. response'.blocks = <<>> /\ response'.errorcode = "OK"
  BY DEF NoResponse
<1>4. InTransfer'
  BY <1>1, <1>3 DEF InTransfer, DataKept
<1> QED BY <1>1, <1>2, <1>4 DEF ReceivedInv

\* Steps that receive nothing.
LEMMA QuietTransfer ==
  ASSUME ReceivedInv, BodyInv', UNCHANGED <<bodies, delivered, q, response>>,
         wire'.blocks = wire.blocks, wire'.data = wire.data, wire'.phase = wire.phase
  PROVE  ReceivedInv'
<1>1. DataKept'
  BY DEF ReceivedInv, DataKept
<1>2. AllGenuine'
  BY DEF ReceivedInv, AllGenuine
<1>3. InTransfer'
  BY DEF ReceivedInv, InTransfer, Running
<1> QED BY <1>1, <1>2, <1>3 DEF ReceivedInv

LEMMA ReceivedStart == Init => ReceivedInv
<1> SUFFICES ASSUME Init PROVE ReceivedInv
  OBVIOUS
<1>1. DOMAIN delivered = {} /\ q = None
  BY DEF Init
<1>2. InTransfer /\ DataKept /\ AllGenuine
  BY <1>1 DEF InTransfer, Running, DataKept, AllGenuine
<1> QED BY <1>2, BodyStart DEF ReceivedInv

LEMMA ReceivedStep == ReceivedInv /\ [Next]_vars => ReceivedInv'
<1> SUFFICES ASSUME ReceivedInv, [Next]_vars PROVE ReceivedInv'
  OBVIOUS
<1>0. BodyInv /\ BodyInv' /\ wire \in WireRecord
  BY BodyStep DEF ReceivedInv, BodyInv, TransferTypes
<1>1. CASE UNCHANGED <<bodies, delivered, q, response, wire>>
  BY <1>0, <1>1, QuietTransfer
<1>2. CASE \/ \E o \in ClientOptions : setClientOptions(o)
           \/ \E o \in OptionSets : setOptions(o)
           \/ \E c \in SslCalls : setSslOptions(c[1], c[2])
           \/ \E c \in CookieCalls : setCookies(c[1], c[2])
           \/ \E r \in Requests : ModifyRequest(r)
           \/ UNCHANGED vars
  BY <1>1, <1>2 DEF setClientOptions, setOptions, setSslOptions, setCookies, ModifyRequest, vars
<1>3. CASE enqueue
  <2>1. Started.blocks = <<>> /\ Started.data = <<>>
    BY DEF Started, NoWire
  <2>2. CASE wire' = Started /\ delivered' = delivered
             /\ response' = NoResponse(response'.body)
             /\ bodies'[response'.body].data = <<>>
             /\ \A i \in DOMAIN delivered :
                  bodies'[delivered[i].body].data = bodies[delivered[i].body].data
    BY <1>0, <2>1, <2>2, StartsOver
  <2> QED BY <1>0, <1>1, <1>3, <2>2, EnqueueBodies
<1>4. CASE requeue
  <2>1. q # None /\ ResetResponse /\ delivered' = delivered
    BY <1>4 DEF requeue
  <2>2. PICK ready : wire' = IF ready THEN Started
                             ELSE [wire EXCEPT !.blocks = <<>>, !.data = <<>>,
                                     !.phase = IF @ = "running" THEN "stale" ELSE @]
    BY <1>4 DEF requeue
  <2>3. wire'.blocks = <<>> /\ wire'.data = <<>>
    BY <1>0, <2>2 DEF Started, NoWire, WireRecord
  <2> QED BY <1>0, <2>1, <2>3, ResetBodies, StartsOver
<1>5. CASE dequeue
  <2>1. q' = None /\ delivered' = delivered
    BY <1>5 DEF dequeue
  <2>2. DataKept'
    BY <1>0, <1>5, <2>1, DequeueBodies, HeldNext DEF ReceivedInv, DataKept, HeldAlive
  <2>3. InTransfer' /\ AllGenuine'
    BY <2>1 DEF ReceivedInv, InTransfer, Running, AllGenuine
  <2> QED BY <1>0, <2>2, <2>3 DEF ReceivedInv
<1>6. ASSUME NEW i \in DOMAIN delivered, Release(i) PROVE ReceivedInv'
  <2>1. UNCHANGED <<q, response, wire>>
    BY <1>6 DEF Release
  <2>2. /\ \A j \in DOMAIN delivered' : \E k \in DOMAIN delivered : delivered'[j] = delivered[k]
        /\ \A b \in Body : bodies'[b].refs # 0 => bodies'[b].data = bodies[b].data
    BY <1>0, <1>6, ReleaseBodies
  <2>3. DataKept'
    BY <1>0, <2>2, HeldNext DEF ReceivedInv, DataKept, HeldAlive
  <2>4. AllGenuine'
    BY <2>2 DEF ReceivedInv, AllGenuine
  <2>5. ASSUME Running PROVE bodies'[response.body].data = bodies[response.body].data
    <3>1. response.body \in Body /\ response.body # NoBody
      BY <1>0, <2>5, NoBodyIsNone DEF BodyInv, TransferTypes, ResponseRecord, Running
    <3>2. bodies'[response.body].refs # 0
      BY <1>0, <2>1, <3>1, AliveNext DEF HandlerAlive
    <3> QED BY <2>2, <3>1, <3>2
  <2>6. InTransfer'
    BY <2>1, <2>2, <2>5 DEF ReceivedInv, InTransfer, Running
  <2> QED BY <1>0, <2>3, <2>4, <2>6 DEF ReceivedInv
<1>7. CASE read_callback \/ seek_callback
  <2>1. UNCHANGED <<bodies, delivered, q, response>>
    BY <1>7 DEF read_callback, seek_callback
  <2>2. wire' = [wire EXCEPT !.sent = @ + 1] \/ wire' = [wire EXCEPT !.sent = 0]
    BY <1>7 DEF read_callback, seek_callback
  <2>3. wire'.blocks = wire.blocks /\ wire'.data = wire.data /\ wire'.phase = wire.phase
    BY <1>0, <2>2 DEF WireRecord
  <2> QED BY <1>0, <2>1, <2>3, QuietTransfer
<1>8. ASSUME NEW b \in Interim \cup Final, header_callback(b) PROVE ReceivedInv'
  <2>1. Running /\ UNCHANGED <<bodies, delivered, q>>
    BY <1>8 DEF header_callback
  <2>2. /\ response' = [response EXCEPT !.blocks = Append(@, b)]
        /\ wire' = [wire EXCEPT !.blocks = Append(@, b)]
        /\ response \in ResponseRecord
    BY <1>0, <1>8 DEF header_callback, BodyInv, TransferTypes
  <2>3. /\ response'.body = response.body /\ response'.errorcode = response.errorcode
        /\ response'.blocks = Append(response.blocks, b)
        /\ wire'.blocks = Append(wire.blocks, b) /\ wire'.data = wire.data
    BY <1>0, <2>2 DEF ResponseRecord, WireRecord
  <2>4. InTransfer'
    BY <2>1, <2>3 DEF ReceivedInv, InTransfer
  <2>5. DataKept' /\ AllGenuine'
    BY <2>1 DEF ReceivedInv, DataKept, AllGenuine
  <2> QED BY <1>0, <2>4, <2>5 DEF ReceivedInv
<1>9. CASE body_callback
  <2>1. /\ Running /\ UNCHANGED <<delivered, q, response>>
        /\ wire' = [wire EXCEPT !.data = Append(@, Len(wire.data) + 1)]
    BY <1>9 DEF body_callback
  <2>2. /\ \A b \in Body : b # response.body => bodies'[b] = bodies[b]
        /\ bodies'[response.body].data = Append(bodies[response.body].data, Len(wire.data) + 1)
    BY <1>0, <1>9, ReceiveBodies
  <2>3. wire'.blocks = wire.blocks /\ wire'.data = Append(wire.data, Len(wire.data) + 1)
    BY <1>0, <2>1 DEF WireRecord
  <2>4. /\ bodies[response.body].data = wire.data /\ response.blocks = wire.blocks
        /\ response.errorcode = "OK"
        /\ \A i \in DOMAIN delivered :
             delivered[i].body = response.body => delivered[i].got.data = <<>>
    BY <2>1 DEF ReceivedInv, InTransfer
  <2>5. InTransfer'
    BY <2>1, <2>2, <2>3, <2>4 DEF InTransfer
  <2>6. DataKept'
    BY <1>0, <2>1, <2>2, <2>4, HeldNow DEF ReceivedInv, DataKept, HeldAlive
  <2>7. AllGenuine'
    BY <2>1 DEF ReceivedInv, AllGenuine
  <2> QED BY <1>0, <2>5, <2>6, <2>7 DEF ReceivedInv
<1>10. ASSUME NEW r \in {"OK", "error"}, Deliver(r) PROVE ReceivedInv'
  <2> DEFINE n == Len(delivered) + 1
             d == delivered'[n]
  <2>1. Running /\ wire'.phase = "done"
    BY <1>0, <1>10 DEF Deliver, WireRecord
  <2>2. /\ response.body \in Body
        /\ DOMAIN delivered = 1 .. Len(delivered) /\ Len(delivered) \in Nat
        /\ DOMAIN delivered' = 1 .. Len(delivered) + 1
        /\ \A i \in 1 .. Len(delivered) : delivered'[i] = delivered[i]
        /\ \A b \in Body : bodies'[b].data = bodies[b].data
    BY <1>0, <1>10, DeliverBodies
  <2>3. /\ d.body = response.body
        /\ d.code = responseparser.code /\ d.hdrs = responseparser.hdrs
        /\ d.info.curlcode = ErrorCode(r)
        /\ d.got = [blocks |-> wire.blocks, data |-> wire.data, result |-> r]
    BY <1>0, <1>10, DeliverBodies
  <2>4. /\ bodies[response.body].data = wire.data /\ response.blocks = wire.blocks
        /\ response.errorcode = "OK"
    BY <2>1 DEF ReceivedInv, InTransfer
  <2>5. /\ responseparser.code = IF wire.blocks = <<>> THEN 0 ELSE Last(wire.blocks).code
        /\ wire.data # <<>> /\ "Content-Range" \notin DOMAIN responseparser.hdrs =>
             responseparser.hdrs["Content-Length"] = Len(wire.data)
    BY <1>0, <2>2, <2>4, Parsed DEF BodyInv
  <2>6. ErrorCode(r) = r
    BY <2>4 DEF ErrorCode
  <2> HIDE DEF d
  <2>7. d.got.blocks = wire.blocks /\ d.got.data = wire.data /\ d.got.result = r
    BY <2>3
  <2>8. Genuine(d) /\ bodies'[d.body].data = d.got.data
    BY <2>2, <2>3, <2>4, <2>5, <2>6, <2>7 DEF Genuine
  <2>9. \A i \in DOMAIN delivered' :
          (i \in DOMAIN delivered /\ delivered'[i] = delivered[i]) \/ delivered'[i] = d
    BY <2>2 DEF d
  <2>10. AllGenuine'
    BY <2>8, <2>9 DEF ReceivedInv, AllGenuine
  <2>11. DataKept'
    BY <1>0, <2>2, <2>8, <2>9, HeldNow DEF ReceivedInv, DataKept, HeldAlive
  <2>12. InTransfer'
    BY <2>1 DEF InTransfer, Running
  <2> QED BY <1>0, <2>10, <2>11, <2>12 DEF ReceivedInv
<1> QED BY <1>2, <1>3, <1>4, <1>5, <1>6, <1>7, <1>8, <1>9, <1>10 DEF Next

\* A response that was delivered stays what the server sent for it: data, status, result
\* and length, whatever is requeued, dequeued, released or received later.
THEOREM ResponsesKept == Spec => []ResponsesAsReceived
<1>1. ReceivedInv => ResponsesAsReceived
  BY DEF ReceivedInv, DataKept, AllGenuine, Genuine, ResponsesAsReceived
<1> QED BY <1>1, ReceivedStart, ReceivedStep, PTL DEF Spec

-----------------------------------------------------------------------------
(* What libcurl has read is the beginning of the request body.             *)

\* prepare() leaves the request what it was, but for headers and position; when it
\* succeeds the body is at its start.
LEMMA PreparedKeeps ==
  ASSUME RequestShape, NEW h, NEW o, NEW r, r = PreparedRequest(h, o, request)
  PROVE  /\ r = [url |-> r.url, method |-> r.method, size |-> r.size, pos |-> r.pos, hdrs |-> r.hdrs]
         /\ r.size \in Nat /\ r.pos \in 0 .. r.size
         /\ Prepares(h, o, request) => r.pos = 0
<1> DEFINE u == update_headers(request)
           p == Rewound(request)
<1>1. /\ u = [url |-> request.url, method |-> request.method, size |-> request.size,
              pos |-> request.pos, hdrs |-> u.hdrs]
      /\ request.size \in Nat /\ request.pos \in 0 .. request.size
  BY UpdatedHeaders DEF RequestShape
<1>2. p = 0 /\ 0 \in 0 .. request.size
  BY <1>1 DEF Rewound
<1>3. CASE Applied(h, o, request).ok
  <2>1. r = [u EXCEPT !.pos = p]
    BY <1>3 DEF PreparedRequest
  <2> HIDE DEF u, p
  <2>2. r = [url |-> request.url, method |-> request.method, size |-> request.size,
             pos |-> p, hdrs |-> u.hdrs]
    BY <1>1, <2>1
  <2> QED BY <1>1, <1>2, <2>2
<1>4. CASE ~Applied(h, o, request).ok
  <2>1. r = request /\ ~Prepares(h, o, request)
    BY <1>4 DEF PreparedRequest, Prepares
  <2> QED BY <1>1, <2>1 DEF RequestShape
<1> QED BY <1>3, <1>4

LEMMA UploadStart == Init => UploadInv
<1> SUFFICES ASSUME Init PROVE UploadInv
  OBVIOUS
<1>1. wire.phase = "idle"
  BY DEF Init, NoWire
<1>2. PICK r \in Requests :
        request = [url |-> r.url, method |-> r.method, size |-> r.size, pos |-> 0, hdrs |-> Empty]
  BY DEF Init
<1>3. r.size \in Nat /\ 0 \in 0 .. r.size
  BY CurlTransferAssumption
<1>4. RequestShape
  BY <1>2, <1>3 DEF RequestShape
<1> QED BY <1>1, <1>4, BodyStart DEF UploadInv, UploadFromStart

\* Steps of which neither the request nor the upload knows.
LEMMA QuietUpload ==
  ASSUME UploadInv, BodyInv', UNCHANGED request, q' = q \/ q' # None,
         wire'.phase = wire.phase \/ wire'.phase # "running", wire'.sent = wire.sent
  PROVE  UploadInv'
<1>1. RequestShape'
  BY DEF UploadInv, RequestShape
<1>2. UploadFromStart' /\ (wire'.phase = "running" => q' # None)
  BY DEF UploadInv, UploadFromStart
<1> QED BY <1>1, <1>2 DEF UploadInv

LEMMA UploadStep == UploadInv /\ [Next]_vars => UploadInv'
<1> SUFFICES ASSUME UploadInv, [Next]_vars PROVE UploadInv'
  OBVIOUS
<1>0. BodyInv /\ BodyInv' /\ wire \in WireRecord /\ RequestShape /\ UploadFromStart
  BY BodyStep DEF UploadInv, BodyInv, TransferTypes
<1>1. CASE UNCHANGED <<request, q, wire>>
  BY <1>0, <1>1, QuietUpload
<1>2. CASE \/ \E o \in ClientOptions : setClientOptions(o)
           \/ \E o \in OptionSets : setOptions(o)
           \/ \E c \in SslCalls : setSslOptions(c[1], c[2])
           \/ \E c \in CookieCalls : setCookies(c[1], c[2])
           \/ \E i \in DOMAIN delivered : Release(i)
           \/ UNCHANGED vars
  BY <1>1, <1>2 DEF setClientOptions, setOptions, setSslOptions, setCookies, Release, vars
<1>3. ASSUME NEW r \in Requests, ModifyRequest(r) PROVE UploadInv'
  <2>1. /\ request' = [request EXCEPT !.url = r.url, !.method = r.method, !.size = r.size, !.pos = 0]
        /\ wire.phase # "running" /\ wire' = wire
    BY <1>3 DEF ModifyRequest
  <2>2. r.size \in Nat /\ 0 \in 0 .. r.size
    BY CurlTransferAssumption
  <2>3. request' = [url |-> r.url, method |-> r.method, size |-> r.size, pos |-> 0,
                    hdrs |-> request.hdrs]
    BY <1>0, <2>1 DEF RequestShape
  <2>4. RequestShape'
    BY <2>2, <2>3 DEF RequestShape
  <2> QED BY <1>0, <2>1, <2>4 DEF UploadInv, UploadFromStart
<1>4. ASSUME NEW h, NEW o, request' = PreparedRequest(h, o, request),
             Prepares(h, o, request) => wire' = Started /\ q' # None,
             ~Prepares(h, o, request) => wire'.phase # "running"
      PROVE  UploadInv'
  <2>1. /\ RequestShape'
        /\ Prepares(h, o, request) => request'.pos = 0
    <3>1. ASSUME NEW r, r = PreparedRequest(h, o, request) PROVE
            /\ r = [url |-> r.url, method |-> r.method, size |-> r.size, pos |-> r.pos, hdrs |-> r.hdrs]
            /\ r.size \in Nat /\ r.pos \in 0 .. r.size
            /\ Prepares(h, o, request) => r.pos = 0
      BY <1>0, <3>1, PreparedKeeps
    <3>2. /\ request' = [url |-> request'.url, method |-> request'.method, size |-> request'.size,
                         pos |-> request'.pos, hdrs |-> request'.hdrs]
          /\ request'.size \in Nat /\ request'.pos \in 0 .. request'.size
          /\ Prepares(h, o, request) => request'.pos = 0
      BY <1>4, <3>1
    <3> QED BY <3>2 DEF RequestShape
  <2>2. Started.sent = 0
    BY DEF Started, NoWire
  <2> QED BY <1>0, <1>4, <2>1, <2>2 DEF UploadInv, UploadFromStart
<1>5. CASE enqueue
  <2>1. q = None
    BY <1>5 DEF enqueue
  <2>2. wire.phase # "running"
    BY <2>1 DEF UploadInv
  <2> DEFINE o == combined_options(copts, ropts)
             Entry(h) == [options |-> o, h |-> handler_prepare(h, o, request),
                          msg |-> request, ready |-> TRUE]
  <2>3. PICK h : /\ request' = PreparedRequest(h, o, request)
                 /\ IF Prepares(h, o, request) THEN q' = <<Entry(h)>> /\ wire' = Started
                    ELSE UNCHANGED wire
    BY <1>5 DEF enqueue
  <2> HIDE DEF Entry, o
  <2>4. \A x : <<x>> # None
    BY DEF None
  <2> QED BY <1>4, <2>2, <2>3, <2>4
<1>6. CASE requeue
  <2> DEFINE o == combined_options(copts, ropts)
             stale == [wire EXCEPT !.blocks = <<>>, !.data = <<>>,
                         !.phase = IF @ = "running" THEN "stale" ELSE @]
  <2>1. PICK h, e : /\ request' = PreparedRequest(h, o, request)
                    /\ q' = <<e>>
                    /\ wire' = IF Prepares(h, o, request) THEN Started ELSE stale
    BY <1>6 DEF requeue
  <2>2. stale.phase # "running"
    BY <1>0 DEF WireRecord
  <2> HIDE DEF o, stale
  <2>3. <<e>> # None
    BY DEF None
  <2> QED BY <1>4, <2>1, <2>2, <2>3
<1>7. CASE dequeue
  <2>1. request' = request /\ wire'.phase # "running"
    BY <1>7 DEF dequeue, NoWire
  <2> QED BY <1>0, <2>1 DEF UploadInv, UploadFromStart, RequestShape
<1>8. CASE read_callback
  <2>1. /\ request' = [request EXCEPT !.pos = @ + 1] /\ wire' = [wire EXCEPT !.sent = @ + 1]
        /\ q' = q /\ request.pos < request.size
    BY <1>8 DEF read_callback
  <2>2. request' = [url |-> request.url, method |-> request.method, size |-> request.size,
                    pos |-> request.pos + 1, hdrs |-> request.hdrs]
    BY <1>0, <2>1 DEF RequestShape
  <2>3. request.pos + 1 \in 0 .. request.size /\ request.size \in Nat
    BY <1>0, <2>1 DEF RequestShape
  <2>4. RequestShape' /\ request'.pos = request.pos + 1
    BY <2>2, <2>3 DEF RequestShape
  <2>5. wire'.phase = wire.phase /\ wire'.sent = wire.sent + 1
    BY <1>0, <2>1 DEF WireRecord
  <2> QED BY <1>0, <2>1, <2>4, <2>5 DEF UploadInv, UploadFromStart
<1>9. CASE seek_callback
  <2>1. /\ request' = [request EXCEPT !.pos = 0] /\ wire' = [wire EXCEPT !.sent = 0]
        /\ q' = q
    BY <1>9 DEF seek_callback
  <2>2. request' = [url |-> request.url, method |-> request.method, size |-> request.size,
                    pos |-> 0, hdrs |-> request.hdrs]
    BY <1>0, <2>1 DEF RequestShape
  <2>3. 0 \in 0 .. request.size /\ request.size \in Nat
    BY <1>0 DEF RequestShape
  <2>4. RequestShape' /\ request'.pos = 0
    BY <2>2, <2>3 DEF RequestShape
  <2>5. wire'.phase = wire.phase /\ wire'.sent = 0
    BY <1>0, <2>1 DEF WireRecord
  <2> QED BY <1>0, <2>1, <2>4, <2>5 DEF UploadInv, UploadFromStart
<1>10. CASE \/ \E b \in Interim \cup Final : header_callback(b)
            \/ body_callback
            \/ \E r \in {"OK", "error"} : Deliver(r)
  <2>1. request' = request /\ q' = q
    BY <1>10 DEF header_callback, body_callback, Deliver
  <2>2. \/ \E x : wire' = [wire EXCEPT !.blocks = x]
        \/ \E x : wire' = [wire EXCEPT !.data = x]
        \/ wire' = [wire EXCEPT !.phase = "done"]
    BY <1>10 DEF header_callback, body_callback, Deliver
  <2>3. wire'.sent = wire.sent /\ (wire'.phase = wire.phase \/ wire'.phase # "running")
    BY <1>0, <2>2 DEF WireRecord
  <2> QED BY <1>0, <2>1, <2>3, QuietUpload
<1> QED BY <1>2, <1>3, <1>5, <1>6, <1>7, <1>8, <1>9, <1>10 DEF Next

\* What libcurl has read of the request body is its beginning, also after a requeue in the
\* middle of the upload and after a seek (prepare() rewinds, seek_callback seeks).
THEOREM UploadsFromStart == Spec => []UploadFromStart
<1>1. UploadInv => UploadFromStart
  BY DEF UploadInv
<1> QED BY <1>1, UploadStart, UploadStep, PTL DEF Spec

-----------------------------------------------------------------------------
(* A handle that is used again is prepared as a new one.                   *)

\* The fields a handler has, whatever they hold.
Fields == {"easy", "ok", "st", "resolve", "retry", "redirects", "encode_cookies",
           "range_request", "headers", "proxyheaders", "cookies", "ranges"}
IsText(t) == t = [used |-> t.used, data |-> t.data]
IsHandler(h) ==
  /\ h = [f \in Fields |-> h[f]]
  /\ h.easy = [o \in Settings |-> h.easy[o]]
  /\ h.st = [url |-> h.st.url, cookiestore |-> h.st.cookiestore]
  /\ h.retry = [count |-> h.retry.count, delay |-> h.retry.delay]
  /\ IsText(h.cookies) /\ IsText(h.ranges)
  /\ h.ok \in BOOLEAN /\ h.range_request \in BOOLEAN

\* Handlers that differ in some fields at most.
Differ(s, t, D) == \A f \in Fields \ D : t[f] = s[f]

\* What depends on whether an earlier use of the handle made a range request.
Late == {"TIMECONDITION", "HTTPHEADER"}

\* Texts that are built alike.
SameText(t, u) == t.used = u.used /\ (t.used # 0 => t.data = u.data)

\* a, used before, is set as b, which is new, as far as the settings in W go, and so is
\* everything that setters still build upon.
SameSettings(a, b, W) ==
  \A o \in W : (o \in Late /\ a.range_request) \/ a.easy[o] = b.easy[o]
SameOptions(a, b) ==
  /\ a.st = b.st /\ a.resolve = b.resolve /\ a.retry = b.retry
  /\ a.redirects = b.redirects /\ a.encode_cookies = b.encode_cookies
  /\ a.proxyheaders = b.proxyheaders
  /\ SameText(a.cookies, b.cookies)
  /\ b.range_request => a.range_request
  /\ a.range_request \/ a.headers = b.headers
\* As long as no range was set, the new one has no text of any.
RangeKnown(b, W) == "RANGE" \in W \/ b.ranges.data = <<>>
Alike(a, b, W) ==
  a.ok => b.ok /\ SameSettings(a, b, W) /\ SameOptions(a, b) /\ RangeKnown(b, W)

\* libcurl takes a setting, or not.
LEMMA SetoptIs ==
  ASSUME NEW s, IsHandler(s), NEW o \in Settings, NEW v, NEW t, t = setopt(s, o, v)
  PROVE  /\ IsHandler(t)
         /\ Differ(s, t, {"easy", "ok"})
         /\ t.ok <=> s.ok /\ <<o, v>> \notin Rejected
         /\ t.ok => t.easy[o] = v /\ \A p \in Settings \ {o} : t.easy[p] = s.easy[p]
<1>0. s.ok \in BOOLEAN
  BY DEF IsHandler
<1>1. CASE ~s.ok
  BY <1>1 DEF setopt, Differ
<1>2. CASE s.ok /\ <<o, v>> \in Rejected
  <2>1. t = [s EXCEPT !.ok = FALSE]
    BY <1>2 DEF setopt
  <2>2. t = [f \in Fields |-> t[f]] /\ t.ok = FALSE /\ Differ(s, t, {"ok"})
    BY <2>1 DEF IsHandler, Fields, Differ
  <2>3. IsHandler(t)
    BY <2>2 DEF IsHandler, Differ, Fields
  <2> QED BY <1>2, <2>2, <2>3 DEF Differ
<1>3. CASE s.ok /\ <<o, v>> \notin Rejected
  <2> DEFINE e == [s.easy EXCEPT ![o] = v]
  <2>1. t = [s EXCEPT !.easy = e]
    BY <1>3 DEF setopt
  <2>2. e = [p \in Settings |-> e[p]] /\ e[o] = v /\ \A p \in Settings \ {o} : e[p] = s.easy[p]
    BY DEF IsHandler
  <2> HIDE DEF e
  <2>3. t = [f \in Fields |-> t[f]] /\ t.easy = e /\ Differ(s, t, {"easy"})
    BY <2>1 DEF IsHandler, Fields, Differ
  <2>4. t.ok
    BY <1>3, <2>3 DEF Differ, Fields
  <2>5. IsHandler(t)
    BY <2>2, <2>3 DEF IsHandler, Differ, Fields
  <2> QED BY <1>3, <2>2, <2>3, <2>4, <2>5 DEF Differ
<1> QED BY <1>0, <1>1, <1>2, <1>3

\* A step of a setter on both handlers: libcurl is given the same.
LEMMA SetoptAlike ==
  ASSUME NEW a, NEW b, IsHandler(a), IsHandler(b), NEW W \in SUBSET Settings, Alike(a, b, W),
         NEW o \in Settings, NEW v, NEW c, c = setopt(a, o, v), NEW d, d = setopt(b, o, v)
  PROVE  IsHandler(c) /\ IsHandler(d) /\ Alike(c, d, W \cup {o})
<1>1. /\ IsHandler(c) /\ Differ(a, c, {"easy", "ok"})
      /\ c.ok <=> a.ok /\ <<o, v>> \notin Rejected
      /\ c.ok => c.easy[o] = v /\ \A p \in Settings \ {o} : c.easy[p] = a.easy[p]
  BY SetoptIs
<1>2. /\ IsHandler(d) /\ Differ(b, d, {"easy", "ok"})
      /\ d.ok <=> b.ok /\ <<o, v>> \notin Rejected
      /\ d.ok => d.easy[o] = v /\ \A p \in Settings \ {o} : d.easy[p] = b.easy[p]
  BY SetoptIs
<1> SUFFICES ASSUME c.ok
             PROVE  /\ d.ok /\ SameSettings(c, d, W \cup {o}) /\ SameOptions(c, d)
                    /\ RangeKnown(d, W \cup {o})
  BY <1>1, <1>2 DEF Alike
<1>3. a.ok /\ b.ok /\ d.ok /\ SameSettings(a, b, W) /\ SameOptions(a, b) /\ RangeKnown(b, W)
  BY <1>1, <1>2 DEF Alike
<1>4. SameOptions(c, d)
  BY <1>1, <1>2, <1>3 DEF SameOptions, Differ, Fields
<1>5. c.range_request = a.range_request
  BY <1>1 DEF Differ, Fields
<1>6. SameSettings(c, d, W \cup {o})
  BY <1>1, <1>2, <1>3, <1>5 DEF SameSettings
<1>7. RangeKnown(d, W \cup {o})
  BY <1>2, <1>3 DEF RangeKnown, Differ, Fields
<1> QED BY <1>3, <1>4, <1>6, <1>7

\* The registry, part by part.
Entry(e, name, type, o) == e.name = name /\ e.type = type /\ e.opt = o

LEMMA OptIs == \A e, name, type, o, def : e = Opt(name, type, o, def) => Entry(e, name, type, o)
BY DEF Entry, Opt

\* A sequence of m and n elements, those of s and of t.
Follows(st, s, m, t, n) ==
  /\ Len(st) = m + n
  /\ \A i \in 1 .. m : st[i] = s[i]
  /\ \A i \in 1 .. n : st[m + i] = t[i]

LEMMA ConcatFollows ==
  ASSUME NEW S, NEW s, s \in Seq(S), NEW t, t \in Seq(S), NEW m, m = Len(s), NEW n, n = Len(t)
  PROVE  s \o t \in Seq(S) /\ Follows(s \o t, s, m, t, n)
<1> m \in Nat /\ n \in Nat
  OBVIOUS
<1>1. /\ s \o t \in Seq(S) /\ Len(s \o t) = m + n
      /\ \A i \in 1 .. m + n : (s \o t)[i] = IF i <= m THEN s[i] ELSE t[i - m]
  BY ConcatProperties
<1> DEFINE st == s \o t
<1> HIDE DEF st
<1>2. \A i \in 1 .. m : st[i] = s[i]
  BY <1>1 DEF st
<1>3. ASSUME NEW i \in 1 .. n PROVE st[m + i] = t[i]
  <2>1. m + i \in 1 .. m + n /\ ~(m + i <= m) /\ (m + i) - m = i
    OBVIOUS
  <2> QED BY <1>1, <2>1 DEF st
<1>4. Follows(st, s, m, t, n)
  BY <1>1, <1>2, <1>3 DEF st, Follows
<1> QED BY <1>1, <1>4 DEF st

LEMMA RegistryParts ==
  /\ Len(Registry) = 23 /\ DOMAIN Registry = 1 .. 23
  /\ \A i \in 1 .. 6 : Registry[i] = ConnectionOptions[i]
  /\ \A i \in 1 .. 14 : Registry[6 + i] = RequestOptions[i]
  /\ \A i \in 1 .. 3 : Registry[20 + i] = LastOptions[i]
<1> DEFINE C == ConnectionOptions
           R == RequestOptions
           L == LastOptions
           S == Range(C) \cup Range(R) \cup Range(L)
<1>1. Len(C) = 6 /\ C \in Seq(Range(C))
  <2>1. Len(C) = 6 /\ DOMAIN C = 1 .. 6 /\ C = [i \in 1 .. 6 |-> C[i]]
    BY DEF ConnectionOptions
  <2> HIDE DEF C
  <2>2. \A i \in 1 .. 6 : C[i] \in Range(C)
    BY <2>1 DEF Range
  <2> QED BY <2>1, <2>2
<1>2. Len(R) = 14 /\ R \in Seq(Range(R))
  <2>1. Len(R) = 14 /\ DOMAIN R = 1 .. 14 /\ R = [i \in 1 .. 14 |-> R[i]]
    BY DEF RequestOptions
  <2> HIDE DEF R
  <2>2. \A i \in 1 .. 14 : R[i] \in Range(R)
    BY <2>1 DEF Range
  <2> QED BY <2>1, <2>2
<1>3. Len(L) = 3 /\ L \in Seq(Range(L))
  <2>1. Len(L) = 3 /\ DOMAIN L = 1 .. 3 /\ L = [i \in 1 .. 3 |-> L[i]]
    BY DEF LastOptions
  <2> HIDE DEF L
  <2>2. \A i \in 1 .. 3 : L[i] \in Range(L)
    BY <2>1 DEF Range
  <2> QED BY <2>1, <2>2
<1>4. Registry = (C \o R) \o L
  BY DEF Registry
<1> HIDE DEF C, R, L
<1>5. C \in Seq(S) /\ R \in Seq(S) /\ L \in Seq(S)
  BY <1>1, <1>2, <1>3
<1> HIDE DEF S
<1>6. C \o R \in Seq(S) /\ Follows(C \o R, C, 6, R, 14)
  BY <1>1, <1>2, <1>5, ConcatFollows
<1> DEFINE CR == C \o R
<1>7. Len(CR) = 20
  BY <1>6 DEF Follows
<1> HIDE DEF CR
<1>8. CR \o L \in Seq(S) /\ Follows(CR \o L, CR, 20, L, 3)
  <2>1. CR \in Seq(S)
    BY <1>6 DEF CR
  <2> QED BY <1>3, <1>5, <1>7, <2>1, ConcatFollows
<1>9. Registry \in Seq(S) /\ Follows(Registry, CR, 20, L, 3) /\ Follows(CR, C, 6, R, 14)
  BY <1>4, <1>6, <1>8 DEF CR
<1> HIDE <1>4, <1>6, <1>8
<1>10. Len(Registry) = 23 /\ DOMAIN Registry = 1 .. 23
  <2>1. Len(Registry) = 23
    BY <1>9 DEF Follows
  <2> QED BY <1>9, <2>1
<1>11. \A i \in 1 .. 6 : Registry[i] = C[i]
  BY <1>9, SMTT(60) DEF Follows
<1>12. ASSUME NEW i \in 1 .. 14 PROVE Registry[6 + i] = R[i]
  <2>1. 6 + i \in 1 .. 20
    OBVIOUS
  <2> QED BY <1>9, <2>1 DEF Follows
<1>13. \A i \in 1 .. 3 : Registry[20 + i] = L[i]
  BY <1>9 DEF Follows
<1> QED BY <1>10, <1>11, <1>12, <1>13 DEF C, R, L

LEMMA RegistryIs ==
  /\ Entry(Registry[1], "proxyhost", "string", "PROXY")
  /\ Entry(Registry[2], "proxyheader", "setter", "PROXYHEADER")
  /\ Entry(Registry[3], "unix_socket_path", "path", "UNIX_SOCKET_PATH")
  /\ Entry(Registry[4], "resolve", "setter", "RESOLVE")
  /\ Entry(Registry[5], "portrange", "setter", "LOCALPORT")
  /\ Entry(Registry[6], "httpauth", "string", "USERPWD")
  /\ Entry(Registry[7], "redirect", "setter", "FOLLOWLOCATION")
  /\ Entry(Registry[8], "retrycount", "setter", "")
  /\ Entry(Registry[9], "retrydelay", "setter", "")
  /\ Entry(Registry[10], "autoreferer", "bool", "AUTOREFERER")
  /\ Entry(Registry[11], "resume", "setter", "RESUME_FROM")
  /\ Entry(Registry[12], "range", "setter", "RANGE")
  /\ Entry(Registry[13], "etag", "setter", "")
  /\ Entry(Registry[14], "compress", "setter", "")
  /\ Entry(Registry[15], "lastmodified", "setter", "")
  /\ Entry(Registry[16], "encodecookies", "setter", "")
  /\ Entry(Registry[17], "cookies", "setter", "")
  /\ Entry(Registry[18], "cookiestore", "setter", "")
  /\ Entry(Registry[19], "protocol", "long", "HTTP_VERSION")
  /\ Entry(Registry[20], "timeout", "double", "TIMEOUT_MS")
  /\ Entry(Registry[21], "ssl", "sub", "")
  /\ Entry(Registry[22], "proxy_ssl", "sub", "")
  /\ Entry(Registry[23], "altsvc_ctrl", "setter", "ALTSVC_CTRL")
<1>1. /\ ConnectionOptions[1] = Opt("proxyhost", "string", "PROXY", "")
      /\ ConnectionOptions[2] = Opt("proxyheader", "setter", "PROXYHEADER", <<>>)
      /\ ConnectionOptions[3] = Opt("unix_socket_path", "path", "UNIX_SOCKET_PATH", "")
      /\ ConnectionOptions[4] = Opt("resolve", "setter", "RESOLVE", <<>>)
      /\ ConnectionOptions[5] = Opt("portrange", "setter", "LOCALPORT", <<>>)
      /\ ConnectionOptions[6] = Opt("httpauth", "string", "USERPWD", "")
  BY DEF ConnectionOptions
<1>2. /\ RequestOptions[1] = Opt("redirect", "setter", "FOLLOWLOCATION", 0)
      /\ RequestOptions[2] = Opt("retrycount", "setter", "", 0)
      /\ RequestOptions[3] = Opt("retrydelay", "setter", "", 0)
      /\ RequestOptions[4] = Opt("autoreferer", "bool", "AUTOREFERER", TRUE)
      /\ RequestOptions[5] = Opt("resume", "setter", "RESUME_FROM", 0)
      /\ RequestOptions[6] = Opt("range", "setter", "RANGE", <<>>)
      /\ RequestOptions[7] = Opt("etag", "setter", "", "")
      /\ RequestOptions[8] = Opt("compress", "setter", "", FALSE)
      /\ RequestOptions[9] = Opt("lastmodified", "setter", "", 0)
      /\ RequestOptions[10] = Opt("encodecookies", "setter", "", TRUE)
      /\ RequestOptions[11] = Opt("cookies", "setter", "", Empty)
      /\ RequestOptions[12] = Opt("cookiestore", "setter", "", "")
      /\ RequestOptions[13] = Opt("protocol", "long", "HTTP_VERSION", 0)
      /\ RequestOptions[14] = Opt("timeout", "double", "TIMEOUT_MS", 0)
  BY DEF RequestOptions
<1>3. /\ LastOptions[1] = Opt("ssl", "sub", "", Empty)
      /\ LastOptions[2] = Opt("proxy_ssl", "sub", "", Empty)
      /\ LastOptions[3] = Opt("altsvc_ctrl", "setter", "ALTSVC_CTRL", 0)
  BY DEF LastOptions
<1>4. /\ Registry[1] = ConnectionOptions[1] /\ Registry[2] = ConnectionOptions[2]
      /\ Registry[3] = ConnectionOptions[3] /\ Registry[4] = ConnectionOptions[4]
      /\ Registry[5] = ConnectionOptions[5] /\ Registry[6] = ConnectionOptions[6]
  BY RegistryParts
<1>5. /\ Registry[7] = RequestOptions[1] /\ Registry[8] = RequestOptions[2]
      /\ Registry[9] = RequestOptions[3] /\ Registry[10] = RequestOptions[4]
      /\ Registry[11] = RequestOptions[5] /\ Registry[12] = RequestOptions[6]
      /\ Registry[13] = RequestOptions[7] /\ Registry[14] = RequestOptions[8]
      /\ Registry[15] = RequestOptions[9] /\ Registry[16] = RequestOptions[10]
      /\ Registry[17] = RequestOptions[11] /\ Registry[18] = RequestOptions[12]
      /\ Registry[19] = RequestOptions[13] /\ Registry[20] = RequestOptions[14]
  <2>1. \A i \in 1 .. 14 : Registry[6 + i] = RequestOptions[i]
    BY RegistryParts
  <2> QED BY <2>1
<1>6. /\ Registry[21] = LastOptions[1] /\ Registry[22] = LastOptions[2]
      /\ Registry[23] = LastOptions[3]
  <2>1. \A i \in 1 .. 3 : Registry[20 + i] = LastOptions[i]
    BY RegistryParts
  <2> QED BY <2>1
<1>7. /\ Entry(Registry[1], "proxyhost", "string", "PROXY")
      /\ Entry(Registry[2], "proxyheader", "setter", "PROXYHEADER")
      /\ Entry(Registry[3], "unix_socket_path", "path", "UNIX_SOCKET_PATH")
      /\ Entry(Registry[4], "resolve", "setter", "RESOLVE")
      /\ Entry(Registry[5], "portrange", "setter", "LOCALPORT")
      /\ Entry(Registry[6], "httpauth", "string", "USERPWD")
  BY <1>1, <1>4, OptIs
<1>8. /\ Entry(Registry[7], "redirect", "setter", "FOLLOWLOCATION")
      /\ Entry(Registry[8], "retrycount", "setter", "")
      /\ Entry(Registry[9], "retrydelay", "setter", "")
      /\ Entry(Registry[10], "autoreferer", "bool", "AUTOREFERER")
      /\ Entry(Registry[11], "resume", "setter", "RESUME_FROM")
      /\ Entry(Registry[12], "range", "setter", "RANGE")
      /\ Entry(Registry[13], "etag", "setter", "")
      /\ Entry(Registry[14], "compress", "setter", "")
      /\ Entry(Registry[15], "lastmodified", "setter", "")
      /\ Entry(Registry[16], "encodecookies", "setter", "")
      /\ Entry(Registry[17], "cookies", "setter", "")
      /\ Entry(Registry[18], "cookiestore", "setter", "")
      /\ Entry(Registry[19], "protocol", "long", "HTTP_VERSION")
      /\ Entry(Registry[20], "timeout", "double", "TIMEOUT_MS")
  <2>1. /\ Entry(Registry[7], "redirect", "setter", "FOLLOWLOCATION")
        /\ Entry(Registry[8], "retrycount", "setter", "")
        /\ Entry(Registry[9], "retrydelay", "setter", "")
        /\ Entry(Registry[10], "autoreferer", "bool", "AUTOREFERER")
        /\ Entry(Registry[11], "resume", "setter", "RESUME_FROM")
        /\ Entry(Registry[12], "range", "setter", "RANGE")
        /\ Entry(Registry[13], "etag", "setter", "")
    BY <1>2, <1>5, OptIs, ZenonT(60)
  <2>2. /\ Entry(Registry[14], "compress", "setter", "")
        /\ Entry(Registry[15], "lastmodified", "setter", "")
        /\ Entry(Registry[16], "encodecookies", "setter", "")
        /\ Entry(Registry[17], "cookies", "setter", "")
        /\ Entry(Registry[18], "cookiestore", "setter", "")
        /\ Entry(Registry[19], "protocol", "long", "HTTP_VERSION")
        /\ Entry(Registry[20], "timeout", "double", "TIMEOUT_MS")
    BY <1>2, <1>5, OptIs, ZenonT(60)
  <2> QED BY <2>1, <2>2
<1>9. /\ Entry(Registry[21], "ssl", "sub", "")
      /\ Entry(Registry[22], "proxy_ssl", "sub", "")
      /\ Entry(Registry[23], "altsvc_ctrl", "setter", "ALTSVC_CTRL")
  BY <1>3, <1>6, OptIs
<1> QED BY <1>7, <1>8, <1>9

LEMMA SslIs ==
  /\ Len(SslOptions) = 3 /\ DOMAIN SslOptions = 1 .. 3
  /\ Entry(SslOptions[1], "cert", "path", "SSLCERT")
  /\ Entry(SslOptions[2], "verifypeer", "bool", "SSL_VERIFYPEER")
  /\ Entry(SslOptions[3], "verifyhost", "setter", "SSL_VERIFYHOST")
<1>1. /\ SslOptions[1] = Opt("cert", "path", "SSLCERT", "")
      /\ SslOptions[2] = Opt("verifypeer", "bool", "SSL_VERIFYPEER", TRUE)
      /\ SslOptions[3] = Opt("verifyhost", "setter", "SSL_VERIFYHOST", TRUE)
  BY DEF SslOptions
<1>2. Len(SslOptions) = 3 /\ DOMAIN SslOptions = 1 .. 3
  BY DEF SslOptions
<1> QED BY <1>1, <1>2, OptIs

LEMMA ProxySslIs ==
  /\ Len(ProxySslOptions) = 1 /\ DOMAIN ProxySslOptions = 1 .. 1
  /\ Entry(ProxySslOptions[1], "verifypeer", "bool", "PROXY_SSL_VERIFYPEER")
<1>1. ProxySslOptions[1] = Opt("verifypeer", "bool", "PROXY_SSL_VERIFYPEER", TRUE)
  BY DEF ProxySslOptions
<1>2. Len(ProxySslOptions) = 1 /\ DOMAIN ProxySslOptions = 1 .. 1
  BY DEF ProxySslOptions
<1> QED BY <1>1, <1>2, OptIs

\* Settings: those of the driver itself, of setters, and of options that need none.
DriverSettings ==
  {"URL", "METHOD", "CUSTOMREQUEST", "HTTPHEADER", "READDATA", "INFILESIZE", "SHARE", "VERBOSE"}
SetterSettings ==
  {"FOLLOWLOCATION", "MAXREDIRS", "RESUME_FROM", "RANGE", "ACCEPT_ENCODING", "TIMEVALUE",
   "TIMECONDITION", "COOKIE", "COOKIEFILE", "COOKIEJAR", "LOCALPORT", "LOCALPORTRANGE",
   "PROXYHEADER", "HEADEROPT", "RESOLVE", "ALTSVC_CTRL", "SSL_VERIFYHOST"}
PlainSettings == {"PROXY", "UNIX_SOCKET_PATH", "USERPWD", "AUTOREFERER", "HTTP_VERSION", "TIMEOUT_MS"}
SubSettings(n) == {SubOptions[n][i].opt : i \in DOMAIN SubOptions[n]}

LEMMA SubSettingsAre ==
  /\ DOMAIN SubOptions = {"ssl", "proxy_ssl"}
  /\ SubOptions["ssl"] = SslOptions /\ SubOptions["proxy_ssl"] = ProxySslOptions
  /\ SubSettings("ssl") = {"SSLCERT", "SSL_VERIFYPEER", "SSL_VERIFYHOST"}
  /\ SubSettings("proxy_ssl") = {"PROXY_SSL_VERIFYPEER"}
<1>1. /\ SubOptions["ssl"] = SslOptions /\ SubOptions["proxy_ssl"] = ProxySslOptions
      /\ DOMAIN SubOptions = {"ssl", "proxy_ssl"}
  BY DEF SubOptions
<1>2. {SslOptions[i].opt : i \in DOMAIN SslOptions} = {"SSLCERT", "SSL_VERIFYPEER", "SSL_VERIFYHOST"}
  <2>1. /\ SslOptions[1].opt = "SSLCERT" /\ SslOptions[2].opt = "SSL_VERIFYPEER"
        /\ SslOptions[3].opt = "SSL_VERIFYHOST"
    BY SslIs DEF Entry
  <2>2. DOMAIN SslOptions = 1 .. 3
    BY SslIs
  <2> QED BY <2>1, <2>2
<1>3. {ProxySslOptions[i].opt : i \in DOMAIN ProxySslOptions} = {"PROXY_SSL_VERIFYPEER"}
  BY ProxySslIs DEF Entry
<1> QED BY <1>1, <1>2, <1>3 DEF SubSettings

LEMMA SettingsAre ==
  Settings = DriverSettings \cup SetterSettings \cup PlainSettings
               \cup SubSettings("ssl") \cup SubSettings("proxy_ssl")
<1> DEFINE RegistrySettings == {Registry[i].opt : i \in {j \in DOMAIN Registry : Registry[j].opt # ""}}
<1>1. /\ RegistrySettings \subseteq SetterSettings \cup PlainSettings
      /\ PlainSettings \subseteq RegistrySettings
  <2>1. /\ Registry[1].opt = "PROXY" /\ Registry[2].opt = "PROXYHEADER"
        /\ Registry[3].opt = "UNIX_SOCKET_PATH" /\ Registry[4].opt = "RESOLVE"
        /\ Registry[5].opt = "LOCALPORT" /\ Registry[6].opt = "USERPWD"
        /\ Registry[7].opt = "FOLLOWLOCATION" /\ Registry[8].opt = "" /\ Registry[9].opt = ""
        /\ Registry[10].opt = "AUTOREFERER" /\ Registry[11].opt = "RESUME_FROM"
        /\ Registry[12].opt = "RANGE" /\ Registry[13].opt = "" /\ Registry[14].opt = ""
        /\ Registry[15].opt = "" /\ Registry[16].opt = "" /\ Registry[17].opt = ""
        /\ Registry[18].opt = "" /\ Registry[19].opt = "HTTP_VERSION"
        /\ Registry[20].opt = "TIMEOUT_MS" /\ Registry[21].opt = "" /\ Registry[22].opt = ""
        /\ Registry[23].opt = "ALTSVC_CTRL"
    BY RegistryIs, ZenonT(60) DEF Entry
  <2>2. DOMAIN Registry = 1 .. 23
    BY RegistryParts
  <2>3. ASSUME NEW i \in 1 .. 23, Registry[i].opt # ""
        PROVE  Registry[i].opt \in SetterSettings \cup PlainSettings
    <3> HIDE DEF RegistrySettings
    <3>1. \/ i = 1 \/ i = 2 \/ i = 3 \/ i = 4 \/ i = 5
          \/ i = 6 \/ i = 7 \/ i = 8 \/ i = 9
          \/ i = 10 \/ i = 11 \/ i = 12 \/ i = 13
          \/ i = 14 \/ i = 15 \/ i = 16 \/ i = 17 \/ i = 18
          \/ i = 19 \/ i = 20 \/ i = 21 \/ i = 22 \/ i = 23
      OBVIOUS
    <3> DEFINE X == SetterSettings \cup PlainSettings
    <3> SUFFICES Registry[i].opt \in X
      OBVIOUS
    <3>2. /\ "PROXY" \in X /\ "PROXYHEADER" \in X /\ "UNIX_SOCKET_PATH" \in X /\ "RESOLVE" \in X
          /\ "LOCALPORT" \in X /\ "USERPWD" \in X /\ "FOLLOWLOCATION" \in X
          /\ "AUTOREFERER" \in X /\ "RESUME_FROM" \in X /\ "RANGE" \in X
          /\ "HTTP_VERSION" \in X /\ "TIMEOUT_MS" \in X /\ "ALTSVC_CTRL" \in X
      BY DEF SetterSettings, PlainSettings
    <3> HIDE DEF X
    <3>3. CASE i = 1 \/ i = 2 \/ i = 3 \/ i = 4 \/ i = 5
      BY <2>1, <2>3, <3>2, <3>3, ZenonT(60)
    <3>4. CASE i = 6 \/ i = 7 \/ i = 8 \/ i = 9
      BY <2>1, <2>3, <3>2, <3>4, ZenonT(60)
    <3>5. CASE i = 10 \/ i = 11 \/ i = 12 \/ i = 13
      BY <2>1, <2>3, <3>2, <3>5, ZenonT(60)
    <3>6. CASE i = 14 \/ i = 15 \/ i = 16 \/ i = 17 \/ i = 18
      BY <2>1, <2>3, <3>2, <3>6, ZenonT(60)
    <3>7. CASE i = 19 \/ i = 20 \/ i = 21 \/ i = 22 \/ i = 23
      BY <2>1, <2>3, <3>2, <3>7, ZenonT(60)
    <3> QED BY <3>1, <3>3, <3>4, <3>5, <3>6, <3>7
  <2>4. PlainSettings \subseteq RegistrySettings
    <3>1. ASSUME NEW i \in 1 .. 23, Registry[i].opt # "" PROVE Registry[i].opt \in RegistrySettings
      <4>1. i \in {j \in DOMAIN Registry : Registry[j].opt # ""}
        BY <2>2, <3>1
      <4> QED BY <4>1
    <3> HIDE DEF RegistrySettings
    <3>2. 1 \in 1 .. 23 /\ 3 \in 1 .. 23 /\ 6 \in 1 .. 23 /\ 10 \in 1 .. 23 /\ 19 \in 1 .. 23
          /\ 20 \in 1 .. 23
      OBVIOUS
    <3>3. /\ "PROXY" \in RegistrySettings /\ "UNIX_SOCKET_PATH" \in RegistrySettings
          /\ "USERPWD" \in RegistrySettings /\ "AUTOREFERER" \in RegistrySettings
          /\ "HTTP_VERSION" \in RegistrySettings /\ "TIMEOUT_MS" \in RegistrySettings
      BY <2>1, <2>3, <3>1, <3>2, ZenonT(60)
    <3> QED BY <3>3 DEF PlainSettings
  <2> QED BY <2>2, <2>3, <2>4
<1>2. UNION {SubSettings(n) : n \in DOMAIN SubOptions} = SubSettings("ssl") \cup SubSettings("proxy_ssl")
  BY SubSettingsAre
<1>3. Settings = DriverSettings \cup SetterSettings \cup RegistrySettings
                   \cup UNION {SubSettings(n) : n \in DOMAIN SubOptions}
  BY DEF Settings, DriverSettings, SetterSettings, SubSettings
<1> QED BY <1>1, <1>2, <1>3

\* A field of a handler is assigned.
FieldIs(f, v) ==
  /\ f = "easy" => v = [o \in Settings |-> v[o]]
  /\ f = "st" => v = [url |-> v.url, cookiestore |-> v.cookiestore]
  /\ f = "retry" => v = [count |-> v.count, delay |-> v.delay]
  /\ f \in {"cookies", "ranges"} => IsText(v)
  /\ f \in {"ok", "range_request"} => v \in BOOLEAN

Assigned(s, f, v) == [s EXCEPT ![f] = v]

LEMMA UpdateIs ==
  ASSUME NEW s, IsHandler(s), NEW f \in Fields, NEW v, FieldIs(f, v)
  PROVE  LET t == Assigned(s, f, v)
         IN  IsHandler(t) /\ Differ(s, t, {f}) /\ t[f] = v
<1> DEFINE t == Assigned(s, f, v)
<1>0. t = [s EXCEPT ![f] = v]
  BY DEF Assigned
<1> HIDE DEF t
<1>1. s = [g \in Fields |-> s[g]]
  BY DEF IsHandler
<1>2. t = [g \in Fields |-> t[g]] /\ Differ(s, t, {f}) /\ t[f] = v
  BY <1>0, <1>1 DEF Differ
<1>3. \A g \in Fields : g # f => t[g] = s[g]
  BY <1>2 DEF Differ
<1>4. /\ FieldIs("easy", s.easy) /\ FieldIs("st", s.st) /\ FieldIs("retry", s.retry)
      /\ FieldIs("cookies", s.cookies) /\ FieldIs("ranges", s.ranges)
      /\ FieldIs("ok", s.ok) /\ FieldIs("range_request", s.range_request)
  BY DEF IsHandler, FieldIs
<1>5. /\ FieldIs("easy", t.easy) /\ FieldIs("st", t.st) /\ FieldIs("retry", t.retry)
      /\ FieldIs("cookies", t.cookies) /\ FieldIs("ranges", t.ranges)
      /\ FieldIs("ok", t.ok) /\ FieldIs("range_request", t.range_request)
  BY <1>2, <1>3, <1>4 DEF Fields
<1>6. IsHandler(t)
  BY <1>2, <1>5 DEF IsHandler, FieldIs
<1> QED BY <1>2, <1>6 DEF t

\* Both handlers, as far as they are alike.
Both(a, b, W) == IsHandler(a) /\ IsHandler(b) /\ Alike(a, b, W)

LEMMA SetoptBoth ==
  ASSUME NEW a, NEW b, NEW W \in SUBSET Settings, Both(a, b, W), NEW o \in Settings, NEW v
  PROVE  Both(setopt(a, o, v), setopt(b, o, v), W \cup {o})
BY SetoptAlike DEF Both

\* Nothing is claimed of a setting to which different values are given.
LEMMA SetoptApart ==
  ASSUME NEW a, NEW b, NEW W \in SUBSET Settings, Both(a, b, W), NEW o \in Settings \ W, NEW v, NEW w,
         <<o, w>> \notin Rejected, NEW c, c = setopt(a, o, v), NEW d, d = setopt(b, o, w)
  PROVE  /\ Both(c, d, W)
         /\ o \in Late /\ a.range_request => Both(c, d, W \cup {o})
<1>1. /\ IsHandler(c) /\ Differ(a, c, {"easy", "ok"})
      /\ c.ok <=> a.ok /\ <<o, v>> \notin Rejected
      /\ c.ok => c.easy[o] = v /\ \A p \in Settings \ {o} : c.easy[p] = a.easy[p]
  BY SetoptIs DEF Both
<1>2. /\ IsHandler(d) /\ Differ(b, d, {"easy", "ok"})
      /\ d.ok <=> b.ok /\ <<o, w>> \notin Rejected
      /\ d.ok => d.easy[o] = w /\ \A p \in Settings \ {o} : d.easy[p] = b.easy[p]
  BY SetoptIs DEF Both
<1>3. CASE ~c.ok
  BY <1>1, <1>2, <1>3 DEF Both, Alike
<1>4. CASE c.ok
  <2>1. a.ok /\ b.ok /\ d.ok /\ SameSettings(a, b, W) /\ SameOptions(a, b)
    BY <1>1, <1>2, <1>4 DEF Both, Alike
  <2>2. SameOptions(c, d)
    BY <1>1, <1>2, <2>1 DEF SameOptions, Differ, Fields
  <2>3. c.range_request = a.range_request
    BY <1>1 DEF Differ, Fields
  <2>4. SameSettings(c, d, W) /\ RangeKnown(b, W)
    BY <1>1, <1>2, <1>4, <2>1, <2>3 DEF SameSettings, Both, Alike
  <2>5. o \in Late /\ a.range_request => SameSettings(c, d, W \cup {o})
    BY <2>3, <2>4 DEF SameSettings
  <2>6. RangeKnown(d, W) /\ RangeKnown(d, W \cup {o})
    BY <1>2, <2>4 DEF RangeKnown, Differ, Fields
  <2> QED BY <1>1, <1>2, <2>1, <2>2, <2>4, <2>5, <2>6 DEF Both, Alike
<1> QED BY <1>3, <1>4

\* An option that setters build upon is assigned on both.
LEMMA UpdateBoth ==
  ASSUME NEW a, NEW b, NEW W \in SUBSET Settings, Both(a, b, W),
         NEW f \in Fields \ {"easy", "ok", "range_request"}, NEW v, NEW w, FieldIs(f, v), FieldIs(f, w),
         f = "ranges" => w.data = <<>> \/ "RANGE" \in W,
         \/ v = w
         \/ f = "ranges"
         \/ f = "cookies" /\ (a.ok => SameText(v, w))
         \/ f = "headers" /\ (a.ok => a.range_request \/ v = w)
         \/ f \in {"st", "retry", "resolve", "proxyheaders"} /\ (a.ok => v = w)
  PROVE  Both(Assigned(a, f, v), Assigned(b, f, w), W)
<1> DEFINE c == Assigned(a, f, v)
           d == Assigned(b, f, w)
<1>0. IsHandler(a) /\ IsHandler(b) /\ f \in Fields
  BY DEF Both
<1>1. IsHandler(c) /\ Differ(a, c, {f}) /\ c[f] = v
  BY <1>0, UpdateIs
<1>2. IsHandler(d) /\ Differ(b, d, {f}) /\ d[f] = w
  BY <1>0, UpdateIs
<1> HIDE DEF c, d
<1>3. c.ok = a.ok /\ d.ok = b.ok /\ c.easy = a.easy /\ d.easy = b.easy
      /\ c.range_request = a.range_request /\ d.range_request = b.range_request
  BY <1>1, <1>2 DEF Differ, Fields
<1>4. ASSUME a.ok PROVE Alike(c, d, W)
  <2>1. b.ok /\ SameSettings(a, b, W) /\ SameOptions(a, b) /\ RangeKnown(b, W)
    BY <1>4 DEF Both, Alike
  <2>2. SameSettings(c, d, W)
    BY <1>3, <2>1 DEF SameSettings
  <2>3. \A g \in Fields \ {f} : c[g] = a[g] /\ d[g] = b[g]
    BY <1>1, <1>2 DEF Differ
  <2>4. SameOptions(c, d)
    <3>1. \/ v = w
          \/ f = "ranges"
          \/ f = "cookies" /\ SameText(v, w)
          \/ f = "headers" /\ (a.range_request \/ v = w)
      BY <1>4
    <3>2. SameText(c.cookies, d.cookies)
      BY <1>1, <1>2, <2>1, <2>3, <3>1 DEF Fields, SameText, SameOptions
    <3>3. c.range_request \/ c.headers = d.headers
      BY <1>1, <1>2, <1>3, <2>1, <2>3, <3>1 DEF Fields, SameOptions
    <3>4. /\ c.st = d.st /\ c.resolve = d.resolve /\ c.retry = d.retry
          /\ c.redirects = d.redirects /\ c.encode_cookies = d.encode_cookies
          /\ c.proxyheaders = d.proxyheaders
      BY <1>1, <1>2, <2>1, <2>3, <3>1 DEF Fields, SameOptions
    <3> QED BY <1>3, <2>1, <3>2, <3>3, <3>4 DEF SameOptions
  <2>5. RangeKnown(d, W)
    BY <1>2, <2>1, <2>3 DEF RangeKnown, Fields
  <2> QED BY <1>3, <2>1, <2>2, <2>4, <2>5 DEF Alike
<1>5. ASSUME ~a.ok PROVE Alike(c, d, W)
  <2>1. ~c.ok
    BY <1>3, <1>5
  <2> QED BY <2>1 DEF Alike
<1>6. Alike(c, d, W)
  BY <1>4, <1>5
<1> QED BY <1>1, <1>2, <1>6 DEF Both, c, d

\* A handler makes a range request.
LEMMA RangeRequestBoth ==
  ASSUME NEW a, NEW b, NEW W \in SUBSET Settings, Both(a, b, W), NEW x \in BOOLEAN,
         NEW y, y = (a.range_request \/ x), NEW z, z = (b.range_request \/ x)
  PROVE  Both(Assigned(a, "range_request", y), Assigned(b, "range_request", z), W)
<1> DEFINE c == Assigned(a, "range_request", y)
           d == Assigned(b, "range_request", z)
<1>0. IsHandler(a) /\ IsHandler(b) /\ FieldIs("range_request", y) /\ FieldIs("range_request", z)
      /\ "range_request" \in Fields
  BY DEF Both, FieldIs, Fields, IsHandler
<1>1. IsHandler(c) /\ Differ(a, c, {"range_request"}) /\ c["range_request"] = y
  BY <1>0, UpdateIs
<1>2. IsHandler(d) /\ Differ(b, d, {"range_request"}) /\ d["range_request"] = z
  BY <1>0, UpdateIs
<1> HIDE DEF c, d
<1>3. /\ \A g \in Fields \ {"range_request"} : c[g] = a[g] /\ d[g] = b[g]
      /\ c.range_request = y /\ d.range_request = z
  BY <1>1, <1>2 DEF Differ
<1>4. ASSUME c.ok PROVE d.ok /\ SameSettings(c, d, W) /\ SameOptions(c, d) /\ RangeKnown(d, W)
  <2>1. b.ok /\ SameSettings(a, b, W) /\ SameOptions(a, b) /\ RangeKnown(b, W)
    BY <1>3, <1>4 DEF Both, Alike, Fields
  <2>2. SameSettings(c, d, W)
    BY <1>3, <2>1 DEF SameSettings, Fields
  <2>3. SameOptions(c, d)
    BY <1>3, <2>1 DEF SameOptions, Fields
  <2> QED BY <1>3, <2>1, <2>2, <2>3 DEF RangeKnown, Fields
<1> QED BY <1>1, <1>2, <1>4 DEF Both, Alike, c, d

\* Where the settings are.
LEMMA SetterSettingsIn == SetterSettings \subseteq Settings /\ PlainSettings \subseteq Settings
BY SettingsAre

\* libcurl is given two settings, the same on both.
LEMMA SetoptTwice ==
  ASSUME NEW a, NEW b, NEW W \in SUBSET Settings, Both(a, b, W),
         NEW o \in Settings, NEW v, NEW p \in Settings, NEW w
  PROVE  Both(setopt(setopt(a, o, v), p, w), setopt(setopt(b, o, v), p, w), W \cup {o, p})
<1>1. Both(setopt(a, o, v), setopt(b, o, v), W \cup {o}) /\ W \cup {o} \in SUBSET Settings
  BY SetoptBoth
<1>2. Both(setopt(setopt(a, o, v), p, w), setopt(setopt(b, o, v), p, w), (W \cup {o}) \cup {p})
  BY <1>1, SetoptBoth
<1>3. (W \cup {o}) \cup {p} = W \cup {o, p}
  OBVIOUS
<1> QED BY <1>2, <1>3

\* What is known of handlers that are alike.
LEMMA BothAre ==
  ASSUME NEW a, NEW b, NEW W, Both(a, b, W), a.ok
  PROVE  IsHandler(a) /\ IsHandler(b) /\ b.ok /\ SameOptions(a, b) /\ RangeKnown(b, W)
BY DEF Both, Alike

LEMMA redirectBoth ==
  ASSUME NEW a, NEW b, NEW W \in SUBSET Settings, Both(a, b, W), NEW v
  PROVE  Both(set_redirect(a, v), set_redirect(b, v), W \cup {"FOLLOWLOCATION", "MAXREDIRS"})
<1> DEFINE X == W \cup {"FOLLOWLOCATION", "MAXREDIRS"}
           c == setopt(setopt(a, "FOLLOWLOCATION", <<v # 0>>), "MAXREDIRS", <<v>>)
           d == setopt(setopt(b, "FOLLOWLOCATION", <<v # 0>>), "MAXREDIRS", <<v>>)
<1>1. Both(c, d, X)
  BY SetoptTwice, SetterSettingsIn DEF SetterSettings
<1>2. set_redirect(a, v) = Assigned(c, "redirects", v) /\ set_redirect(b, v) = Assigned(d, "redirects", v)
  BY DEF set_redirect, Assigned
<1>3. X \in SUBSET Settings
  BY SetterSettingsIn DEF SetterSettings
<1>4. FieldIs("redirects", v) /\ "redirects" \in Fields \ {"easy", "ok", "range_request"}
  BY DEF FieldIs, Fields
<1> HIDE DEF c, d, X
<1>5. Both(Assigned(c, "redirects", v), Assigned(d, "redirects", v), X)
  BY <1>1, <1>3, <1>4, UpdateBoth
<1> QED BY <1>2, <1>5 DEF X

LEMMA retryBoth ==
  ASSUME NEW a, NEW b, NEW W \in SUBSET Settings, Both(a, b, W), a.ok, NEW v
  PROVE  /\ Both(set_retrycount(a, v), set_retrycount(b, v), W)
         /\ Both(set_retrydelay(a, v), set_retrydelay(b, v), W)
<1> DEFINE r == [a.retry EXCEPT !.count = v]
           t == [a.retry EXCEPT !.delay = v]
<1>1. a.retry = b.retry
  BY BothAre DEF SameOptions
<1>2. FieldIs("retry", r) /\ FieldIs("retry", t) /\ "retry" \in Fields \ {"easy", "ok", "range_request"}
  <2>1. a.retry = [count |-> a.retry.count, delay |-> a.retry.delay]
    BY BothAre DEF IsHandler
  <2>2. r = [count |-> r.count, delay |-> r.delay] /\ t = [count |-> t.count, delay |-> t.delay]
    BY <2>1
  <2> QED BY <2>2 DEF FieldIs, Fields
<1>3. /\ set_retrycount(a, v) = Assigned(a, "retry", r)
      /\ set_retrydelay(a, v) = Assigned(a, "retry", t)
      /\ set_retrycount(b, v) = Assigned(b, "retry", r)
      /\ set_retrydelay(b, v) = Assigned(b, "retry", t)
  BY <1>1 DEF set_retrycount, set_retrydelay, Assigned
<1> HIDE DEF r, t
<1>4. /\ Both(Assigned(a, "retry", r), Assigned(b, "retry", r), W)
      /\ Both(Assigned(a, "retry", t), Assigned(b, "retry", t), W)
  BY <1>2, UpdateBoth
<1> QED BY <1>3, <1>4

LEMMA resumeBoth ==
  ASSUME NEW a, NEW b, NEW W \in SUBSET Settings, Both(a, b, W), NEW v
  PROVE  Both(set_resume(a, v), set_resume(b, v), W \cup {"RESUME_FROM"})
<1> DEFINE x == v > 0
           y == a.range_request \/ x
           z == b.range_request \/ x
           c == Assigned(a, "range_request", y)
           d == Assigned(b, "range_request", z)
<1>1. x \in BOOLEAN
  OBVIOUS
<1>2. set_resume(a, v) = setopt(c, "RESUME_FROM", <<v>>) /\ set_resume(b, v) = setopt(d, "RESUME_FROM", <<v>>)
  BY DEF set_resume, Assigned
<1> HIDE DEF x
<1>3. Both(c, d, W)
  BY <1>1, RangeRequestBoth
<1> HIDE DEF c, d
<1>4. Both(setopt(c, "RESUME_FROM", <<v>>), setopt(d, "RESUME_FROM", <<v>>), W \cup {"RESUME_FROM"})
  BY <1>3, SetoptBoth, SetterSettingsIn DEF SetterSettings
<1> QED BY <1>2, <1>4

\* A setting and an option of the handler that are made in either order.
LEMMA SetoptAssigned ==
  ASSUME NEW s, IsHandler(s), NEW f \in Fields \ {"easy", "ok"}, NEW v, NEW o, NEW w
  PROVE  setopt(Assigned(s, f, v), o, w) = Assigned(setopt(s, o, w), f, v)
<1>0. s = [g \in Fields |-> s[g]] /\ "easy" \in Fields /\ "ok" \in Fields /\ s.ok \in BOOLEAN
  BY DEF IsHandler, Fields
<1> DEFINE t == Assigned(s, f, v)
<1>1. t = [g \in Fields |-> IF g = f THEN v ELSE s[g]]
  BY <1>0 DEF Assigned
<1> HIDE DEF t
<1>2. t.ok = s.ok /\ t.easy = s.easy
  BY <1>0, <1>1
<1>3. CASE ~s.ok
  BY <1>2, <1>3 DEF setopt, t
<1>4. CASE s.ok /\ <<o, w>> \in Rejected
  <2>1. setopt(t, o, w) = [t EXCEPT !.ok = FALSE] /\ setopt(s, o, w) = [s EXCEPT !.ok = FALSE]
    BY <1>2, <1>4 DEF setopt
  <2>2. [t EXCEPT !.ok = FALSE] = [[s EXCEPT !.ok = FALSE] EXCEPT ![f] = v]
    BY <1>0, <1>1
  <2> QED BY <2>1, <2>2 DEF t, Assigned
<1>5. CASE s.ok /\ <<o, w>> \notin Rejected
  <2> DEFINE e == [s.easy EXCEPT ![o] = w]
  <2>1. setopt(t, o, w) = [t EXCEPT !.easy = e] /\ setopt(s, o, w) = [s EXCEPT !.easy = e]
    BY <1>2, <1>5 DEF setopt
  <2> HIDE DEF e
  <2>2. [t EXCEPT !.easy = e] = [[s EXCEPT !.easy = e] EXCEPT ![f] = v]
    BY <1>0, <1>1
  <2> QED BY <2>1, <2>2 DEF t, Assigned
<1> QED BY <1>3, <1>4, <1>5 DEF t

\* Ranges are given to a handler.
SetRange(s, rr, r) == [s EXCEPT !.ranges = r, !.range_request = rr]

LEMMA SetRangeIs ==
  ASSUME NEW s, IsHandler(s), NEW rr, NEW r
  PROVE  SetRange(s, rr, r) = Assigned(Assigned(s, "range_request", rr), "ranges", r)
<1>1. s = [g \in Fields |-> s[g]]
  BY DEF IsHandler
<1> QED BY <1>1 DEF SetRange, Assigned, Fields

\* Ranges without a text leave the setting what it was in an earlier use.
LEMMA noRangeBoth ==
  ASSUME NEW a, NEW b, NEW W \in SUBSET Settings, Both(a, b, W), a.ok, NEW v,
         RangesText(v) = <<>>, "RANGE" \notin W
  PROVE  Both(set_range(a, v), set_range(b, v), W)
<1> DEFINE ra == TextReset(a.ranges)
           rb == TextReset(b.ranges)
           y == a.range_request \/ FALSE
           z == b.range_request \/ FALSE
           c == Assigned(a, "range_request", y)
           d == Assigned(b, "range_request", z)
           e == Assigned(c, "ranges", ra)
           f == Assigned(d, "ranges", rb)
<1>1. IsHandler(a) /\ IsHandler(b) /\ b.ranges.data = <<>>
  BY BothAre DEF RangeKnown
<1>2. set_range(a, v) = setopt(SetRange(a, y, ra), "RANGE", Pointer(ra))
      /\ set_range(b, v) = setopt(SetRange(b, z, rb), "RANGE", Pointer(rb))
  BY DEF set_range, SetRange
<1>3. SetRange(a, y, ra) = e /\ SetRange(b, z, rb) = f
  BY <1>1, SetRangeIs
<1>4. FieldIs("ranges", ra) /\ FieldIs("ranges", rb) /\ rb.data = <<>> /\ Pointer(rb) = None
      /\ "ranges" \in Fields \ {"easy", "ok", "range_request"}
  <2>1. IsText(a.ranges) /\ IsText(b.ranges)
    BY <1>1 DEF IsHandler
  <2>2. IsText(ra) /\ IsText(rb) /\ rb.data = b.ranges.data
    BY <2>1 DEF IsText, TextReset
  <2> QED BY <1>1, <2>2 DEF FieldIs, Pointer, Fields
<1> HIDE DEF ra, rb
<1>5. Both(c, d, W)
  BY RangeRequestBoth
<1> HIDE DEF c, d
<1>6. Both(e, f, W)
  BY <1>4, <1>5, UpdateBoth
<1> HIDE DEF e, f
<1>7. Both(setopt(e, "RANGE", Pointer(ra)), setopt(f, "RANGE", None), W)
  <2>1. "RANGE" \in Settings \ W /\ <<"RANGE", None>> \notin Rejected
    BY SetterSettingsIn, TransferOptionsAssumption DEF SetterSettings
  <2> QED BY <1>6, <2>1, SetoptApart
<1> QED BY <1>2, <1>3, <1>4, <1>7

LEMMA someRangeBoth ==
  ASSUME NEW a, NEW b, NEW W \in SUBSET Settings, Both(a, b, W), a.ok, NEW v,
         RangesText(v) # <<>>
  PROVE  Both(set_range(a, v), set_range(b, v), W \cup {"RANGE"})
<1> DEFINE text == RangesText(v)
           X == W \cup {"RANGE"}
           r == [used |-> 0 + Len(text), data |-> Front(<<>> \o text)]
           y == a.range_request \/ TRUE
           z == b.range_request \/ TRUE
           c == Assigned(a, "range_request", y)
           d == Assigned(b, "range_request", z)
           e == setopt(c, "RANGE", Pointer(r))
           f == setopt(d, "RANGE", Pointer(r))
<1>1. IsHandler(a) /\ IsHandler(b)
  BY BothAre
<1>2. FieldIs("ranges", r) /\ "ranges" \in Fields \ {"easy", "ok", "range_request"}
  BY DEF FieldIs, IsText, Fields
<1>3. ASSUME NEW s, IsHandler(s)
      PROVE  [TextAppend(TextReset(s.ranges), text) EXCEPT !.data = Front(@)] = r
  <2>1. IsText(s.ranges)
    BY <1>3 DEF IsHandler
  <2>2. TextReset(s.ranges).used = 0 /\ TextReset(s.ranges).data = s.ranges.data
    BY <2>1 DEF IsText, TextReset
  <2> DEFINE m == s.ranges.data
  <2>3. SubSeq(m, 1, 0) = <<>>
    OBVIOUS
  <2>4. TextAppend(TextReset(s.ranges), text) = [used |-> 0 + Len(text), data |-> <<>> \o text]
    BY <2>2, <2>3 DEF TextAppend
  <2> QED BY <2>4
<1> HIDE DEF r
<1>4. set_range(a, v) = setopt(SetRange(a, y, r), "RANGE", Pointer(r))
      /\ set_range(b, v) = setopt(SetRange(b, z, r), "RANGE", Pointer(r))
  BY <1>1, <1>3 DEF set_range, SetRange
<1>5. Both(c, d, W)
  BY RangeRequestBoth
<1>6. SetRange(a, y, r) = Assigned(c, "ranges", r) /\ SetRange(b, z, r) = Assigned(d, "ranges", r)
  BY <1>1, SetRangeIs
<1> HIDE DEF c, d
<1>7. set_range(a, v) = Assigned(e, "ranges", r) /\ set_range(b, v) = Assigned(f, "ranges", r)
  <2>1. IsHandler(c) /\ IsHandler(d)
    BY <1>5 DEF Both
  <2> QED BY <1>2, <1>4, <1>6, <2>1, SetoptAssigned
<1>8. Both(e, f, X) /\ X \in SUBSET Settings
  BY <1>5, SetoptBoth, SetterSettingsIn DEF SetterSettings
<1> HIDE DEF e, f
<1>9. Both(Assigned(e, "ranges", r), Assigned(f, "ranges", r), X)
  BY <1>2, <1>8, UpdateBoth
<1> QED BY <1>7, <1>9

LEMMA etagBoth ==
  ASSUME NEW a, NEW b, NEW W \in SUBSET Settings, Both(a, b, W), a.ok, NEW v
  PROVE  Both(set_etag(a, v), set_etag(b, v), W)
<1>1. CASE v = ""
  BY <1>1 DEF set_etag
<1>2. CASE v # ""
  <2> DEFINE E(s) == <<IF s.range_request THEN "If-Match" ELSE "If-None-Match", v>>
             x == Append(a.headers, E(a))
             y == Append(b.headers, E(b))
  <2>1. set_etag(a, v) = Assigned(a, "headers", x) /\ set_etag(b, v) = Assigned(b, "headers", y)
    BY <1>2 DEF set_etag, Assigned
  <2>2. a.range_request \/ x = y
    <3>1. b.range_request => a.range_request
      BY BothAre DEF SameOptions
    <3>2. a.range_request \/ a.headers = b.headers
      BY BothAre DEF SameOptions
    <3> QED BY <3>1, <3>2
  <2>3. FieldIs("headers", x) /\ FieldIs("headers", y)
        /\ "headers" \in Fields \ {"easy", "ok", "range_request"}
    BY DEF FieldIs, Fields
  <2> HIDE DEF x, y
  <2>4. Both(Assigned(a, "headers", x), Assigned(b, "headers", y), W)
    BY <2>2, <2>3, UpdateBoth
  <2> QED BY <2>1, <2>4
<1> QED BY <1>1, <1>2

LEMMA compressBoth ==
  ASSUME NEW a, NEW b, NEW W \in SUBSET Settings, Both(a, b, W), NEW v
  PROVE  Both(set_compress(a, v), set_compress(b, v), W \cup {"ACCEPT_ENCODING"})
BY SetoptBoth, SetterSettingsIn DEF set_compress, SetterSettings

LEMMA lastmodifiedBoth ==
  ASSUME NEW a, NEW b, NEW W \in SUBSET Settings, Both(a, b, W), a.ok, NEW v, "TIMECONDITION" \notin W
  PROVE  Both(set_lastmodified(a, v), set_lastmodified(b, v), W \cup {"TIMEVALUE", "TIMECONDITION"})
<1>1. "TIMEVALUE" \in Settings /\ "TIMECONDITION" \in Settings /\ "TIMEVALUE" # "TIMECONDITION"
  BY SetterSettingsIn DEF SetterSettings
<1>2. CASE v = 0
  BY <1>1, <1>2, SetoptTwice DEF set_lastmodified
<1>3. CASE v # 0
  <2> DEFINE t == <<IF v > 0 THEN v ELSE RequestTime + v>>
             c == setopt(a, "TIMEVALUE", t)
             d == setopt(b, "TIMEVALUE", t)
             x == <<IF a.range_request THEN "IFUNMODSINCE" ELSE "IFMODSINCE">>
             y == <<IF b.range_request THEN "IFUNMODSINCE" ELSE "IFMODSINCE">>
             X == W \cup {"TIMEVALUE"}
             e == setopt(c, "TIMECONDITION", x)
             f == setopt(d, "TIMECONDITION", y)
  <2>1. set_lastmodified(a, v) = e /\ set_lastmodified(b, v) = f
    BY <1>3 DEF set_lastmodified
  <2>2. Both(c, d, X) /\ X \in SUBSET Settings /\ "TIMECONDITION" \notin X
    BY <1>1, SetoptBoth
  <2>3. b.range_request => a.range_request
    BY BothAre DEF SameOptions
  <2>4. c.range_request = a.range_request
    <3>1. IsHandler(a)
      BY BothAre
    <3>2. Differ(a, c, {"easy", "ok"})
      BY <1>1, <3>1, SetoptIs
    <3> HIDE DEF c
    <3> QED BY <3>2 DEF Differ, Fields
  <2> HIDE DEF c, d, e, f, X
  <2>5. Both(e, f, X \cup {"TIMECONDITION"})
    <3>1. CASE x = y
      BY <1>1, <2>2, <3>1, SetoptBoth DEF e, f
    <3>2. CASE x # y
      <4>1. a.range_request /\ y = <<"IFMODSINCE">>
        BY <2>3, <3>2
      <4>2. <<"TIMECONDITION", y>> \notin Rejected /\ "TIMECONDITION" \in Late
        BY <4>1, TransferOptionsAssumption DEF Late
      <4> HIDE DEF x, y
      <4>3. "TIMECONDITION" \in Settings \ X
        BY <1>1, <2>2
      <4> QED BY <2>2, <2>4, <4>1, <4>2, <4>3, SetoptApart DEF e, f
    <3> QED BY <3>1, <3>2
  <2>6. X \cup {"TIMECONDITION"} = W \cup {"TIMEVALUE", "TIMECONDITION"}
    BY DEF X
  <2> QED BY <2>1, <2>5, <2>6
<1> QED BY <1>2, <1>3

LEMMA encodecookiesBoth ==
  ASSUME NEW a, NEW b, NEW W \in SUBSET Settings, Both(a, b, W), NEW v
  PROVE  Both(set_encodecookies(a, v), set_encodecookies(b, v), W)
<1>1. /\ set_encodecookies(a, v) = Assigned(a, "encode_cookies", v)
      /\ set_encodecookies(b, v) = Assigned(b, "encode_cookies", v)
  BY DEF set_encodecookies, Assigned
<1>2. FieldIs("encode_cookies", v) /\ "encode_cookies" \in Fields \ {"easy", "ok", "range_request"}
  BY DEF FieldIs, Fields
<1> QED BY <1>1, <1>2, UpdateBoth

\* Cookies are appended to a text that is reset, not to what it held before.
LEMMA cookiesBoth ==
  ASSUME NEW a, NEW b, NEW W \in SUBSET Settings, Both(a, b, W), a.ok, NEW v
  PROVE  Both(set_cookies(a, v), set_cookies(b, v), W \cup {"COOKIE"})
<1>1. /\ IsText(a.cookies) /\ IsText(b.cookies) /\ SameText(a.cookies, b.cookies)
      /\ a.encode_cookies = b.encode_cookies
  <2>1. IsHandler(a) /\ IsHandler(b) /\ SameOptions(a, b)
    BY BothAre
  <2> QED BY <2>1 DEF IsHandler, SameOptions
<1>2. "cookies" \in Fields \ {"easy", "ok", "range_request"} /\ "COOKIE" \in Settings
  BY SetterSettingsIn DEF Fields, SetterSettings
<1>3. ASSUME NEW x, NEW y, IsText(x), IsText(y), SameText(x, y), NEW w
      PROVE  Both(setopt(Assigned(a, "cookies", x), "COOKIE", w),
                  setopt(Assigned(b, "cookies", y), "COOKIE", w), W \cup {"COOKIE"})
  <2>1. FieldIs("cookies", x) /\ FieldIs("cookies", y)
    BY <1>3 DEF FieldIs
  <2>2. Both(Assigned(a, "cookies", x), Assigned(b, "cookies", y), W)
    BY <1>2, <1>3, <2>1, UpdateBoth
  <2> QED BY <1>2, <2>2, SetoptBoth
<1>4. CASE v = Empty
  <2> DEFINE x == TextReset(a.cookies)
             y == TextReset(b.cookies)
  <2>1. set_cookies(a, v) = setopt(Assigned(a, "cookies", x), "COOKIE", None)
        /\ set_cookies(b, v) = setopt(Assigned(b, "cookies", y), "COOKIE", None)
    BY <1>4 DEF set_cookies, Assigned
  <2>2. IsText(x) /\ IsText(y) /\ SameText(x, y)
    BY <1>1 DEF IsText, TextReset, SameText
  <2> HIDE DEF x, y
  <2> QED BY <1>3, <2>1, <2>2
<1>5. CASE v # Empty
  <2> DEFINE l(s) == [i \in 1 .. Cardinality(DOMAIN v) |->
                       LET n == SetToSeq(DOMAIN v)[i] IN <<n, v[n], s.encode_cookies>>]
             k == l(a)
             x == TextAppend(a.cookies, k)
             y == TextAppend(b.cookies, k)
  <2>1. l(b) = k
    BY <1>1
  <2>2. set_cookies(a, v) = setopt(Assigned(a, "cookies", x), "COOKIE", <<x.data>>)
        /\ set_cookies(b, v) = setopt(Assigned(b, "cookies", y), "COOKIE", <<y.data>>)
    BY <1>5, <2>1 DEF set_cookies, Assigned
  <2> HIDE DEF k
  <2>3. IsText(x) /\ IsText(y) /\ x = y
    <3>1. SubSeq(a.cookies.data, 1, a.cookies.used) = SubSeq(b.cookies.data, 1, b.cookies.used)
          /\ a.cookies.used = b.cookies.used
      <4>1. CASE a.cookies.used = 0
        <5> DEFINE d == a.cookies.data
                   e == b.cookies.data
        <5>1. SubSeq(d, 1, 0) = <<>> /\ SubSeq(e, 1, 0) = <<>>
          OBVIOUS
        <5> QED BY <1>1, <4>1, <5>1 DEF SameText
      <4>2. CASE a.cookies.used # 0
        BY <1>1, <4>2 DEF SameText
      <4> QED BY <4>1, <4>2
    <3> QED BY <3>1 DEF TextAppend, IsText
  <2>4. SameText(x, y) /\ <<x.data>> = <<y.data>>
    BY <2>3 DEF SameText
  <2> HIDE DEF x, y
  <2> QED BY <1>3, <2>2, <2>3, <2>4
<1> QED BY <1>4, <1>5

LEMMA cookiestoreBoth ==
  ASSUME NEW a, NEW b, NEW W \in SUBSET Settings, Both(a, b, W), a.ok, NEW v
  PROVE  Both(set_cookiestore(a, v), set_cookiestore(b, v), W \cup {"COOKIEFILE", "COOKIEJAR"})
<1> DEFINE file == IF v = "" THEN None ELSE <<v>>
           st == [a.st EXCEPT !.cookiestore = file]
           c == Assigned(a, "st", st)
           d == Assigned(b, "st", st)
<1>1. a.st = b.st /\ a.st = [url |-> a.st.url, cookiestore |-> a.st.cookiestore]
  BY BothAre, ZenonT(60) DEF SameOptions, IsHandler
<1>2. set_cookiestore(a, v) = setopt(setopt(c, "COOKIEFILE", <<v>>), "COOKIEJAR", file)
      /\ set_cookiestore(b, v) = setopt(setopt(d, "COOKIEFILE", <<v>>), "COOKIEJAR", file)
  BY <1>1 DEF set_cookiestore, Assigned
<1>3. FieldIs("st", st) /\ "st" \in Fields \ {"easy", "ok", "range_request"}
  <2>1. st = [url |-> a.st.url, cookiestore |-> file]
    <3> DEFINE s == a.st
    <3>1. s = [url |-> s.url, cookiestore |-> s.cookiestore]
      BY <1>1
    <3> HIDE DEF s, file
    <3>2. [s EXCEPT !.cookiestore = file] = [url |-> s.url, cookiestore |-> file]
      BY <3>1
    <3> QED BY <3>2 DEF s
  <2> HIDE DEF file, st
  <2>2. st = [url |-> st.url, cookiestore |-> st.cookiestore]
    BY <2>1
  <2> QED BY <2>2 DEF FieldIs, Fields
<1> HIDE DEF st, file
<1>4. Both(c, d, W)
  BY <1>3, UpdateBoth
<1> HIDE DEF c, d
<1> QED BY <1>2, <1>4, SetoptTwice, SetterSettingsIn DEF SetterSettings

LEMMA portrangeBoth ==
  ASSUME NEW a, NEW b, NEW W \in SUBSET Settings, Both(a, b, W), NEW v
  PROVE  Both(set_portrange(a, v), set_portrange(b, v), W \cup {"LOCALPORT", "LOCALPORTRANGE"})
<1> DEFINE x == <<local_port(v)>>
           y == <<port_range(v)>>
<1>1. set_portrange(a, v) = setopt(setopt(a, "LOCALPORT", x), "LOCALPORTRANGE", y)
      /\ set_portrange(b, v) = setopt(setopt(b, "LOCALPORT", x), "LOCALPORTRANGE", y)
  BY DEF set_portrange
<1> HIDE DEF x, y
<1> QED BY <1>1, SetoptTwice, SetterSettingsIn DEF SetterSettings

LEMMA separateBoth ==
  ASSUME NEW a, NEW b, NEW W \in SUBSET Settings, Both(a, b, W)
  PROVE  Both(separate_headers(a), separate_headers(b), W \cup {"HEADEROPT"})
<1> DEFINE c == setopt(a, "HEADEROPT", <<"SEPARATE">>)
           d == setopt(b, "HEADEROPT", <<"SEPARATE">>)
           X == W \cup {"HEADEROPT"}
<1>1. "HEADEROPT" \in Settings /\ "PROXYHEADER" \in Settings
  BY SetterSettingsIn DEF SetterSettings
<1>2. Both(c, d, X)
  BY <1>1, SetoptBoth
<1>3. separate_headers(a) = (IF a.ok /\ ~c.ok THEN [c EXCEPT !.easy["PROXYHEADER"] = None] ELSE c)
      /\ separate_headers(b) = (IF b.ok /\ ~d.ok THEN [d EXCEPT !.easy["PROXYHEADER"] = None] ELSE d)
  BY DEF separate_headers
<1> HIDE DEF c, d, X
<1>4. /\ IsHandler(c) /\ IsHandler(d) /\ IsHandler(separate_headers(a)) /\ IsHandler(separate_headers(b))
      /\ separate_headers(a).ok = c.ok /\ separate_headers(b).ok = d.ok
      /\ c.ok => separate_headers(a) = c
      /\ d.ok => separate_headers(b) = d
  <2>1. IsHandler(c) /\ IsHandler(d)
    BY <1>2 DEF Both
  <2>2. ASSUME NEW h, IsHandler(h), NEW t, t = [h EXCEPT !.easy["PROXYHEADER"] = None]
        PROVE  IsHandler(t) /\ t.ok = h.ok
    <3> DEFINE e == [h.easy EXCEPT !["PROXYHEADER"] = None]
    <3>1. e = [o \in Settings |-> e[o]]
      BY <2>2 DEF IsHandler
    <3>2. t = [h EXCEPT !.easy = e]
      BY <2>2
    <3> HIDE DEF e
    <3>3. t = [f \in Fields |-> t[f]] /\ t.easy = e /\ Differ(h, t, {"easy"})
      BY <2>2, <3>2 DEF IsHandler, Fields, Differ
    <3> QED BY <2>2, <3>1, <3>3 DEF IsHandler, Differ, Fields
  <2> QED BY <1>3, <2>1, <2>2
<1>5. Alike(c, d, X)
  BY <1>2 DEF Both
<1>6. CASE c.ok
  BY <1>4, <1>5, <1>6 DEF Both, Alike, X
<1>7. CASE ~c.ok
  BY <1>4, <1>7 DEF Both, Alike, X
<1> QED BY <1>6, <1>7

LEMMA proxyheaderBoth ==
  ASSUME NEW a, NEW b, NEW W \in SUBSET Settings, Both(a, b, W), a.ok, NEW v
  PROVE  Both(set_proxyheader(a, v), set_proxyheader(b, v), W \cup {"PROXYHEADER", "HEADEROPT"})
<1> DEFINE list == a.proxyheaders \o v
           l == IF list = <<>> THEN None ELSE <<list>>
           c == Assigned(a, "proxyheaders", list)
           d == Assigned(b, "proxyheaders", list)
<1>1. a.proxyheaders = b.proxyheaders
  BY BothAre DEF SameOptions
<1>2. set_proxyheader(a, v) = separate_headers(setopt(c, "PROXYHEADER", l))
      /\ set_proxyheader(b, v) = separate_headers(setopt(d, "PROXYHEADER", l))
  BY <1>1 DEF set_proxyheader, Assigned
<1>3. FieldIs("proxyheaders", list) /\ "proxyheaders" \in Fields \ {"easy", "ok", "range_request"}
  BY DEF FieldIs, Fields
<1> HIDE DEF list, l
<1>4. Both(c, d, W)
  BY <1>3, UpdateBoth
<1> HIDE DEF c, d
<1>5. "PROXYHEADER" \in Settings
  BY SetterSettingsIn DEF SetterSettings
<1> DEFINE e == setopt(c, "PROXYHEADER", l)
           f == setopt(d, "PROXYHEADER", l)
           X == W \cup {"PROXYHEADER"}
<1>6. Both(e, f, X) /\ X \in SUBSET Settings
  BY <1>4, <1>5, SetoptBoth
<1>7. X \cup {"HEADEROPT"} = W \cup {"PROXYHEADER", "HEADEROPT"}
  OBVIOUS
<1> HIDE DEF e, f, X
<1>8. Both(separate_headers(e), separate_headers(f), X \cup {"HEADEROPT"})
  BY <1>6, separateBoth
<1> QED BY <1>2, <1>7, <1>8 DEF e, f

LEMMA resolveBoth ==
  ASSUME NEW a, NEW b, NEW W \in SUBSET Settings, Both(a, b, W), a.ok, NEW v
  PROVE  Both(set_resolve(a, v), set_resolve(b, v), W \cup {"RESOLVE"})
<1>1. "RESOLVE" \in Settings
  BY SetterSettingsIn DEF SetterSettings
<1>2. CASE v = <<>>
  BY <1>1, <1>2, SetoptBoth DEF set_resolve
<1>3. CASE v # <<>>
  <2> DEFINE list == a.resolve \o v
             c == Assigned(a, "resolve", list)
             d == Assigned(b, "resolve", list)
  <2>1. a.resolve = b.resolve
    BY BothAre DEF SameOptions
  <2>2. set_resolve(a, v) = setopt(c, "RESOLVE", <<list>>)
        /\ set_resolve(b, v) = setopt(d, "RESOLVE", <<list>>)
    BY <1>3, <2>1 DEF set_resolve, Assigned
  <2>3. FieldIs("resolve", list) /\ "resolve" \in Fields \ {"easy", "ok", "range_request"}
    BY DEF FieldIs, Fields
  <2> HIDE DEF list
  <2>4. Both(c, d, W)
    BY <2>3, UpdateBoth
  <2> HIDE DEF c, d
  <2> QED BY <1>1, <2>2, <2>4, SetoptBoth
<1> QED BY <1>2, <1>3

LEMMA verifyhostBoth ==
  ASSUME NEW a, NEW b, NEW W \in SUBSET Settings, Both(a, b, W), NEW v
  PROVE  Both(set_ssl_verifyhost(a, v), set_ssl_verifyhost(b, v), W \cup {"SSL_VERIFYHOST"})
BY SetoptBoth, SetterSettingsIn DEF set_ssl_verifyhost, SetterSettings

LEMMA altsvcBoth ==
  ASSUME NEW a, NEW b, NEW W \in SUBSET Settings, Both(a, b, W), NEW v
  PROVE  Both(set_altsvc_ctrl(a, v), set_altsvc_ctrl(b, v), W \cup (IF v = 0 THEN {} ELSE {"ALTSVC_CTRL"}))
<1>1. "ALTSVC_CTRL" \in Settings
  BY SetterSettingsIn DEF SetterSettings
<1>2. CASE v = 0
  <2>1. W \cup {} = W
    OBVIOUS
  <2> QED BY <1>2, <2>1 DEF set_altsvc_ctrl
<1>3. CASE v # 0
  BY <1>1, <1>3, SetoptBoth DEF set_altsvc_ctrl
<1> QED BY <1>2, <1>3

\* An option with this value makes the settings X alike, if those of D are not yet claimed.
Sets(e, v, X, D) ==
  \A a, b : \A W \in SUBSET Settings :
    Both(a, b, W) /\ a.ok /\ W \cap D = {} =>
      Both(set_option(e, v, a), set_option(e, v, b), W \cup X)

\* And leaves a handler a handler.
Kept(e, v) == \A s : IsHandler(s) /\ s.ok => IsHandler(set_option(e, v, s))

\* A handler is like itself.
LEMMA BothSelf ==
  ASSUME NEW s, IsHandler(s)
  PROVE  Both(s, s, {"RANGE"}) /\ {"RANGE"} \in SUBSET Settings
BY SetterSettingsIn DEF Both, Alike, SameSettings, SameOptions, SameText, RangeKnown, SetterSettings

LEMMA SetsKept ==
  ASSUME NEW e, NEW v, NEW X, NEW D, "RANGE" \notin D, Sets(e, v, X, D)
  PROVE  Kept(e, v)
<1> SUFFICES ASSUME NEW s, IsHandler(s), s.ok PROVE IsHandler(set_option(e, v, s))
  BY DEF Kept
<1>1. Both(s, s, {"RANGE"}) /\ {"RANGE"} \in SUBSET Settings /\ {"RANGE"} \cap D = {}
  BY BothSelf
<1>2. Both(set_option(e, v, s), set_option(e, v, s), {"RANGE"} \cup X)
  BY <1>1 DEF Sets
<1> QED BY <1>2 DEF Both

\* A handler that failed is not claimed to be like another.
LEMMA BothFailed ==
  ASSUME NEW a, NEW b, NEW W, IsHandler(a), IsHandler(b), ~a.ok
  PROVE  Both(a, b, W)
BY DEF Both, Alike

LEMMA OptionBoth ==
  ASSUME NEW e, NEW options, NEW X, NEW D, NEW a, NEW b, NEW W \in SUBSET Settings, Both(a, b, W),
         Sets(e, ValueOf(e, options), X, D), Kept(e, ValueOf(e, options)), W \cap D = {}
  PROVE  Both(apply_option(e, options, a), apply_option(e, options, b), W \cup X)
<1> DEFINE v == ValueOf(e, options)
<1>1. Sets(e, v, X, D) /\ Kept(e, v)
  OBVIOUS
<1>2. \A s : apply_option(e, options, s) = IF s.ok THEN set_option(e, v, s) ELSE s
  BY DEF apply_option
<1> HIDE DEF v
<1>3. IsHandler(a) /\ IsHandler(b)
  BY DEF Both
<1>4. CASE a.ok
  <2>1. b.ok
    BY <1>4, BothAre
  <2>2. Both(set_option(e, v, a), set_option(e, v, b), W \cup X)
    BY <1>1, <1>4 DEF Sets
  <2> QED BY <1>2, <1>4, <2>1, <2>2
<1>5. CASE ~a.ok
  <2>1. IsHandler(apply_option(e, options, b))
    BY <1>1, <1>2, <1>3 DEF Kept
  <2>2. apply_option(e, options, a) = a
    BY <1>2, <1>5
  <2> QED BY <1>3, <1>5, <2>1, <2>2, BothFailed
<1> QED BY <1>4, <1>5

\* Options that need no setter.
PlainType == {"bool", "long", "double", "string", "path"}

LEMMA PlainSets ==
  ASSUME NEW e, NEW n, NEW t \in PlainType, NEW o \in Settings, Entry(e, n, t, o), NEW v
  PROVE  Sets(e, v, {o}, {})
<1>1. e.type = t /\ e.opt = o
  BY DEF Entry
<1>2. \E w : \A s : set_option(e, v, s) = setopt(s, o, w)
  <2>1. CASE t \in {"bool", "long"}
    <3>1. \A s : set_option(e, v, s) = setopt(s, o, <<v>>)
      BY <1>1, <2>1, ZenonT(60) DEF set_option
    <3> QED BY <3>1
  <2>2. CASE t = "double"
    <3>1. \A s : set_option(e, v, s) = setopt(s, o, <<v * 1000>>)
      BY <1>1, <2>2 DEF set_option
    <3> QED BY <3>1
  <2>3. CASE t \in {"string", "path"}
    <3> DEFINE w == IF v = "" \/ (e.type = "path" /\ v \in OutsideBase) THEN None ELSE <<v>>
    <3>1. \A s : set_option(e, v, s) = setopt(s, o, w)
      BY <1>1, <2>3, ZenonT(60) DEF set_option
    <3> QED BY <3>1
  <2> QED BY <2>1, <2>2, <2>3 DEF PlainType
<1>3. PICK w : \A s : set_option(e, v, s) = setopt(s, o, w)
  BY <1>2
<1> SUFFICES ASSUME NEW a, NEW b, NEW W \in SUBSET Settings, Both(a, b, W)
             PROVE  Both(set_option(e, v, a), set_option(e, v, b), W \cup {o})
  BY DEF Sets
<1>4. Both(setopt(a, o, w), setopt(b, o, w), W \cup {o})
  BY SetoptBoth
<1> QED BY <1>3, <1>4

\* The setter of an option.
LEMMA SetterIs ==
  ASSUME NEW e, e.type = "setter", NEW v, NEW s
  PROVE  /\ e.name = "proxyheader" => set_option(e, v, s) = set_proxyheader(s, v)
         /\ e.name = "resolve" => set_option(e, v, s) = set_resolve(s, v)
         /\ e.name = "portrange" => set_option(e, v, s) = set_portrange(s, v)
         /\ e.name = "redirect" => set_option(e, v, s) = set_redirect(s, v)
         /\ e.name = "retrycount" => set_option(e, v, s) = set_retrycount(s, v)
         /\ e.name = "retrydelay" => set_option(e, v, s) = set_retrydelay(s, v)
         /\ e.name = "resume" => set_option(e, v, s) = set_resume(s, v)
         /\ e.name = "range" => set_option(e, v, s) = set_range(s, v)
         /\ e.name = "etag" => set_option(e, v, s) = set_etag(s, v)
         /\ e.name = "compress" => set_option(e, v, s) = set_compress(s, v)
         /\ e.name = "lastmodified" => set_option(e, v, s) = set_lastmodified(s, v)
         /\ e.name = "encodecookies" => set_option(e, v, s) = set_encodecookies(s, v)
         /\ e.name = "cookies" => set_option(e, v, s) = set_cookies(s, v)
         /\ e.name = "cookiestore" => set_option(e, v, s) = set_cookiestore(s, v)
         /\ e.name = "verifyhost" => set_option(e, v, s) = set_ssl_verifyhost(s, v)
         /\ e.name = "altsvc_ctrl" => set_option(e, v, s) = set_altsvc_ctrl(s, v)
<1>1. set_option(e, v, s) = Setter(e, v, s)
  BY DEF set_option
<1>2. /\ e.name = "proxyheader" => Setter(e, v, s) = set_proxyheader(s, v)
      /\ e.name = "resolve" => Setter(e, v, s) = set_resolve(s, v)
      /\ e.name = "portrange" => Setter(e, v, s) = set_portrange(s, v)
      /\ e.name = "redirect" => Setter(e, v, s) = set_redirect(s, v)
      /\ e.name = "retrycount" => Setter(e, v, s) = set_retrycount(s, v)
      /\ e.name = "retrydelay" => Setter(e, v, s) = set_retrydelay(s, v)
      /\ e.name = "resume" => Setter(e, v, s) = set_resume(s, v)
      /\ e.name = "range" => Setter(e, v, s) = set_range(s, v)
  BY DEF Setter
<1>3. /\ e.name = "etag" => Setter(e, v, s) = set_etag(s, v)
      /\ e.name = "compress" => Setter(e, v, s) = set_compress(s, v)
      /\ e.name = "lastmodified" => Setter(e, v, s) = set_lastmodified(s, v)
      /\ e.name = "encodecookies" => Setter(e, v, s) = set_encodecookies(s, v)
      /\ e.name = "cookies" => Setter(e, v, s) = set_cookies(s, v)
      /\ e.name = "cookiestore" => Setter(e, v, s) = set_cookiestore(s, v)
      /\ e.name = "verifyhost" => Setter(e, v, s) = set_ssl_verifyhost(s, v)
      /\ e.name = "altsvc_ctrl" => Setter(e, v, s) = set_altsvc_ctrl(s, v)
  BY DEF Setter
<1> QED BY <1>1, <1>2, <1>3

\* The settings that the setter of an option makes alike.
SetterSets(e, v) ==
  /\ e.name = "proxyheader" => Sets(e, v, {"PROXYHEADER", "HEADEROPT"}, {})
  /\ e.name = "resolve" => Sets(e, v, {"RESOLVE"}, {})
  /\ e.name = "portrange" => Sets(e, v, {"LOCALPORT", "LOCALPORTRANGE"}, {})
  /\ e.name = "redirect" => Sets(e, v, {"FOLLOWLOCATION", "MAXREDIRS"}, {})
  /\ e.name \in {"retrycount", "retrydelay", "etag", "encodecookies"} => Sets(e, v, {}, {})
  /\ e.name = "resume" => Sets(e, v, {"RESUME_FROM"}, {})
  /\ e.name = "range" =>
       Sets(e, v, IF RangesText(v) = <<>> THEN {} ELSE {"RANGE"}, {"RANGE"})
  /\ e.name = "compress" => Sets(e, v, {"ACCEPT_ENCODING"}, {})
  /\ e.name = "lastmodified" => Sets(e, v, {"TIMEVALUE", "TIMECONDITION"}, {"TIMECONDITION"})
  /\ e.name = "cookies" => Sets(e, v, {"COOKIE"}, {})
  /\ e.name = "cookiestore" => Sets(e, v, {"COOKIEFILE", "COOKIEJAR"}, {})
  /\ e.name = "verifyhost" => Sets(e, v, {"SSL_VERIFYHOST"}, {})
  /\ e.name = "altsvc_ctrl" => Sets(e, v, IF v = 0 THEN {} ELSE {"ALTSVC_CTRL"}, {})

LEMMA SettersSet ==
  ASSUME NEW e, e.type = "setter", NEW v
  PROVE  SetterSets(e, v)
<1>1. ASSUME e.name = "proxyheader" PROVE Sets(e, v, {"PROXYHEADER", "HEADEROPT"}, {})
  BY <1>1, SetterIs, proxyheaderBoth DEF Sets
<1>2. ASSUME e.name = "resolve" PROVE Sets(e, v, {"RESOLVE"}, {})
  BY <1>2, SetterIs, resolveBoth DEF Sets
<1>3. ASSUME e.name = "portrange" PROVE Sets(e, v, {"LOCALPORT", "LOCALPORTRANGE"}, {})
  BY <1>3, SetterIs, portrangeBoth DEF Sets
<1>4. ASSUME e.name = "redirect" PROVE Sets(e, v, {"FOLLOWLOCATION", "MAXREDIRS"}, {})
  BY <1>4, SetterIs, redirectBoth DEF Sets
<1>5. ASSUME e.name \in {"retrycount", "retrydelay", "etag", "encodecookies"}
      PROVE  Sets(e, v, {}, {})
  <2> SUFFICES ASSUME NEW a, NEW b, NEW W \in SUBSET Settings, Both(a, b, W), a.ok
               PROVE  Both(set_option(e, v, a), set_option(e, v, b), W)
    <3>1. \A W : W \cup {} = W
      OBVIOUS
    <3> QED BY <3>1 DEF Sets
  <2>1. CASE e.name = "retrycount"
    BY <2>1, SetterIs, retryBoth
  <2>2. CASE e.name = "retrydelay"
    BY <2>2, SetterIs, retryBoth
  <2>3. CASE e.name = "etag"
    BY <2>3, SetterIs, etagBoth
  <2>4. CASE e.name = "encodecookies"
    BY <2>4, SetterIs, encodecookiesBoth
  <2> QED BY <1>5, <2>1, <2>2, <2>3, <2>4
<1>6. ASSUME e.name = "resume" PROVE Sets(e, v, {"RESUME_FROM"}, {})
  BY <1>6, SetterIs, resumeBoth DEF Sets
<1>7. ASSUME e.name = "range"
      PROVE  Sets(e, v, IF RangesText(v) = <<>> THEN {} ELSE {"RANGE"}, {"RANGE"})
  <2> SUFFICES ASSUME NEW a, NEW b, NEW W \in SUBSET Settings, Both(a, b, W), a.ok, "RANGE" \notin W
               PROVE  Both(set_option(e, v, a), set_option(e, v, b),
                           W \cup IF RangesText(v) = <<>> THEN {} ELSE {"RANGE"})
    BY DEF Sets
  <2>1. set_option(e, v, a) = set_range(a, v) /\ set_option(e, v, b) = set_range(b, v)
    BY <1>7, SetterIs
  <2>2. CASE RangesText(v) = <<>>
    <3>1. W \cup {} = W
      OBVIOUS
    <3>2. Both(set_range(a, v), set_range(b, v), W)
      BY <2>2, noRangeBoth
    <3> QED BY <2>1, <2>2, <3>1, <3>2
  <2>3. CASE RangesText(v) # <<>>
    BY <2>1, <2>3, someRangeBoth
  <2> QED BY <2>2, <2>3
<1>8. ASSUME e.name = "compress" PROVE Sets(e, v, {"ACCEPT_ENCODING"}, {})
  BY <1>8, SetterIs, compressBoth DEF Sets
<1>9. ASSUME e.name = "lastmodified" PROVE Sets(e, v, {"TIMEVALUE", "TIMECONDITION"}, {"TIMECONDITION"})
  BY <1>9, SetterIs, lastmodifiedBoth DEF Sets
<1>10. ASSUME e.name = "cookies" PROVE Sets(e, v, {"COOKIE"}, {})
  BY <1>10, SetterIs, cookiesBoth DEF Sets
<1>11. ASSUME e.name = "cookiestore" PROVE Sets(e, v, {"COOKIEFILE", "COOKIEJAR"}, {})
  BY <1>11, SetterIs, cookiestoreBoth DEF Sets
<1>12. ASSUME e.name = "verifyhost" PROVE Sets(e, v, {"SSL_VERIFYHOST"}, {})
  BY <1>12, SetterIs, verifyhostBoth DEF Sets
<1>13. ASSUME e.name = "altsvc_ctrl" PROVE Sets(e, v, IF v = 0 THEN {} ELSE {"ALTSVC_CTRL"}, {})
  BY <1>13, SetterIs, altsvcBoth DEF Sets
<1>14. /\ e.name = "proxyheader" => Sets(e, v, {"PROXYHEADER", "HEADEROPT"}, {})
       /\ e.name = "resolve" => Sets(e, v, {"RESOLVE"}, {})
       /\ e.name = "portrange" => Sets(e, v, {"LOCALPORT", "LOCALPORTRANGE"}, {})
       /\ e.name = "redirect" => Sets(e, v, {"FOLLOWLOCATION", "MAXREDIRS"}, {})
       /\ e.name \in {"retrycount", "retrydelay", "etag", "encodecookies"} => Sets(e, v, {}, {})
       /\ e.name = "resume" => Sets(e, v, {"RESUME_FROM"}, {})
       /\ e.name = "range" =>
            Sets(e, v, IF RangesText(v) = <<>> THEN {} ELSE {"RANGE"}, {"RANGE"})
  BY <1>1, <1>2, <1>3, <1>4, <1>5, <1>6, <1>7, Zenon
<1>15. /\ e.name = "compress" => Sets(e, v, {"ACCEPT_ENCODING"}, {})
       /\ e.name = "lastmodified" => Sets(e, v, {"TIMEVALUE", "TIMECONDITION"}, {"TIMECONDITION"})
       /\ e.name = "cookies" => Sets(e, v, {"COOKIE"}, {})
       /\ e.name = "cookiestore" => Sets(e, v, {"COOKIEFILE", "COOKIEJAR"}, {})
       /\ e.name = "verifyhost" => Sets(e, v, {"SSL_VERIFYHOST"}, {})
       /\ e.name = "altsvc_ctrl" => Sets(e, v, IF v = 0 THEN {} ELSE {"ALTSVC_CTRL"}, {})
  BY <1>8, <1>9, <1>10, <1>11, <1>12, <1>13, Zenon
<1> QED BY <1>14, <1>15, Zenon DEF SetterSets

\* A handler stays one when it is given ranges.
LEMMA rangeKept ==
  ASSUME NEW e, e.type = "setter", e.name = "range", NEW v
  PROVE  Kept(e, v)
<1> SUFFICES ASSUME NEW s, IsHandler(s), s.ok PROVE IsHandler(set_option(e, v, s))
  BY DEF Kept
<1>1. set_option(e, v, s) = set_range(s, v)
  BY SetterIs
<1>2. CASE RangesText(v) # <<>>
  <2>1. Both(set_range(s, v), set_range(s, v), {"RANGE"} \cup {"RANGE"})
    BY <1>2, BothSelf, someRangeBoth
  <2> QED BY <1>1, <2>1 DEF Both
<1>3. CASE RangesText(v) = <<>>
  <2> DEFINE r == TextReset(s.ranges)
             y == s.range_request \/ FALSE
             c == Assigned(s, "range_request", y)
             d == Assigned(c, "ranges", r)
  <2>1. set_range(s, v) = setopt(SetRange(s, y, r), "RANGE", Pointer(r))
    BY <1>3 DEF set_range, SetRange
  <2>2. SetRange(s, y, r) = d
    BY SetRangeIs
  <2>3. FieldIs("range_request", y) /\ FieldIs("ranges", r)
        /\ "range_request" \in Fields /\ "ranges" \in Fields
    <3>1. IsText(s.ranges)
      BY DEF IsHandler
    <3>2. IsText(r)
      BY <3>1 DEF IsText, TextReset
    <3> QED BY <3>2 DEF FieldIs, Fields
  <2> HIDE DEF r, y
  <2>4. IsHandler(c)
    BY <2>3, UpdateIs
  <2> HIDE DEF c
  <2>5. IsHandler(d)
    BY <2>3, <2>4, UpdateIs
  <2> HIDE DEF d
  <2>6. IsHandler(setopt(d, "RANGE", Pointer(r)))
    BY <2>5, SetoptIs, SetterSettingsIn DEF SetterSettings
  <2> QED BY <1>1, <2>1, <2>2, <2>6
<1> QED BY <1>2, <1>3

-----------------------------------------------------------------------------
(* The walk over the registry.                                             *)

\* What handlers there are after each of n options: f[k] after the first k of them.
Walk(f, registry, options, s, n) ==
  f = [k \in 0 .. n |-> IF k = 0 THEN s ELSE apply_any(registry[k], options, f[k - 1])]
SubWalk(f, registry, options, s, n) ==
  f = [k \in 0 .. n |-> IF k = 0 THEN s ELSE apply_option(registry[k], options, f[k - 1])]

\* There are such handlers for every number of options.
LEMMA WalkExists ==
  ASSUME NEW registry, NEW options, NEW s, NEW n \in Nat
  PROVE  \E f : Walk(f, registry, options, s, n)
<1> DEFINE S == {k \in Nat : \E f : Walk(f, registry, options, s, k)}
<1>1. ASSUME NEW m \in Nat, \A k \in 0 .. m - 1 : k \in S PROVE m \in S
  <2>1. CASE m = 0
    <3> DEFINE f == [i \in 0 .. 0 |-> s]
    <3>1. f = [i \in 0 .. 0 |-> IF i = 0 THEN s ELSE apply_any(registry[i], options, f[i - 1])]
      OBVIOUS
    <3>2. Walk(f, registry, options, s, 0)
      BY <3>1 DEF Walk
    <3> QED BY <2>1, <3>2
  <2>2. CASE m # 0
    <3>1. m - 1 \in 0 .. m - 1
      BY <2>2
    <3>2. PICK g : Walk(g, registry, options, s, m - 1)
      BY <1>1, <3>1
    <3> DEFINE f == [i \in 0 .. m |-> IF i = m THEN apply_any(registry[m], options, g[m - 1]) ELSE g[i]]
    <3>3. \A i \in 0 .. m - 1 : g[i] = IF i = 0 THEN s ELSE apply_any(registry[i], options, g[i - 1])
      BY <3>2 DEF Walk
    <3>4. ASSUME NEW i \in 0 .. m
          PROVE  f[i] = IF i = 0 THEN s ELSE apply_any(registry[i], options, f[i - 1])
      <4>1. CASE i = m
        <5>1. i # 0 /\ i - 1 \in 0 .. m /\ i - 1 # m
          BY <2>2, <4>1
        <5>2. f[i - 1] = g[m - 1] /\ f[i] = apply_any(registry[m], options, g[m - 1])
          BY <4>1, <5>1
        <5> QED BY <4>1, <5>1, <5>2
      <4>2. CASE i # m
        <5>1. i \in 0 .. m - 1 /\ (i # 0 => i - 1 \in 0 .. m /\ i - 1 # m)
          BY <4>2
        <5>2. f[i] = g[i] /\ (i # 0 => f[i - 1] = g[i - 1])
          BY <4>2, <5>1
        <5> HIDE DEF f
        <5> QED BY <3>3, <5>1, <5>2
      <4> QED BY <4>1, <4>2
    <3>5. f = [i \in 0 .. m |-> f[i]]
      OBVIOUS
    <3> HIDE DEF f
    <3>6. Walk(f, registry, options, s, m)
      BY <3>4, <3>5 DEF Walk
    <3> QED BY <3>6
  <2> QED BY <2>1, <2>2
<1> HIDE DEF S
<1>2. n \in S
  BY <1>1, Induction
<1> QED BY <1>2 DEF S

LEMMA SubWalkExists ==
  ASSUME NEW registry, NEW options, NEW s, NEW n \in Nat
  PROVE  \E f : SubWalk(f, registry, options, s, n)
<1> DEFINE S == {k \in Nat : \E f : SubWalk(f, registry, options, s, k)}
<1>1. ASSUME NEW m \in Nat, \A k \in 0 .. m - 1 : k \in S PROVE m \in S
  <2>1. CASE m = 0
    <3> DEFINE f == [i \in 0 .. 0 |-> s]
    <3>1. f = [i \in 0 .. 0 |-> IF i = 0 THEN s ELSE apply_option(registry[i], options, f[i - 1])]
      OBVIOUS
    <3>2. SubWalk(f, registry, options, s, 0)
      BY <3>1 DEF SubWalk
    <3> QED BY <2>1, <3>2
  <2>2. CASE m # 0
    <3>1. m - 1 \in 0 .. m - 1
      BY <2>2
    <3>2. PICK g : SubWalk(g, registry, options, s, m - 1)
      BY <1>1, <3>1
    <3> DEFINE f == [i \in 0 .. m |-> IF i = m THEN apply_option(registry[m], options, g[m - 1]) ELSE g[i]]
    <3>3. \A i \in 0 .. m - 1 : g[i] = IF i = 0 THEN s ELSE apply_option(registry[i], options, g[i - 1])
      BY <3>2 DEF SubWalk
    <3>4. ASSUME NEW i \in 0 .. m
          PROVE  f[i] = IF i = 0 THEN s ELSE apply_option(registry[i], options, f[i - 1])
      <4>1. CASE i = m
        <5>1. i # 0 /\ i - 1 \in 0 .. m /\ i - 1 # m
          BY <2>2, <4>1
        <5>2. f[i - 1] = g[m - 1] /\ f[i] = apply_option(registry[m], options, g[m - 1])
          BY <4>1, <5>1
        <5> QED BY <4>1, <5>1, <5>2
      <4>2. CASE i # m
        <5>1. i \in 0 .. m - 1 /\ (i # 0 => i - 1 \in 0 .. m /\ i - 1 # m)
          BY <4>2
        <5>2. f[i] = g[i] /\ (i # 0 => f[i - 1] = g[i - 1])
          BY <4>2, <5>1
        <5> HIDE DEF f
        <5> QED BY <3>3, <5>1, <5>2
      <4> QED BY <4>1, <4>2
    <3>5. f = [i \in 0 .. m |-> f[i]]
      OBVIOUS
    <3> HIDE DEF f
    <3>6. SubWalk(f, registry, options, s, m)
      BY <3>4, <3>5 DEF SubWalk
    <3> QED BY <3>6
  <2> QED BY <2>1, <2>2
<1> HIDE DEF S
<1>2. n \in S
  BY <1>1, Induction
<1> QED BY <1>2 DEF S

LEMMA WalkIs ==
  ASSUME NEW options, NEW s
  PROVE  \E f : Walk(f, Registry, options, s, 23) /\ options_apply(options, s) = f[23]
<1> DEFINE after[k \in 0 .. Len(Registry)] ==
             IF k = 0 THEN s ELSE apply_any(Registry[k], options, after[k - 1])
<1>1. options_apply(options, s) = after[Len(Registry)]
  BY DEF options_apply
<1>2. after = CHOOSE f : Walk(f, Registry, options, s, Len(Registry))
  BY DEF Walk
<1>3. Len(Registry) = 23
  BY RegistryParts
<1> HIDE DEF after
<1>4. \E f : Walk(f, Registry, options, s, 23)
  BY WalkExists
<1>5. Walk(after, Registry, options, s, 23)
  BY <1>2, <1>3, <1>4, Zenon
<1> QED BY <1>1, <1>3, <1>5

LEMMA SubWalkIs ==
  ASSUME NEW registry, Len(registry) \in Nat, NEW options, NEW s
  PROVE  \E f : /\ SubWalk(f, registry, options, s, Len(registry))
               /\ apply_options(registry, options, s) = f[Len(registry)]
<1> DEFINE n == Len(registry)
           after[k \in 0 .. n] ==
             IF k = 0 THEN s ELSE apply_option(registry[k], options, after[k - 1])
<1>1. apply_options(registry, options, s) = after[n]
  BY DEF apply_options
<1>2. after = CHOOSE f : SubWalk(f, registry, options, s, n)
  BY DEF SubWalk
<1> HIDE DEF after
<1>3. \E f : SubWalk(f, registry, options, s, n)
  BY SubWalkExists
<1>4. SubWalk(after, registry, options, s, n)
  BY <1>2, <1>3, Zenon
<1> QED BY <1>1, <1>4

\* What the walk is like at its steps.
LEMMA WalkSteps ==
  ASSUME NEW f, NEW registry, NEW options, NEW s, NEW n \in Nat, Walk(f, registry, options, s, n)
  PROVE  f[0] = s /\ \A k \in 1 .. n : f[k] = apply_any(registry[k], options, f[k - 1])
<1>1. 0 \in 0 .. n /\ \A k \in 1 .. n : k \in 0 .. n /\ k # 0
  OBVIOUS
<1> QED BY <1>1 DEF Walk

LEMMA SubWalkSteps ==
  ASSUME NEW f, NEW registry, NEW options, NEW s, NEW n \in Nat, SubWalk(f, registry, options, s, n)
  PROVE  f[0] = s /\ \A k \in 1 .. n : f[k] = apply_option(registry[k], options, f[k - 1])
<1>1. 0 \in 0 .. n /\ \A k \in 1 .. n : k \in 0 .. n /\ k # 0
  OBVIOUS
<1> QED BY <1>1 DEF SubWalk

\* Both handlers are given the TLS options, to the server or to the proxy.
LEMMA sslBoth ==
  ASSUME NEW a, NEW b, NEW W \in SUBSET Settings, Both(a, b, W), NEW options
  PROVE  Both(apply_options(SslOptions, options, a), apply_options(SslOptions, options, b),
              W \cup SubSettings("ssl"))
<1>1. /\ Entry(SslOptions[1], "cert", "path", "SSLCERT")
      /\ Entry(SslOptions[2], "verifypeer", "bool", "SSL_VERIFYPEER")
      /\ Entry(SslOptions[3], "verifyhost", "setter", "SSL_VERIFYHOST")
      /\ Len(SslOptions) = 3
  BY SslIs
<1>2. {"SSLCERT", "SSL_VERIFYPEER", "SSL_VERIFYHOST"} \subseteq Settings
      /\ SubSettings("ssl") = {"SSLCERT", "SSL_VERIFYPEER", "SSL_VERIFYHOST"}
  BY SettingsAre, SubSettingsAre
<1>3. /\ \A v : Sets(SslOptions[1], v, {"SSLCERT"}, {})
      /\ \A v : Sets(SslOptions[2], v, {"SSL_VERIFYPEER"}, {})
      /\ \A v : Sets(SslOptions[3], v, {"SSL_VERIFYHOST"}, {})
  <2>1. "path" \in PlainType /\ "bool" \in PlainType
    BY DEF PlainType
  <2>2. /\ \A v : Sets(SslOptions[1], v, {"SSLCERT"}, {})
        /\ \A v : Sets(SslOptions[2], v, {"SSL_VERIFYPEER"}, {})
    BY <1>1, <1>2, <2>1, PlainSets
  <2>3. SslOptions[3].type = "setter" /\ SslOptions[3].name = "verifyhost"
    BY <1>1 DEF Entry
  <2>4. \A v : Sets(SslOptions[3], v, {"SSL_VERIFYHOST"}, {})
    BY <2>3, SettersSet DEF SetterSets
  <2> QED BY <2>2, <2>4
<1>0. ASSUME NEW s
      PROVE  \E f : SubWalk(f, SslOptions, options, s, 3) /\ apply_options(SslOptions, options, s) = f[3]
  <2> DEFINE n == Len(SslOptions)
  <2>1. n = 3 /\ n \in Nat
    BY <1>1
  <2>2. \E f : SubWalk(f, SslOptions, options, s, n) /\ apply_options(SslOptions, options, s) = f[n]
    BY <2>1, SubWalkIs, Zenon
  <2> HIDE DEF n
  <2> QED BY <2>1, <2>2
<1>4. PICK f : SubWalk(f, SslOptions, options, a, 3) /\ apply_options(SslOptions, options, a) = f[3]
  BY <1>0
<1>5. PICK g : SubWalk(g, SslOptions, options, b, 3) /\ apply_options(SslOptions, options, b) = g[3]
  BY <1>0
<1>6. /\ f[0] = a /\ \A k \in 1 .. 3 : f[k] = apply_option(SslOptions[k], options, f[k - 1])
      /\ g[0] = b /\ \A k \in 1 .. 3 : g[k] = apply_option(SslOptions[k], options, g[k - 1])
  BY <1>4, <1>5, SubWalkSteps
<1>7. /\ f[1] = apply_option(SslOptions[1], options, a)
      /\ g[1] = apply_option(SslOptions[1], options, b)
      /\ f[2] = apply_option(SslOptions[2], options, f[1])
      /\ g[2] = apply_option(SslOptions[2], options, g[1])
      /\ f[3] = apply_option(SslOptions[3], options, f[2])
      /\ g[3] = apply_option(SslOptions[3], options, g[2])
  BY <1>6
<1> DEFINE U == W \cup {"SSLCERT"}
           V == U \cup {"SSL_VERIFYPEER"}
<1>8. /\ \A v : Kept(SslOptions[1], v)
      /\ \A v : Kept(SslOptions[2], v)
      /\ \A v : Kept(SslOptions[3], v)
  BY <1>3, SetsKept
<1>9. Both(f[1], g[1], U) /\ U \in SUBSET Settings
  <2>1. Both(f[1], g[1], U)
    BY <1>3, <1>7, <1>8, OptionBoth, SMTT(60)
  <2>2. U \in SUBSET Settings
    BY <1>2
  <2> QED BY <2>1, <2>2
<1> HIDE DEF U
<1>10. Both(f[2], g[2], V) /\ V \in SUBSET Settings
  <2>1. Both(f[2], g[2], V)
    BY <1>3, <1>7, <1>8, <1>9, OptionBoth
  <2>2. V \in SUBSET Settings
    BY <1>2, <1>9
  <2> QED BY <2>1, <2>2
<1> HIDE DEF V
<1>11. Both(f[3], g[3], V \cup {"SSL_VERIFYHOST"})
  BY <1>3, <1>7, <1>8, <1>10, OptionBoth
<1>12. V \cup {"SSL_VERIFYHOST"} = W \cup SubSettings("ssl")
  BY <1>2 DEF U, V
<1> QED BY <1>4, <1>5, <1>11, <1>12

LEMMA proxysslBoth ==
  ASSUME NEW a, NEW b, NEW W \in SUBSET Settings, Both(a, b, W), NEW options
  PROVE  Both(apply_options(ProxySslOptions, options, a), apply_options(ProxySslOptions, options, b),
              W \cup SubSettings("proxy_ssl"))
<1> DEFINE o == "PROXY_SSL_VERIFYPEER"
<1>1. Entry(ProxySslOptions[1], "verifypeer", "bool", o) /\ Len(ProxySslOptions) = 1
  BY ProxySslIs
<1>2. o \in Settings /\ SubSettings("proxy_ssl") = {o}
  BY SettingsAre, SubSettingsAre
<1>3. \A v : Sets(ProxySslOptions[1], v, {o}, {})
  BY <1>1, <1>2, PlainSets DEF PlainType
<1>4. \A v : Kept(ProxySslOptions[1], v)
  BY <1>3, SetsKept
<1>0. ASSUME NEW s
      PROVE  \E f : /\ SubWalk(f, ProxySslOptions, options, s, 1)
                   /\ apply_options(ProxySslOptions, options, s) = f[1]
  <2> DEFINE n == Len(ProxySslOptions)
  <2>1. n = 1 /\ n \in Nat
    BY <1>1
  <2>2. \E f : /\ SubWalk(f, ProxySslOptions, options, s, n)
               /\ apply_options(ProxySslOptions, options, s) = f[n]
    BY <2>1, SubWalkIs, Zenon
  <2> HIDE DEF n
  <2> QED BY <2>1, <2>2
<1>5. PICK f : SubWalk(f, ProxySslOptions, options, a, 1)
               /\ apply_options(ProxySslOptions, options, a) = f[1]
  BY <1>0
<1>6. PICK g : SubWalk(g, ProxySslOptions, options, b, 1)
               /\ apply_options(ProxySslOptions, options, b) = g[1]
  BY <1>0
<1>7. /\ f[0] = a /\ \A k \in 1 .. 1 : f[k] = apply_option(ProxySslOptions[k], options, f[k - 1])
      /\ g[0] = b /\ \A k \in 1 .. 1 : g[k] = apply_option(ProxySslOptions[k], options, g[k - 1])
  BY <1>5, <1>6, SubWalkSteps
<1>8. /\ f[1] = apply_option(ProxySslOptions[1], options, a)
      /\ g[1] = apply_option(ProxySslOptions[1], options, b)
  BY <1>7
<1>9. Both(f[1], g[1], W \cup {o})
  BY <1>3, <1>4, <1>8, OptionBoth
<1> QED BY <1>2, <1>5, <1>6, <1>9

\* The option at place i makes the settings X alike, if those of D are not yet claimed.
Step(i, options, X, D) ==
  \A a, b : \A W \in SUBSET Settings :
    Both(a, b, W) /\ W \cap D = {} =>
      Both(apply_any(Registry[i], options, a), apply_any(Registry[i], options, b), W \cup X)

LEMMA StepIs ==
  ASSUME NEW i, NEW options, NEW X, NEW D, Registry[i].type # "sub",
         Sets(Registry[i], ValueOf(Registry[i], options), X, D),
         "RANGE" \notin D \/ Kept(Registry[i], ValueOf(Registry[i], options))
  PROVE  Step(i, options, X, D)
<1> DEFINE e == Registry[i]
<1>1. Kept(e, ValueOf(e, options)) /\ Sets(e, ValueOf(e, options), X, D)
  BY SetsKept
<1>2. \A s : apply_any(e, options, s) = apply_option(e, options, s)
  BY DEF apply_any
<1> HIDE DEF e
<1>3. ASSUME NEW a, NEW b, NEW W \in SUBSET Settings, Both(a, b, W), W \cap D = {}
      PROVE  Both(apply_any(e, options, a), apply_any(e, options, b), W \cup X)
  BY <1>1, <1>2, <1>3, OptionBoth
<1> QED BY <1>3 DEF Step, e

\* Options that need no setter.
LEMMA PlainSteps ==
  ASSUME NEW options
  PROVE  /\ Step(1, options, {"PROXY"}, {})
         /\ Step(3, options, {"UNIX_SOCKET_PATH"}, {})
         /\ Step(6, options, {"USERPWD"}, {})
         /\ Step(10, options, {"AUTOREFERER"}, {})
         /\ Step(19, options, {"HTTP_VERSION"}, {})
         /\ Step(20, options, {"TIMEOUT_MS"}, {})
<1>1. ASSUME NEW i, NEW n, NEW t \in PlainType, NEW o \in Settings, Entry(Registry[i], n, t, o)
      PROVE  Step(i, options, {o}, {})
  <2>1. Sets(Registry[i], ValueOf(Registry[i], options), {o}, {})
    BY <1>1, PlainSets
  <2>2. Registry[i].type # "sub"
    BY <1>1 DEF Entry, PlainType
  <2> QED BY <2>1, <2>2, StepIs
<1>2. PlainType = {"bool", "long", "double", "string", "path"} /\ PlainSettings \subseteq Settings
      /\ "PROXY" \in PlainSettings /\ "UNIX_SOCKET_PATH" \in PlainSettings
      /\ "USERPWD" \in PlainSettings
      /\ "AUTOREFERER" \in PlainSettings /\ "HTTP_VERSION" \in PlainSettings
      /\ "TIMEOUT_MS" \in PlainSettings
  BY SetterSettingsIn DEF PlainType, PlainSettings
<1>3. /\ Entry(Registry[1], "proxyhost", "string", "PROXY")
      /\ Entry(Registry[3], "unix_socket_path", "path", "UNIX_SOCKET_PATH")
      /\ Entry(Registry[6], "httpauth", "string", "USERPWD")
      /\ Entry(Registry[10], "autoreferer", "bool", "AUTOREFERER")
      /\ Entry(Registry[19], "protocol", "long", "HTTP_VERSION")
      /\ Entry(Registry[20], "timeout", "double", "TIMEOUT_MS")
  BY RegistryIs
<1> QED BY <1>1, <1>2, <1>3

\* Options with a setter.
Ranges(options) == IF "range" \in DOMAIN options THEN RangesText(options["range"]) ELSE <<>>
AltSvc(options) == IF "altsvc_ctrl" \in DOMAIN options THEN options["altsvc_ctrl"] ELSE 0

LEMMA SetterSteps ==
  ASSUME NEW options
  PROVE  /\ Step(2, options, {"PROXYHEADER", "HEADEROPT"}, {})
         /\ Step(4, options, {"RESOLVE"}, {})
         /\ Step(5, options, {"LOCALPORT", "LOCALPORTRANGE"}, {})
         /\ Step(7, options, {"FOLLOWLOCATION", "MAXREDIRS"}, {})
         /\ Step(8, options, {}, {}) /\ Step(9, options, {}, {})
         /\ Step(11, options, {"RESUME_FROM"}, {})
         /\ Step(13, options, {}, {})
         /\ Step(14, options, {"ACCEPT_ENCODING"}, {})
         /\ Step(15, options, {"TIMEVALUE", "TIMECONDITION"}, {"TIMECONDITION"})
         /\ Step(16, options, {}, {})
         /\ Step(17, options, {"COOKIE"}, {})
         /\ Step(18, options, {"COOKIEFILE", "COOKIEJAR"}, {})
<1> DEFINE v(i) == ValueOf(Registry[i], options)
<1>1. ASSUME NEW i, NEW n, NEW o, Entry(Registry[i], n, "setter", o)
      PROVE  Registry[i].name = n /\ Registry[i].type # "sub" /\ SetterSets(Registry[i], v(i))
  BY <1>1, SettersSet DEF Entry
<1> HIDE DEF v
<1>2. /\ Entry(Registry[2], "proxyheader", "setter", "PROXYHEADER")
      /\ Entry(Registry[4], "resolve", "setter", "RESOLVE")
      /\ Entry(Registry[5], "portrange", "setter", "LOCALPORT")
      /\ Entry(Registry[7], "redirect", "setter", "FOLLOWLOCATION")
      /\ Entry(Registry[8], "retrycount", "setter", "")
      /\ Entry(Registry[9], "retrydelay", "setter", "")
      /\ Entry(Registry[11], "resume", "setter", "RESUME_FROM")
      /\ Entry(Registry[13], "etag", "setter", "")
      /\ Entry(Registry[14], "compress", "setter", "")
      /\ Entry(Registry[15], "lastmodified", "setter", "")
      /\ Entry(Registry[16], "encodecookies", "setter", "")
      /\ Entry(Registry[17], "cookies", "setter", "")
      /\ Entry(Registry[18], "cookiestore", "setter", "")
  BY RegistryIs
<1>3. ASSUME NEW i, NEW X, NEW D, Registry[i].type # "sub", Sets(Registry[i], v(i), X, D), "RANGE" \notin D
      PROVE  Step(i, options, X, D)
  BY <1>3, StepIs DEF v
<1>4. Step(2, options, {"PROXYHEADER", "HEADEROPT"}, {})
  <2>1. Registry[2].name = "proxyheader" /\ Registry[2].type # "sub" /\ SetterSets(Registry[2], v(2))
    BY <1>1, <1>2
  <2>2. Sets(Registry[2], v(2), {"PROXYHEADER", "HEADEROPT"}, {})
    BY <2>1 DEF SetterSets
  <2> QED BY <1>3, <2>1, <2>2
<1>5. Step(4, options, {"RESOLVE"}, {})
  <2>1. Registry[4].name = "resolve" /\ Registry[4].type # "sub" /\ SetterSets(Registry[4], v(4))
    BY <1>1, <1>2
  <2>2. Sets(Registry[4], v(4), {"RESOLVE"}, {})
    BY <2>1 DEF SetterSets
  <2> QED BY <1>3, <2>1, <2>2
<1>6. Step(5, options, {"LOCALPORT", "LOCALPORTRANGE"}, {})
  <2>1. Registry[5].name = "portrange" /\ Registry[5].type # "sub" /\ SetterSets(Registry[5], v(5))
    BY <1>1, <1>2
  <2>2. Sets(Registry[5], v(5), {"LOCALPORT", "LOCALPORTRANGE"}, {})
    BY <2>1 DEF SetterSets
  <2> QED BY <1>3, <2>1, <2>2
<1>7. Step(7, options, {"FOLLOWLOCATION", "MAXREDIRS"}, {})
  <2>1. Registry[7].name = "redirect" /\ Registry[7].type # "sub" /\ SetterSets(Registry[7], v(7))
    BY <1>1, <1>2
  <2>2. Sets(Registry[7], v(7), {"FOLLOWLOCATION", "MAXREDIRS"}, {})
    BY <2>1 DEF SetterSets
  <2> QED BY <1>3, <2>1, <2>2
<1>8. Step(8, options, {}, {})
  <2>1. Registry[8].name = "retrycount" /\ Registry[8].type # "sub" /\ SetterSets(Registry[8], v(8))
    BY <1>1, <1>2
  <2>2. Sets(Registry[8], v(8), {}, {})
    BY <2>1 DEF SetterSets
  <2> QED BY <1>3, <2>1, <2>2
<1>9. Step(9, options, {}, {})
  <2>1. Registry[9].name = "retrydelay" /\ Registry[9].type # "sub" /\ SetterSets(Registry[9], v(9))
    BY <1>1, <1>2
  <2>2. Sets(Registry[9], v(9), {}, {})
    BY <2>1 DEF SetterSets
  <2> QED BY <1>3, <2>1, <2>2
<1>10. Step(11, options, {"RESUME_FROM"}, {})
  <2>1. Registry[11].name = "resume" /\ Registry[11].type # "sub" /\ SetterSets(Registry[11], v(11))
    BY <1>1, <1>2
  <2>2. Sets(Registry[11], v(11), {"RESUME_FROM"}, {})
    BY <2>1 DEF SetterSets
  <2> QED BY <1>3, <2>1, <2>2
<1>11. Step(13, options, {}, {})
  <2>1. Registry[13].name = "etag" /\ Registry[13].type # "sub" /\ SetterSets(Registry[13], v(13))
    BY <1>1, <1>2
  <2>2. Sets(Registry[13], v(13), {}, {})
    BY <2>1 DEF SetterSets
  <2> QED BY <1>3, <2>1, <2>2
<1>12. Step(14, options, {"ACCEPT_ENCODING"}, {})
  <2>1. Registry[14].name = "compress" /\ Registry[14].type # "sub" /\ SetterSets(Registry[14], v(14))
    BY <1>1, <1>2
  <2>2. Sets(Registry[14], v(14), {"ACCEPT_ENCODING"}, {})
    BY <2>1 DEF SetterSets
  <2> QED BY <1>3, <2>1, <2>2
<1>13. Step(15, options, {"TIMEVALUE", "TIMECONDITION"}, {"TIMECONDITION"})
  <2>1. Registry[15].name = "lastmodified" /\ Registry[15].type # "sub" /\ SetterSets(Registry[15], v(15))
    BY <1>1, <1>2
  <2>2. Sets(Registry[15], v(15), {"TIMEVALUE", "TIMECONDITION"}, {"TIMECONDITION"})
    BY <2>1 DEF SetterSets
  <2> QED BY <1>3, <2>1, <2>2
<1>14. Step(16, options, {}, {})
  <2>1. Registry[16].name = "encodecookies" /\ Registry[16].type # "sub" /\ SetterSets(Registry[16], v(16))
    BY <1>1, <1>2
  <2>2. Sets(Registry[16], v(16), {}, {})
    BY <2>1 DEF SetterSets
  <2> QED BY <1>3, <2>1, <2>2
<1>15. Step(17, options, {"COOKIE"}, {})
  <2>1. Registry[17].name = "cookies" /\ Registry[17].type # "sub" /\ SetterSets(Registry[17], v(17))
    BY <1>1, <1>2
  <2>2. Sets(Registry[17], v(17), {"COOKIE"}, {})
    BY <2>1 DEF SetterSets
  <2> QED BY <1>3, <2>1, <2>2
<1>16. Step(18, options, {"COOKIEFILE", "COOKIEJAR"}, {})
  <2>1. Registry[18].name = "cookiestore" /\ Registry[18].type # "sub" /\ SetterSets(Registry[18], v(18))
    BY <1>1, <1>2
  <2>2. Sets(Registry[18], v(18), {"COOKIEFILE", "COOKIEJAR"}, {})
    BY <2>1 DEF SetterSets
  <2> QED BY <1>3, <2>1, <2>2
<1> QED BY <1>4, <1>5, <1>6, <1>7, <1>8, <1>9, <1>10, <1>11, <1>12, <1>13, <1>14, <1>15, <1>16

LEMMA OtherSteps ==
  ASSUME NEW options
  PROVE  /\ Step(12, options, IF Ranges(options) = <<>> THEN {} ELSE {"RANGE"}, {"RANGE"})
         /\ Step(23, options, IF AltSvc(options) = 0 THEN {} ELSE {"ALTSVC_CTRL"}, {})
         /\ Step(21, options, IF "ssl" \in DOMAIN options THEN SubSettings("ssl") ELSE {}, {})
         /\ Step(22, options, IF "proxy_ssl" \in DOMAIN options THEN SubSettings("proxy_ssl") ELSE {}, {})
<1> DEFINE v == ValueOf(Registry[12], options)
           w == ValueOf(Registry[23], options)
<1>1. /\ Registry[12].name = "range" /\ Registry[12].type = "setter"
      /\ Registry[23].name = "altsvc_ctrl" /\ Registry[23].type = "setter"
      /\ Registry[21].name = "ssl" /\ Registry[21].type = "sub"
      /\ Registry[22].name = "proxy_ssl" /\ Registry[22].type = "sub"
  BY RegistryIs, ZenonT(60) DEF Entry
<1>2. RangesText(v) = Ranges(options)
  <2>1. Registry[12].def = <<>>
    <3>1. Registry[6 + 6] = RequestOptions[6]
      BY RegistryParts
    <3>2. RequestOptions[6] = Opt("range", "setter", "RANGE", <<>>)
      BY DEF RequestOptions
    <3> QED BY <3>1, <3>2 DEF Opt
  <2>2. RangesText(<<>>) = <<>>
    <3> DEFINE t == [i \in DOMAIN <<>> |-> RangeText(<<>>[i])]
    <3>1. Len(t) = 0
      OBVIOUS
    <3>2. RangesText(<<>>) = FlattenSeq(t)
      BY DEF RangesText
    <3> HIDE DEF t
    <3> QED BY <3>1, <3>2 DEF FlattenSeq
  <2> QED BY <1>1, <2>1, <2>2 DEF ValueOf, Ranges
<1>3. w = AltSvc(options)
  <2>1. Registry[23].def = 0
    <3>1. Registry[20 + 3] = LastOptions[3]
      BY RegistryParts
    <3>2. LastOptions[3] = Opt("altsvc_ctrl", "setter", "ALTSVC_CTRL", 0)
      BY DEF LastOptions
    <3> QED BY <3>1, <3>2 DEF Opt
  <2> QED BY <1>1, <2>1 DEF ValueOf, AltSvc
<1>4. Step(12, options, IF Ranges(options) = <<>> THEN {} ELSE {"RANGE"}, {"RANGE"})
  <2>1. Kept(Registry[12], v)
    BY <1>1, rangeKept
  <2>2. Sets(Registry[12], v, IF RangesText(v) = <<>> THEN {} ELSE {"RANGE"}, {"RANGE"})
    BY <1>1, SettersSet DEF SetterSets
  <2> QED BY <1>1, <1>2, <2>1, <2>2, StepIs
<1>5. Step(23, options, IF AltSvc(options) = 0 THEN {} ELSE {"ALTSVC_CTRL"}, {})
  <2>1. Sets(Registry[23], w, IF w = 0 THEN {} ELSE {"ALTSVC_CTRL"}, {})
    BY <1>1, SettersSet DEF SetterSets
  <2> QED BY <1>1, <1>3, <2>1, StepIs
<1> HIDE DEF v, w
<1>6. \A W : W \cup {} = W
  OBVIOUS
<1>7. Step(21, options, IF "ssl" \in DOMAIN options THEN SubSettings("ssl") ELSE {}, {})
  <2>1. CASE "ssl" \in DOMAIN options
    <3>1. \A s : apply_any(Registry[21], options, s) = apply_options(SslOptions, options["ssl"], s)
      BY <1>1, <2>1, SubSettingsAre DEF apply_any
    <3> QED BY <2>1, <3>1, sslBoth DEF Step
  <2>2. CASE "ssl" \notin DOMAIN options
    <3>1. \A s : apply_any(Registry[21], options, s) = s
      BY <1>1, <2>2 DEF apply_any
    <3> QED BY <1>6, <2>2, <3>1 DEF Step
  <2> QED BY <2>1, <2>2
<1>8. Step(22, options, IF "proxy_ssl" \in DOMAIN options THEN SubSettings("proxy_ssl") ELSE {}, {})
  <2>1. CASE "proxy_ssl" \in DOMAIN options
    <3>1. \A s : apply_any(Registry[22], options, s) = apply_options(ProxySslOptions, options["proxy_ssl"], s)
      BY <1>1, <2>1, SubSettingsAre DEF apply_any
    <3> QED BY <2>1, <3>1, proxysslBoth DEF Step
  <2>2. CASE "proxy_ssl" \notin DOMAIN options
    <3>1. \A s : apply_any(Registry[22], options, s) = s
      BY <1>1, <2>2 DEF apply_any
    <3> QED BY <1>6, <2>2, <3>1 DEF Step
  <2> QED BY <2>1, <2>2
<1> QED BY <1>4, <1>5, <1>7, <1>8

\* What all options together make alike.
AlwaysSet ==
  {"PROXY", "PROXYHEADER", "HEADEROPT", "UNIX_SOCKET_PATH", "RESOLVE", "LOCALPORT",
   "LOCALPORTRANGE", "USERPWD", "FOLLOWLOCATION", "MAXREDIRS", "AUTOREFERER", "RESUME_FROM",
   "ACCEPT_ENCODING", "TIMEVALUE", "TIMECONDITION", "COOKIE", "COOKIEFILE", "COOKIEJAR",
   "HTTP_VERSION", "TIMEOUT_MS"}
Claimed(options) ==
  AlwaysSet \cup (IF Ranges(options) = <<>> THEN {} ELSE {"RANGE"})
            \cup (IF "ssl" \in DOMAIN options THEN SubSettings("ssl") ELSE {})
            \cup (IF "proxy_ssl" \in DOMAIN options THEN SubSettings("proxy_ssl") ELSE {})
            \cup (IF AltSvc(options) = 0 THEN {} ELSE {"ALTSVC_CTRL"})

\* Two handlers that are alike are alike after the walk.
LEMMA OptionsBoth ==
  ASSUME NEW options, NEW a, NEW b, NEW W \in SUBSET Settings, Both(a, b, W),
         "RANGE" \notin W, "TIMECONDITION" \notin W
  PROVE  Both(options_apply(options, a), options_apply(options, b), W \cup Claimed(options))
<1>1. PICK f : Walk(f, Registry, options, a, 23) /\ options_apply(options, a) = f[23]
  BY WalkIs
<1>2. PICK g : Walk(g, Registry, options, b, 23) /\ options_apply(options, b) = g[23]
  BY WalkIs
<1>3. /\ f[0] = a /\ \A k \in 1 .. 23 : f[k] = apply_any(Registry[k], options, f[k - 1])
      /\ g[0] = b /\ \A k \in 1 .. 23 : g[k] = apply_any(Registry[k], options, g[k - 1])
  BY <1>1, <1>2, WalkSteps
<1> DEFINE Alikes(k, V) == Both(f[k], g[k], V) /\ V \in SUBSET Settings
<1>4. ASSUME NEW k \in 1 .. 23, NEW V, NEW X, NEW D, Alikes(k - 1, V), Step(k, options, X, D),
             V \cap D = {}, X \in SUBSET Settings
      PROVE  Alikes(k, V \cup X)
  <2>1. f[k] = apply_any(Registry[k], options, f[k - 1]) /\ g[k] = apply_any(Registry[k], options, g[k - 1])
    BY <1>3
  <2> QED BY <1>4, <2>1 DEF Step
<1>5. /\ AlwaysSet \subseteq Settings /\ "RANGE" \in Settings /\ "ALTSVC_CTRL" \in Settings
      /\ SubSettings("ssl") \subseteq Settings /\ SubSettings("proxy_ssl") \subseteq Settings
  BY SettingsAre DEF AlwaysSet, SetterSettings, PlainSettings
<1> DEFINE X1 == {"PROXY"}
           X2 == {"PROXYHEADER", "HEADEROPT"}
           X3 == {"UNIX_SOCKET_PATH"}
           X4 == {"RESOLVE"}
           X5 == {"LOCALPORT", "LOCALPORTRANGE"}
           X6 == {"USERPWD"}
           X7 == {"FOLLOWLOCATION", "MAXREDIRS"}
           X8 == {}
           X9 == {}
           X10 == {"AUTOREFERER"}
           X11 == {"RESUME_FROM"}
           X12 == IF Ranges(options) = <<>> THEN {} ELSE {"RANGE"}
           X13 == {}
           X14 == {"ACCEPT_ENCODING"}
           X15 == {"TIMEVALUE", "TIMECONDITION"}
           X16 == {}
           X17 == {"COOKIE"}
           X18 == {"COOKIEFILE", "COOKIEJAR"}
           X19 == {"HTTP_VERSION"}
           X20 == {"TIMEOUT_MS"}
           X21 == IF "ssl" \in DOMAIN options THEN SubSettings("ssl") ELSE {}
           X22 == IF "proxy_ssl" \in DOMAIN options THEN SubSettings("proxy_ssl") ELSE {}
           X23 == IF AltSvc(options) = 0 THEN {} ELSE {"ALTSVC_CTRL"}
<1>6. /\ X1 \subseteq Settings /\ X2 \subseteq Settings /\ X3 \subseteq Settings
      /\ X4 \subseteq Settings
      /\ X5 \subseteq Settings /\ X6 \subseteq Settings /\ X7 \subseteq Settings
      /\ X8 \subseteq Settings
      /\ X9 \subseteq Settings /\ X10 \subseteq Settings /\ X11 \subseteq Settings
      /\ X12 \subseteq Settings
      /\ X13 \subseteq Settings /\ X14 \subseteq Settings /\ X15 \subseteq Settings
      /\ X16 \subseteq Settings
      /\ X17 \subseteq Settings /\ X18 \subseteq Settings /\ X19 \subseteq Settings
      /\ X20 \subseteq Settings
      /\ X21 \subseteq Settings /\ X22 \subseteq Settings /\ X23 \subseteq Settings
  BY <1>5 DEF AlwaysSet
<1>7. /\ Step(1, options, X1, {})
      /\ Step(2, options, X2, {})
      /\ Step(3, options, X3, {})
      /\ Step(4, options, X4, {})
      /\ Step(5, options, X5, {})
      /\ Step(6, options, X6, {})
      /\ Step(7, options, X7, {})
      /\ Step(8, options, X8, {})
      /\ Step(9, options, X9, {})
      /\ Step(10, options, X10, {})
      /\ Step(11, options, X11, {})
      /\ Step(12, options, X12, {"RANGE"})
      /\ Step(13, options, X13, {})
      /\ Step(14, options, X14, {})
      /\ Step(15, options, X15, {"TIMECONDITION"})
      /\ Step(16, options, X16, {})
      /\ Step(17, options, X17, {})
      /\ Step(18, options, X18, {})
      /\ Step(19, options, X19, {})
      /\ Step(20, options, X20, {})
      /\ Step(21, options, X21, {})
      /\ Step(22, options, X22, {})
      /\ Step(23, options, X23, {})
  BY PlainSteps, SetterSteps, OtherSteps
<1> DEFINE W1 == W \cup X1
           W2 == W1 \cup X2
           W3 == W2 \cup X3
           W4 == W3 \cup X4
           W5 == W4 \cup X5
           W6 == W5 \cup X6
           W7 == W6 \cup X7
           W8 == W7 \cup X8
           W9 == W8 \cup X9
           W10 == W9 \cup X10
           W11 == W10 \cup X11
           W12 == W11 \cup X12
           W13 == W12 \cup X13
           W14 == W13 \cup X14
           W15 == W14 \cup X15
           W16 == W15 \cup X16
           W17 == W16 \cup X17
           W18 == W17 \cup X18
           W19 == W18 \cup X19
           W20 == W19 \cup X20
           W21 == W20 \cup X21
           W22 == W21 \cup X22
           W23 == W22 \cup X23
<1>8. "RANGE" \notin W11
  OBVIOUS
<1>9. "TIMECONDITION" \notin W14
  OBVIOUS
<1>10. W23 = W \cup Claimed(options)
  BY DEF Claimed, AlwaysSet
<1> HIDE DEF X1, X2, X3, X4, X5, X6, X7, X8, X9, X10, X11, X12, X13, X14, X15, X16, X17,
             X18, X19, X20, X21, X22, X23
<1> HIDE DEF W1, W2, W3, W4, W5, W6, W7, W8, W9, W10, W11, W12, W13, W14, W15, W16, W17,
             W18, W19, W20, W21, W22, W23, Alikes
<1>11. Alikes(0, W)
  BY <1>3 DEF Alikes
<1>12. Alikes(1, W1)
  <2>1. 1 \in 1 .. 23 /\ 1 - 1 = 0 /\ W1 = W \cup X1 /\ W \cap {} = {}
    BY DEF W1
  <2> QED BY <1>4, <1>6, <1>7, <1>11, <2>1
<1>13. Alikes(2, W2)
  <2>1. 2 \in 1 .. 23 /\ 2 - 1 = 1 /\ W2 = W1 \cup X2 /\ W1 \cap {} = {}
    BY DEF W2
  <2> QED BY <1>4, <1>6, <1>7, <1>12, <2>1
<1>14. Alikes(3, W3)
  <2>1. 3 \in 1 .. 23 /\ 3 - 1 = 2 /\ W3 = W2 \cup X3 /\ W2 \cap {} = {}
    BY DEF W3
  <2> QED BY <1>4, <1>6, <1>7, <1>13, <2>1
<1>15. Alikes(4, W4)
  <2>1. 4 \in 1 .. 23 /\ 4 - 1 = 3 /\ W4 = W3 \cup X4 /\ W3 \cap {} = {}
    BY DEF W4
  <2> QED BY <1>4, <1>6, <1>7, <1>14, <2>1
<1>16. Alikes(5, W5)
  <2>1. 5 \in 1 .. 23 /\ 5 - 1 = 4 /\ W5 = W4 \cup X5 /\ W4 \cap {} = {}
    BY DEF W5
  <2> QED BY <1>4, <1>6, <1>7, <1>15, <2>1
<1>17. Alikes(6, W6)
  <2>1. 6 \in 1 .. 23 /\ 6 - 1 = 5 /\ W6 = W5 \cup X6 /\ W5 \cap {} = {}
    BY DEF W6
  <2> QED BY <1>4, <1>6, <1>7, <1>16, <2>1
<1>18. Alikes(7, W7)
  <2>1. 7 \in 1 .. 23 /\ 7 - 1 = 6 /\ W7 = W6 \cup X7 /\ W6 \cap {} = {}
    BY DEF W7
  <2> QED BY <1>4, <1>6, <1>7, <1>17, <2>1
<1>19. Alikes(8, W8)
  <2>1. 8 \in 1 .. 23 /\ 8 - 1 = 7 /\ W8 = W7 \cup X8 /\ W7 \cap {} = {}
    BY DEF W8
  <2> QED BY <1>4, <1>6, <1>7, <1>18, <2>1
<1>20. Alikes(9, W9)
  <2>1. 9 \in 1 .. 23 /\ 9 - 1 = 8 /\ W9 = W8 \cup X9 /\ W8 \cap {} = {}
    BY DEF W9
  <2> QED BY <1>4, <1>6, <1>7, <1>19, <2>1
<1>21. Alikes(10, W10)
  <2>1. 10 \in 1 .. 23 /\ 10 - 1 = 9 /\ W10 = W9 \cup X10 /\ W9 \cap {} = {}
    BY DEF W10
  <2> QED BY <1>4, <1>6, <1>7, <1>20, <2>1
<1>22. Alikes(11, W11)
  <2>1. 11 \in 1 .. 23 /\ 11 - 1 = 10 /\ W11 = W10 \cup X11 /\ W10 \cap {} = {}
    BY DEF W11
  <2> QED BY <1>4, <1>6, <1>7, <1>21, <2>1
<1>23. Alikes(12, W12)
  <2>1. 12 \in 1 .. 23 /\ 12 - 1 = 11 /\ W12 = W11 \cup X12 /\ W11 \cap {"RANGE"} = {}
    BY <1>8 DEF W12
  <2> QED BY <1>4, <1>6, <1>7, <1>22, <2>1
<1>24. Alikes(13, W13)
  <2>1. 13 \in 1 .. 23 /\ 13 - 1 = 12 /\ W13 = W12 \cup X13 /\ W12 \cap {} = {}
    BY DEF W13
  <2> QED BY <1>4, <1>6, <1>7, <1>23, <2>1
<1>25. Alikes(14, W14)
  <2>1. 14 \in 1 .. 23 /\ 14 - 1 = 13 /\ W14 = W13 \cup X14 /\ W13 \cap {} = {}
    BY DEF W14
  <2> QED BY <1>4, <1>6, <1>7, <1>24, <2>1
<1>26. Alikes(15, W15)
  <2>1. 15 \in 1 .. 23 /\ 15 - 1 = 14 /\ W15 = W14 \cup X15 /\ W14 \cap {"TIMECONDITION"} = {}
    BY <1>9 DEF W15
  <2> QED BY <1>4, <1>6, <1>7, <1>25, <2>1
<1>27. Alikes(16, W16)
  <2>1. 16 \in 1 .. 23 /\ 16 - 1 = 15 /\ W16 = W15 \cup X16 /\ W15 \cap {} = {}
    BY DEF W16
  <2> QED BY <1>4, <1>6, <1>7, <1>26, <2>1
<1>28. Alikes(17, W17)
  <2>1. 17 \in 1 .. 23 /\ 17 - 1 = 16 /\ W17 = W16 \cup X17 /\ W16 \cap {} = {}
    BY DEF W17
  <2> QED BY <1>4, <1>6, <1>7, <1>27, <2>1
<1>29. Alikes(18, W18)
  <2>1. 18 \in 1 .. 23 /\ 18 - 1 = 17 /\ W18 = W17 \cup X18 /\ W17 \cap {} = {}
    BY DEF W18
  <2> QED BY <1>4, <1>6, <1>7, <1>28, <2>1
<1>30. Alikes(19, W19)
  <2>1. 19 \in 1 .. 23 /\ 19 - 1 = 18 /\ W19 = W18 \cup X19 /\ W18 \cap {} = {}
    BY DEF W19
  <2> QED BY <1>4, <1>6, <1>7, <1>29, <2>1
<1>31. Alikes(20, W20)
  <2>1. 20 \in 1 .. 23 /\ 20 - 1 = 19 /\ W20 = W19 \cup X20 /\ W19 \cap {} = {}
    BY DEF W20
  <2> QED BY <1>4, <1>6, <1>7, <1>30, <2>1
<1>32. Alikes(21, W21)
  <2>1. 21 \in 1 .. 23 /\ 21 - 1 = 20 /\ W21 = W20 \cup X21 /\ W20 \cap {} = {}
    BY DEF W21
  <2> QED BY <1>4, <1>6, <1>7, <1>31, <2>1
<1>33. Alikes(22, W22)
  <2>1. 22 \in 1 .. 23 /\ 22 - 1 = 21 /\ W22 = W21 \cup X22 /\ W21 \cap {} = {}
    BY DEF W22
  <2> QED BY <1>4, <1>6, <1>7, <1>32, <2>1
<1>34. Alikes(23, W23)
  <2>1. 23 \in 1 .. 23 /\ 23 - 1 = 22 /\ W23 = W22 \cup X23 /\ W22 \cap {} = {}
    BY DEF W23
  <2> QED BY <1>4, <1>6, <1>7, <1>33, <2>1
<1> QED BY <1>1, <1>2, <1>10, <1>34 DEF Alikes

-----------------------------------------------------------------------------
(* Reset and preparation of a handler.                                     *)

\* What a reset sets on the handle, and the driver before it applies the options.
ResetSet == {"URL", "METHOD", "CUSTOMREQUEST", "AUTOREFERER", "USERPWD", "SHARE", "VERBOSE"}

IsEasy(e) == e = [o \in Settings |-> e[o]]

\* Of the settings only the method is another.
MethodSet(e, t, w) ==
  IsEasy(t) /\ (\A o \in Settings \ {"METHOD"} : t[o] = e[o]) /\ t["METHOD"] = w

LEMMA MethodIs ==
  ASSUME NEW e, IsEasy(e)
  PROVE  /\ MethodSet(e, Method(e, "HTTPGET", TRUE), None)
         /\ MethodSet(e, Method(e, "POST", TRUE), <<"POST">>)
         /\ MethodSet(e, Method(e, "UPLOAD", TRUE), <<"PUT">>)
         /\ MethodSet(e, Method(e, "NOBODY", TRUE), <<"HEAD">>)
         /\ MethodSet(e, Method(e, "NOBODY", FALSE),
                      IF e["METHOD"] = <<"HEAD">> THEN None ELSE e["METHOD"])
<1>1. ASSUME NEW w PROVE MethodSet(e, [e EXCEPT !["METHOD"] = w], w)
  <2>1. "METHOD" \in Settings
    BY SettingsAre DEF DriverSettings
  <2> QED BY <2>1 DEF IsEasy, MethodSet
<1>2. /\ Method(e, "HTTPGET", TRUE) = [e EXCEPT !["METHOD"] = None]
      /\ Method(e, "POST", TRUE) = [e EXCEPT !["METHOD"] = <<"POST">>]
      /\ Method(e, "UPLOAD", TRUE) = [e EXCEPT !["METHOD"] = <<"PUT">>]
      /\ Method(e, "NOBODY", TRUE) = [e EXCEPT !["METHOD"] = <<"HEAD">>]
      /\ Method(e, "NOBODY", FALSE)
           = [e EXCEPT !["METHOD"] = IF e["METHOD"] = <<"HEAD">> THEN None ELSE e["METHOD"]]
  BY DEF Method
<1> QED BY <1>1, <1>2

LEMMA ResetSettingsIs ==
  ASSUME NEW e, IsEasy(e), NEW t, t = ResetSettings(e)
  PROVE  /\ IsEasy(t)
         /\ t["URL"] = None /\ t["METHOD"] = None /\ t["CUSTOMREQUEST"] = None
         /\ t["AUTOREFERER"] = <<TRUE>> /\ t["USERPWD"] = None /\ t["SHARE"] = <<TRUE>>
         /\ t["VERBOSE"] = <<TRUE>>
<1> DEFINE c == Method(e, "HTTPGET", TRUE)
           d == Method(c, "NOBODY", FALSE)
<1>1. IsEasy(c) /\ c["METHOD"] = None
  BY MethodIs DEF MethodSet
<1> HIDE DEF c
<1>2. IsEasy(d) /\ d["METHOD"] = None
  <2>1. IsEasy(d) /\ d["METHOD"] = IF c["METHOD"] = <<"HEAD">> THEN None ELSE c["METHOD"]
    BY <1>1, MethodIs DEF MethodSet
  <2> QED BY <1>1, <2>1
<1>3. t = ResetOthers(d)
  BY DEF ResetSettings, c
<1> HIDE DEF d
<1>4. /\ "URL" \in Settings /\ "METHOD" \in Settings /\ "CUSTOMREQUEST" \in Settings
      /\ "AUTOREFERER" \in Settings /\ "USERPWD" \in Settings /\ "SHARE" \in Settings
      /\ "VERBOSE" \in Settings
  BY SettingsAre DEF DriverSettings, PlainSettings
<1>5. t = [d EXCEPT !["URL"] = None, !["CUSTOMREQUEST"] = None, !["AUTOREFERER"] = <<TRUE>>,
                    !["USERPWD"] = None, !["SHARE"] = <<TRUE>>, !["VERBOSE"] = <<TRUE>>]
  BY <1>3 DEF ResetOthers
<1> HIDE <1>3
<1>6. /\ t = [o \in Settings |-> t[o]]
      /\ t["URL"] = None /\ t["METHOD"] = None /\ t["CUSTOMREQUEST"] = None
      /\ t["AUTOREFERER"] = <<TRUE>> /\ t["USERPWD"] = None /\ t["SHARE"] = <<TRUE>>
      /\ t["VERBOSE"] = <<TRUE>>
  BY <1>2, <1>4, <1>5 DEF IsEasy
<1> QED BY <1>6 DEF IsEasy

\* A handler that is reset.
IsReset(r) ==
  /\ IsHandler(r) /\ r.st = NoStorage /\ r.resolve = <<>> /\ r.retry = [count |-> 0, delay |-> 0]
  /\ r.redirects = 0 /\ r.encode_cookies = TRUE /\ r.headers = <<>> /\ r.proxyheaders = <<>>
  /\ r.cookies.used = 0
  /\ r.easy["METHOD"] = None /\ r.easy["CUSTOMREQUEST"] = None
  /\ r.easy["AUTOREFERER"] = <<TRUE>> /\ r.easy["USERPWD"] = None
  /\ r.easy["SHARE"] = <<TRUE>> /\ r.easy["VERBOSE"] = <<TRUE>>

LEMMA ResetIs ==
  ASSUME NEW h, IsHandler(h), NEW r, r = handler_reset(h)
  PROVE  IsReset(r) /\ r.range_request = h.range_request /\ r.ranges = TextReset(h.ranges)
<1> DEFINE e == ResetSettings(h.easy)
           c == TextReset(h.cookies)
           t == TextReset(h.ranges)
           y == [count |-> 0, delay |-> 0]
<1>1. /\ IsEasy(e)
      /\ e["METHOD"] = None /\ e["CUSTOMREQUEST"] = None
      /\ e["AUTOREFERER"] = <<TRUE>> /\ e["USERPWD"] = None /\ e["SHARE"] = <<TRUE>>
      /\ e["VERBOSE"] = <<TRUE>>
  <2>1. IsEasy(h.easy)
    BY DEF IsHandler, IsEasy
  <2> QED BY <2>1, ResetSettingsIs
<1>2. IsText(c) /\ IsText(t) /\ c.used = 0
  <2>1. IsText(h.cookies) /\ IsText(h.ranges)
    BY DEF IsHandler
  <2> QED BY <2>1 DEF IsText, TextReset
<1>3. r = [h EXCEPT !.st = NoStorage, !.resolve = <<>>, !.retry = y,
                    !.redirects = 0, !.encode_cookies = TRUE, !.headers = <<>>,
                    !.proxyheaders = <<>>, !.cookies = c, !.ranges = t, !.easy = e]
  BY DEF handler_reset
<1>4. /\ y = [count |-> y.count, delay |-> y.delay]
      /\ NoStorage = [url |-> NoStorage.url, cookiestore |-> NoStorage.cookiestore]
  BY DEF NoStorage
<1> HIDE DEF e, c, t, y
<1>5. h = [f \in Fields |-> h[f]] /\ h.ok \in BOOLEAN /\ h.range_request \in BOOLEAN
  BY DEF IsHandler
<1>6. /\ r = [f \in Fields |-> r[f]]
      /\ r.st = NoStorage /\ r.resolve = <<>> /\ r.retry = y
      /\ r.redirects = 0 /\ r.encode_cookies = TRUE /\ r.headers = <<>> /\ r.proxyheaders = <<>>
      /\ r.cookies = c /\ r.ranges = t /\ r.easy = e
      /\ r.ok = h.ok /\ r.range_request = h.range_request
  BY <1>3, <1>5, ZenonT(60) DEF Fields
<1>7. IsHandler(r)
  BY <1>1, <1>2, <1>4, <1>5, <1>6 DEF IsHandler, IsEasy
<1> QED BY <1>1, <1>2, <1>6, <1>7 DEF IsReset, t, y

LEMMA InitIs ==
  ASSUME NEW r, r = handler_init(NoSettings)
  PROVE  IsReset(r) /\ r.range_request = FALSE /\ r.ranges.data = <<>>
<1> DEFINE h == [easy |-> NoSettings, ok |-> TRUE, st |-> NoStorage, resolve |-> <<>>,
                 retry |-> [count |-> 0, delay |-> 0], redirects |-> 0, encode_cookies |-> TRUE,
                 range_request |-> FALSE, headers |-> <<>>, proxyheaders |-> <<>>,
                 cookies |-> NoText, ranges |-> NoText]
<1>1. r = handler_reset(h)
  BY DEF handler_init
<1>2. IsEasy(NoSettings) /\ IsText(NoText) /\ NoText.data = <<>>
  BY DEF IsEasy, NoSettings, IsText, NoText
<1>3. h = [f \in Fields |-> h[f]] /\ h.easy = NoSettings /\ h.st = NoStorage
      /\ h.retry = [count |-> 0, delay |-> 0] /\ h.cookies = NoText /\ h.ranges = NoText
      /\ h.ok = TRUE /\ h.range_request = FALSE
  BY DEF Fields
<1> HIDE DEF h
<1>4. IsHandler(h)
  BY <1>2, <1>3 DEF IsHandler, IsEasy, NoStorage
<1>5. IsReset(r) /\ r.range_request = h.range_request /\ r.ranges = TextReset(h.ranges)
  BY <1>1, <1>4, ResetIs
<1>6. TextReset(NoText).data = <<>>
  BY DEF TextReset, NoText
<1> QED BY <1>3, <1>5, <1>6

\* The handler when its options are about to be applied.
Begun(h, url) == [h EXCEPT !.ok = TRUE, !.st.url = <<url>>, !.easy["URL"] = <<url>>]

LEMMA BegunIs ==
  ASSUME NEW h, IsReset(h), NEW url, NEW t, t = Begun(h, url)
  PROVE  /\ IsHandler(t) /\ t.ok /\ Differ(h, t, {"ok", "st", "easy"})
         /\ t.st = [url |-> <<url>>, cookiestore |-> None]
         /\ t.easy["URL"] = <<url>>
         /\ \A o \in Settings \ {"URL"} : t.easy[o] = h.easy[o]
<1> DEFINE s == [h.st EXCEPT !.url = <<url>>]
           e == [h.easy EXCEPT !["URL"] = <<url>>]
<1>1. t = [h EXCEPT !.ok = TRUE, !.st = s, !.easy = e]
  BY DEF Begun
<1>2. IsHandler(h) /\ h.st = [url |-> None, cookiestore |-> None] /\ "URL" \in Settings
  BY SettingsAre DEF IsReset, NoStorage, DriverSettings
<1>3. s = [url |-> <<url>>, cookiestore |-> None]
  BY <1>2
<1>4. e = [o \in Settings |-> e[o]] /\ e["URL"] = <<url>> /\ \A o \in Settings \ {"URL"} : e[o] = h.easy[o]
  BY <1>2 DEF IsHandler
<1> HIDE DEF s, e
<1>5. h = [f \in Fields |-> h[f]]
  BY <1>2 DEF IsHandler
<1>6. /\ t = [f \in Fields |-> t[f]] /\ t.ok = TRUE /\ t.st = s /\ t.easy = e
      /\ Differ(h, t, {"ok", "st", "easy"})
  BY <1>1, <1>5 DEF Differ, Fields
<1>7. IsHandler(t)
  <2>1. /\ t.retry = h.retry /\ t.cookies = h.cookies /\ t.ranges = h.ranges
        /\ t.range_request = h.range_request
    BY <1>6 DEF Differ, Fields
  <2>2. /\ t.retry = [count |-> t.retry.count, delay |-> t.retry.delay]
        /\ IsText(t.cookies) /\ IsText(t.ranges) /\ t.range_request \in BOOLEAN
    BY <1>2, <2>1 DEF IsHandler
  <2>3. /\ t.st = [url |-> t.st.url, cookiestore |-> t.st.cookiestore]
        /\ t.easy = [o \in Settings |-> t.easy[o]] /\ t.ok \in BOOLEAN
    BY <1>3, <1>4, <1>6
  <2> QED BY <1>6, <2>2, <2>3 DEF IsHandler
<1> QED BY <1>3, <1>4, <1>6, <1>7

\* Two handlers that are reset are alike, one of them new.
LEMMA BegunBoth ==
  ASSUME NEW h, NEW r, IsReset(h), IsReset(r), r.range_request = FALSE, r.ranges.data = <<>>, NEW url
  PROVE  Both(Begun(h, url), Begun(r, url), ResetSet)
<1> DEFINE a == Begun(h, url)
           b == Begun(r, url)
<1>1. /\ IsHandler(a) /\ a.ok /\ Differ(h, a, {"ok", "st", "easy"})
      /\ a.st = [url |-> <<url>>, cookiestore |-> None]
      /\ a.easy["URL"] = <<url>>
      /\ \A o \in Settings \ {"URL"} : a.easy[o] = h.easy[o]
  BY BegunIs
<1>2. /\ IsHandler(b) /\ b.ok /\ Differ(r, b, {"ok", "st", "easy"})
      /\ b.st = [url |-> <<url>>, cookiestore |-> None]
      /\ b.easy["URL"] = <<url>>
      /\ \A o \in Settings \ {"URL"} : b.easy[o] = r.easy[o]
  BY BegunIs
<1> HIDE DEF a, b
<1>3. ResetSet \subseteq Settings
  BY SettingsAre DEF ResetSet, DriverSettings, PlainSettings
<1>4. SameSettings(a, b, ResetSet)
  <2>1. \A o \in ResetSet \ {"URL"} : a.easy[o] = h.easy[o] /\ b.easy[o] = r.easy[o]
    BY <1>1, <1>2, <1>3
  <2>2. \A o \in ResetSet \ {"URL"} : h.easy[o] = r.easy[o]
    BY DEF IsReset, ResetSet
  <2>3. \A o \in ResetSet : a.easy[o] = b.easy[o]
    BY <1>1, <1>2, <2>1, <2>2
  <2> QED BY <2>3 DEF SameSettings
<1>5. /\ a.resolve = h.resolve /\ a.retry = h.retry /\ a.redirects = h.redirects
      /\ a.encode_cookies = h.encode_cookies /\ a.headers = h.headers
      /\ a.proxyheaders = h.proxyheaders /\ a.cookies = h.cookies
  BY <1>1 DEF Differ, Fields
<1>6. /\ b.resolve = r.resolve /\ b.retry = r.retry /\ b.redirects = r.redirects
      /\ b.encode_cookies = r.encode_cookies /\ b.headers = r.headers
      /\ b.proxyheaders = r.proxyheaders /\ b.cookies = r.cookies
      /\ b.range_request = r.range_request /\ b.ranges = r.ranges
  BY <1>2 DEF Differ, Fields
<1>7. SameOptions(a, b)
  <2>1. /\ h.resolve = r.resolve /\ h.retry = r.retry /\ h.redirects = r.redirects
        /\ h.encode_cookies = r.encode_cookies /\ h.headers = r.headers
        /\ h.proxyheaders = r.proxyheaders /\ SameText(h.cookies, r.cookies)
    BY DEF IsReset, SameText
  <2>2. a.st = b.st /\ ~b.range_request
    BY <1>1, <1>2, <1>6
  <2> QED BY <1>5, <1>6, <2>1, <2>2 DEF SameOptions
<1>8. RangeKnown(b, ResetSet)
  BY <1>6 DEF RangeKnown
<1> QED BY <1>1, <1>2, <1>4, <1>7, <1>8 DEF Both, Alike, a, b

\* The settings of two handles, of which the first made a range request if rr.
EasyAlike(e, f, V, rr) ==
  IsEasy(e) /\ IsEasy(f) /\ \A o \in V : (o \in Late /\ rr) \/ e[o] = f[o]

LEMMA EasySet ==
  ASSUME NEW e, NEW f, NEW V \in SUBSET Settings, NEW rr, EasyAlike(e, f, V, rr),
         NEW o \in Settings, NEW v
  PROVE  EasyAlike([e EXCEPT ![o] = v], [f EXCEPT ![o] = v], V \cup {o}, rr)
BY DEF EasyAlike, IsEasy

LEMMA EasyMethod ==
  ASSUME NEW e, NEW f, NEW V \in SUBSET Settings, NEW rr, EasyAlike(e, f, V, rr),
         "METHOD" \in V, NEW c, NEW d, NEW w, MethodSet(e, c, w), MethodSet(f, d, w)
  PROVE  EasyAlike(c, d, V, rr)
BY DEF EasyAlike, MethodSet

\* The body of a request.
LEMMA BodyAlike ==
  ASSUME NEW e, NEW f, NEW V \in SUBSET Settings, NEW rr, EasyAlike(e, f, V, rr),
         "METHOD" \in V, NEW size
  PROVE  EasyAlike(WithBody(e, size), WithBody(f, size), V \cup {"READDATA", "INFILESIZE"}, rr)
<1> DEFINE X == V \cup {"READDATA", "INFILESIZE"}
<1>1. "READDATA" \in Settings /\ "INFILESIZE" \in Settings
  BY SettingsAre DEF DriverSettings
<1>2. ASSUME NEW x, NEW y
      PROVE  EasyAlike([e EXCEPT !["READDATA"] = x, !["INFILESIZE"] = y],
                       [f EXCEPT !["READDATA"] = x, !["INFILESIZE"] = y], X, rr)
  BY <1>1 DEF EasyAlike, IsEasy
<1>3. CASE size > 0
  <2> DEFINE c == [e EXCEPT !["READDATA"] = <<"body">>, !["INFILESIZE"] = <<size>>]
             d == [f EXCEPT !["READDATA"] = <<"body">>, !["INFILESIZE"] = <<size>>]
  <2>1. EasyAlike(c, d, X, rr)
    BY <1>2
  <2>2. WithBody(e, size) = Method(c, "POST", TRUE) /\ WithBody(f, size) = Method(d, "POST", TRUE)
    BY <1>3 DEF WithBody
  <2> HIDE DEF c, d
  <2>3. MethodSet(c, Method(c, "POST", TRUE), <<"POST">>) /\ MethodSet(d, Method(d, "POST", TRUE), <<"POST">>)
    BY <2>1, MethodIs DEF EasyAlike
  <2>4. X \in SUBSET Settings /\ "METHOD" \in X
    BY <1>1
  <2> HIDE DEF X
  <2>5. EasyAlike(Method(c, "POST", TRUE), Method(d, "POST", TRUE), X, rr)
    BY <2>1, <2>3, <2>4, EasyMethod
  <2> QED BY <2>2, <2>5 DEF X
<1>4. CASE ~(size > 0)
  BY <1>2, <1>4 DEF WithBody
<1> QED BY <1>3, <1>4

\* Its method.
LEMMA MethodAlike ==
  ASSUME NEW e, NEW f, NEW V \in SUBSET Settings, NEW rr, EasyAlike(e, f, V, rr),
         "METHOD" \in V, "CUSTOMREQUEST" \in V, NEW method
  PROVE  EasyAlike(WithMethod(e, method), WithMethod(f, method), V, rr)
<1>1. IsEasy(e) /\ IsEasy(f)
  BY DEF EasyAlike
<1>2. CASE method = "HEAD"
  <2>1. WithMethod(e, method) = Method(e, "NOBODY", TRUE) /\ WithMethod(f, method) = Method(f, "NOBODY", TRUE)
    BY <1>2 DEF WithMethod
  <2>2. /\ MethodSet(e, Method(e, "NOBODY", TRUE), <<"HEAD">>)
        /\ MethodSet(f, Method(f, "NOBODY", TRUE), <<"HEAD">>)
    BY <1>1, MethodIs
  <2> QED BY <2>1, <2>2, EasyMethod
<1>3. CASE method = "PUT"
  <2>1. WithMethod(e, method) = Method(e, "UPLOAD", TRUE) /\ WithMethod(f, method) = Method(f, "UPLOAD", TRUE)
    BY <1>3 DEF WithMethod
  <2>2. /\ MethodSet(e, Method(e, "UPLOAD", TRUE), <<"PUT">>)
        /\ MethodSet(f, Method(f, "UPLOAD", TRUE), <<"PUT">>)
    BY <1>1, MethodIs
  <2> QED BY <2>1, <2>2, EasyMethod
<1>4. CASE method # "HEAD" /\ method # "PUT"
  <2>1. /\ WithMethod(e, method) = [e EXCEPT !["CUSTOMREQUEST"] = <<method>>]
        /\ WithMethod(f, method) = [f EXCEPT !["CUSTOMREQUEST"] = <<method>>]
    BY <1>4 DEF WithMethod
  <2>2. "CUSTOMREQUEST" \in Settings /\ V \cup {"CUSTOMREQUEST"} = V
    OBVIOUS
  <2>3. EasyAlike([e EXCEPT !["CUSTOMREQUEST"] = <<method>>],
                  [f EXCEPT !["CUSTOMREQUEST"] = <<method>>], V \cup {"CUSTOMREQUEST"}, rr)
    BY <2>2, EasySet
  <2> QED BY <2>1, <2>2, <2>3
<1> QED BY <1>2, <1>3, <1>4

\* Headers, body and method of the request.
LEMMA MessageBoth ==
  ASSUME NEW a, NEW b, NEW W \in SUBSET Settings, Both(a, b, W), a.ok,
         "METHOD" \in W, "CUSTOMREQUEST" \in W, NEW msg,
         NEW c, c = PrepareMessage(a, msg), NEW d, d = PrepareMessage(b, msg)
  PROVE  /\ IsHandler(c) /\ Differ(a, c, {"headers", "easy"}) /\ Differ(b, d, {"headers", "easy"})
         /\ EasyAlike(c.easy, d.easy, W \cup {"HTTPHEADER", "READDATA", "INFILESIZE"}, a.range_request)
<1> DEFINE rr == a.range_request
           Lines(s) == s.headers \o HeaderLines(msg.hdrs)
           E(s) == [s.easy EXCEPT !["HTTPHEADER"] = List(Lines(s))]
           B(s) == WithBody(E(s), msg.size)
           M(s) == IF msg.method = "" THEN B(s) ELSE WithMethod(B(s), msg.method)
           V == W \cup {"HTTPHEADER"}
           X == V \cup {"READDATA", "INFILESIZE"}
<1>1. /\ IsHandler(a) /\ IsHandler(b) /\ SameOptions(a, b) /\ SameSettings(a, b, W)
  BY DEF Both, Alike
<1>2. /\ c = [a EXCEPT !.headers = Lines(a), !.easy = M(a)]
      /\ d = [b EXCEPT !.headers = Lines(b), !.easy = M(b)]
  BY DEF PrepareMessage
<1>3. V \in SUBSET Settings /\ X \in SUBSET Settings
  BY SettingsAre DEF DriverSettings
<1>4. EasyAlike(E(a), E(b), V, rr)
  <2> DEFINE x == List(Lines(a))
             y == List(Lines(b))
  <2>1. rr \/ x = y
    <3>1. rr \/ a.headers = b.headers
      BY <1>1 DEF SameOptions
    <3> QED BY <3>1
  <2> HIDE DEF x, y
  <2>2. EasyAlike(a.easy, b.easy, W, rr)
    BY <1>1 DEF EasyAlike, IsEasy, IsHandler, SameSettings
  <2> HIDE DEF rr
  <2>3. "HTTPHEADER" \in Late /\ "HTTPHEADER" \in Settings
    BY <1>3 DEF Late
  <2> DEFINE e == a.easy
             f == b.easy
  <2> HIDE DEF e, f
  <2>4. EasyAlike([e EXCEPT !["HTTPHEADER"] = x], [f EXCEPT !["HTTPHEADER"] = y], V, rr)
    BY <2>1, <2>2, <2>3 DEF EasyAlike, IsEasy, e, f
  <2> QED BY <2>4 DEF e, f, x, y
<1> HIDE DEF E, rr
<1>5. EasyAlike(B(a), B(b), X, rr)
  BY <1>3, <1>4, BodyAlike
<1> HIDE DEF B
<1>6. EasyAlike(M(a), M(b), X, rr)
  <2>1. "METHOD" \in X /\ "CUSTOMREQUEST" \in X
    OBVIOUS
  <2> HIDE DEF X
  <2> QED BY <1>3, <1>5, <2>1, MethodAlike
<1> HIDE DEF M, Lines
<1>7. /\ c = [f \in Fields |-> c[f]] /\ c.easy = M(a) /\ Differ(a, c, {"headers", "easy"})
      /\ d.easy = M(b) /\ Differ(b, d, {"headers", "easy"})
  <2>1. a = [f \in Fields |-> a[f]] /\ b = [f \in Fields |-> b[f]]
    BY <1>1 DEF IsHandler
  <2> QED BY <1>2, <2>1 DEF Fields, Differ
<1>8. IsHandler(c)
  <2>1. /\ c.ok = a.ok /\ c.st = a.st /\ c.retry = a.retry /\ c.cookies = a.cookies
        /\ c.ranges = a.ranges /\ c.range_request = a.range_request
    BY <1>7 DEF Differ, Fields
  <2>2. /\ c.st = [url |-> c.st.url, cookiestore |-> c.st.cookiestore]
        /\ c.retry = [count |-> c.retry.count, delay |-> c.retry.delay]
        /\ IsText(c.cookies) /\ IsText(c.ranges) /\ c.ok \in BOOLEAN /\ c.range_request \in BOOLEAN
    BY <1>1, <2>1 DEF IsHandler
  <2>3. c.easy = [o \in Settings |-> c.easy[o]]
    BY <1>6, <1>7 DEF EasyAlike, IsEasy
  <2> QED BY <1>7, <2>2, <2>3 DEF IsHandler
<1>9. X = W \cup {"HTTPHEADER", "READDATA", "INFILESIZE"}
  OBVIOUS
<1> QED BY <1>6, <1>7, <1>8, <1>9 DEF rr

\* Of which settings nothing is claimed.
LEMMA LeftBehindIs ==
  ASSUME NEW o, NEW c, NEW e, e.options = o, e.h = c
  PROVE  /\ Ranges(o) = <<>> => "RANGE" \in LeftBehind(e)
         /\ AltSvc(o) = 0 => "ALTSVC_CTRL" \in LeftBehind(e)
         /\ "ssl" \notin DOMAIN o => SubSettings("ssl") \subseteq LeftBehind(e)
         /\ "proxy_ssl" \notin DOMAIN o => SubSettings("proxy_ssl") \subseteq LeftBehind(e)
         /\ c.range_request => Late \subseteq LeftBehind(e)
<1> DEFINE P == IF Given(e, "range") /\ RangesText(e.options["range"]) # <<>> THEN {} ELSE {"RANGE"}
           Q == UNION {{SubOptions[n][i].opt : i \in DOMAIN SubOptions[n]} :
                          n \in DOMAIN SubOptions \ DOMAIN e.options}
           R == IF Given(e, "altsvc_ctrl") /\ e.options["altsvc_ctrl"] # 0 THEN {} ELSE {"ALTSVC_CTRL"}
           S == IF e.h.range_request THEN {"TIMECONDITION", "HTTPHEADER"} ELSE {}
<1>1. LeftBehind(e) = P \cup R \cup S \cup Q
  BY DEF LeftBehind
<1>2. Ranges(o) = <<>> => "RANGE" \in P
  BY DEF Given, Ranges
<1>3. AltSvc(o) = 0 => "ALTSVC_CTRL" \in R
  BY DEF Given, AltSvc
<1>4. \A n \in DOMAIN SubOptions \ DOMAIN o : SubSettings(n) \subseteq Q
  BY DEF SubSettings
<1>5. c.range_request => Late \subseteq S
  BY DEF Late
<1> HIDE DEF P, Q, R, S
<1> QED BY <1>1, <1>2, <1>3, <1>4, <1>5, SubSettingsAre

\* All settings are made alike or left behind.
LEMMA AllSettings ==
  ASSUME NEW o, NEW c, NEW e, e.options = o, e.h = c
  PROVE  \A x \in Settings \ LeftBehind(e) :
           /\ x \in (ResetSet \cup Claimed(o)) \cup {"HTTPHEADER", "READDATA", "INFILESIZE"}
           /\ ~(x \in Late /\ c.range_request)
<1> DEFINE L == LeftBehind(e)
           X == (ResetSet \cup Claimed(o)) \cup {"HTTPHEADER", "READDATA", "INFILESIZE"}
<1>1. /\ Ranges(o) = <<>> => "RANGE" \in L
      /\ AltSvc(o) = 0 => "ALTSVC_CTRL" \in L
      /\ "ssl" \notin DOMAIN o => SubSettings("ssl") \subseteq L
      /\ "proxy_ssl" \notin DOMAIN o => SubSettings("proxy_ssl") \subseteq L
      /\ c.range_request => Late \subseteq L
  BY LeftBehindIs
<1> HIDE DEF L
<1>2. /\ Ranges(o) # <<>> => "RANGE" \in X
      /\ AltSvc(o) # 0 => "ALTSVC_CTRL" \in X
      /\ "ssl" \in DOMAIN o => SubSettings("ssl") \subseteq X
      /\ "proxy_ssl" \in DOMAIN o => SubSettings("proxy_ssl") \subseteq X
  BY DEF Claimed
<1>3. DriverSettings \subseteq X /\ PlainSettings \subseteq X
      /\ SetterSettings \ {"RANGE", "ALTSVC_CTRL", "SSL_VERIFYHOST"} \subseteq X
  BY DEF DriverSettings, PlainSettings, SetterSettings, ResetSet, Claimed, AlwaysSet
<1> HIDE DEF X
<1>4. "SSL_VERIFYHOST" \in SubSettings("ssl")
  BY SubSettingsAre
<1>5. ASSUME NEW x \in Settings, x \notin L PROVE x \in X
  <2>1. x \in DriverSettings \cup SetterSettings \cup PlainSettings
               \cup SubSettings("ssl") \cup SubSettings("proxy_ssl")
    BY SettingsAre
  <2> QED BY <1>1, <1>2, <1>3, <1>4, <1>5, <2>1
<1> QED BY <1>1, <1>5 DEF L, X

\* A handler stays one when it is prepared, and when that succeeds is like a new one.
LEMMA PreparedAlike ==
  ASSUME NEW h, IsReset(h), NEW o, NEW msg, NEW c, c = handler_prepare(h, o, msg),
         NEW d, d = handler_prepare(handler_init(NoSettings), o, msg)
  PROVE  /\ IsHandler(c)
         /\ Prepares(h, o, msg) =>
              \A e : e.options = o /\ e.h = c =>
                /\ \A x \in Settings \ LeftBehind(e) : c.easy[x] = d.easy[x]
                /\ c.retry = d.retry /\ c.redirects = d.redirects
                /\ c.st.cookiestore = d.st.cookiestore /\ c.st.url = d.st.url
<1> DEFINE r == handler_init(NoSettings)
           m == update_headers(msg)
           a == Applied(h, o, msg)
           b == Applied(r, o, msg)
           W == ResetSet \cup Claimed(o)
           X == W \cup {"HTTPHEADER", "READDATA", "INFILESIZE"}
<1>1. IsReset(r) /\ r.range_request = FALSE /\ r.ranges.data = <<>>
  BY InitIs
<1>2. /\ c = IF a.ok THEN PrepareMessage(a, m) ELSE a
      /\ d = IF b.ok THEN PrepareMessage(b, m) ELSE b
  BY DEF handler_prepare
<1> HIDE DEF r, m
<1>3. CASE msg.url = ""
  <2>1. a = Assigned(h, "ok", FALSE)
    BY <1>3 DEF Applied, Assigned
  <2>2. IsHandler(h) /\ FieldIs("ok", FALSE) /\ "ok" \in Fields
    BY DEF IsReset, FieldIs, Fields
  <2> HIDE DEF a
  <2>3. IsHandler(a) /\ a["ok"] = FALSE
    BY <2>1, <2>2, UpdateIs
  <2>4. ~Prepares(h, o, msg)
    BY <2>3 DEF Prepares, a
  <2> QED BY <1>2, <2>3, <2>4
<1>4. CASE msg.url # ""
  <2>1. a = options_apply(o, Begun(h, msg.url)) /\ b = options_apply(o, Begun(r, msg.url))
    BY <1>4 DEF Applied, Begun
  <2> HIDE DEF a, b
  <2>2. Both(Begun(h, msg.url), Begun(r, msg.url), ResetSet)
    BY <1>1, BegunBoth
  <2>3. /\ ResetSet \in SUBSET Settings /\ "RANGE" \notin ResetSet /\ "TIMECONDITION" \notin ResetSet
        /\ "METHOD" \in ResetSet /\ "CUSTOMREQUEST" \in ResetSet
    BY SettingsAre DEF ResetSet, DriverSettings, PlainSettings
  <2>4. Both(a, b, W)
    BY <2>1, <2>2, <2>3, OptionsBoth
  <2>5. W \in SUBSET Settings
    <3>1. AlwaysSet \subseteq Settings /\ "RANGE" \in Settings /\ "ALTSVC_CTRL" \in Settings
          /\ SubSettings("ssl") \subseteq Settings /\ SubSettings("proxy_ssl") \subseteq Settings
      BY SettingsAre DEF AlwaysSet, SetterSettings, PlainSettings
    <3> QED BY <2>3, <3>1 DEF Claimed
  <2>6. "METHOD" \in W /\ "CUSTOMREQUEST" \in W
    BY <2>3
  <2> HIDE DEF W
  <2>7. CASE ~a.ok
    <3>1. c = a /\ IsHandler(a)
      BY <1>2, <2>4, <2>7 DEF Both
    <3>2. ~Prepares(h, o, msg)
      BY <2>7 DEF Prepares, a
    <3> QED BY <3>1, <3>2
  <2>8. CASE a.ok
    <3>1. b.ok /\ SameOptions(a, b)
      BY <2>4, <2>8, BothAre
    <3>2. c = PrepareMessage(a, m) /\ d = PrepareMessage(b, m)
      BY <1>2, <2>8, <3>1
    <3>3. /\ IsHandler(c) /\ Differ(a, c, {"headers", "easy"}) /\ Differ(b, d, {"headers", "easy"})
          /\ EasyAlike(c.easy, d.easy, X, a.range_request)
      BY <2>4, <2>5, <2>6, <2>8, <3>2, MessageBoth
    <3>4. /\ c.retry = a.retry /\ c.redirects = a.redirects /\ c.st = a.st
          /\ d.retry = b.retry /\ d.redirects = b.redirects /\ d.st = b.st
          /\ c.range_request = a.range_request
      BY <3>3 DEF Differ, Fields
    <3>5. c.retry = d.retry /\ c.redirects = d.redirects /\ c.st = d.st
      BY <3>1, <3>4 DEF SameOptions
    <3>6. ASSUME NEW e, e.options = o, e.h = c, NEW x \in Settings \ LeftBehind(e)
          PROVE  c.easy[x] = d.easy[x]
      <4>1. x \in X /\ ~(x \in Late /\ c.range_request)
        BY <3>6, AllSettings DEF W
      <4> QED BY <3>3, <3>4, <4>1 DEF EasyAlike
    <3> QED BY <3>3, <3>5, <3>6
  <2> QED BY <2>7, <2>8
<1> QED BY <1>3, <1>4

-----------------------------------------------------------------------------
(* Every handle is one that was prepared as a new one.                     *)

\* The handler of the request is one, and idle handles have nothing set.
HandlesClean == pool \subseteq {NoSettings} /\ (q # None => IsHandler(q[1].h))

\* The invariant.
PrepareInv == HandlesClean /\ PreparedAsFresh

LEMMA PrepareStart == Init => PrepareInv
BY DEF Init, PrepareInv, HandlesClean, PreparedAsFresh

\* A handler has been reset, and prepared: with or without success.
LEMMA PreparedNow ==
  ASSUME NEW h, IsReset(h), NEW o, NEW msg, NEW ready, ready => Prepares(h, o, msg),
         q' = <<[options |-> o, h |-> handler_prepare(h, o, msg), msg |-> msg, ready |-> ready]>>,
         pool' \subseteq {NoSettings}
  PROVE  PrepareInv'
<1> DEFINE c == handler_prepare(h, o, msg)
           d == handler_prepare(handler_init(NoSettings), o, msg)
           e == [options |-> o, h |-> c, msg |-> msg, ready |-> ready]
<1>1. q'[1] = e
  OBVIOUS
<1>2. e.options = o /\ e.h = c /\ e.msg = msg /\ e.ready = ready
  OBVIOUS
<1> HIDE DEF e
<1>3. IsHandler(q'[1].h)
  <2>1. IsHandler(c)
    BY PreparedAlike
  <2> QED BY <1>1, <1>2, <2>1
<1>4. ASSUME q'[1].ready
      PROVE  /\ \A x \in Settings \ LeftBehind(e) : e.h.easy[x] = d.easy[x]
             /\ e.h.retry = d.retry /\ e.h.redirects = d.redirects
             /\ e.h.st.cookiestore = d.st.cookiestore /\ e.h.st.url = d.st.url
  <2>1. Prepares(h, o, msg)
    BY <1>1, <1>2, <1>4
  <2> HIDE DEF c, d
  <2>2. /\ \A x \in Settings \ LeftBehind(e) : c.easy[x] = d.easy[x]
        /\ c.retry = d.retry /\ c.redirects = d.redirects
        /\ c.st.cookiestore = d.st.cookiestore /\ c.st.url = d.st.url
    BY <1>2, <2>1, PreparedAlike DEF c, d
  <2> QED BY <1>2, <2>2
<1>5. PreparedAsFresh'
  BY <1>1, <1>2, <1>4 DEF PreparedAsFresh
<1>6. HandlesClean'
  BY <1>3 DEF HandlesClean
<1> QED BY <1>5, <1>6 DEF PrepareInv

LEMMA PrepareStep == PrepareInv /\ [Next]_vars => PrepareInv'
<1> SUFFICES ASSUME PrepareInv, [Next]_vars PROVE PrepareInv'
  OBVIOUS
<1>1. pool \subseteq {NoSettings} /\ (q # None => IsHandler(q[1].h))
  BY DEF PrepareInv, HandlesClean
<1>2. ASSUME UNCHANGED <<q, pool>> PROVE PrepareInv'
  BY <1>2 DEF PrepareInv, HandlesClean, PreparedAsFresh
<1>3. \A h : Retired(h) \subseteq {NoSettings}
  BY <1>1 DEF Retired, retire_ch
<1>4. CASE enqueue
  <2> DEFINE o == combined_options(copts, ropts)
             h == handler_init(NoSettings)
  <2>1. CASE UNCHANGED q
    <3>1. pool' \subseteq {NoSettings}
      BY <1>1, <1>3, <1>4 DEF enqueue
    <3> QED BY <2>1, <3>1 DEF PrepareInv, HandlesClean, PreparedAsFresh
  <2>2. CASE ~UNCHANGED q
    <3>1. /\ q' = <<[options |-> o, h |-> handler_prepare(h, o, request), msg |-> request, ready |-> TRUE]>>
          /\ Prepares(h, o, request) /\ UNCHANGED pool
      <4>1. \A easy \in Handles : easy = NoSettings
        BY <1>1 DEF Handles
      <4> QED BY <1>4, <2>2, <4>1 DEF enqueue
    <3>2. IsReset(h)
      BY InitIs
    <3> HIDE DEF h
    <3> QED BY <1>1, <3>1, <3>2, PreparedNow
  <2> QED BY <2>1, <2>2
<1>5. CASE requeue
  <2> DEFINE o == combined_options(copts, ropts)
             h == handler_reset(q[1].h)
  <2>1. PICK ready \in {Prepares(h, o, request)} :
          q' = <<[options |-> o, h |-> handler_prepare(h, o, request), msg |-> request, ready |-> ready]>>
    BY <1>5 DEF requeue
  <2>2. UNCHANGED pool /\ q # None
    BY <1>5 DEF requeue
  <2>3. IsReset(h)
    BY <1>1, <2>2, ResetIs
  <2> HIDE DEF h
  <2>4. ready => Prepares(h, o, request)
    OBVIOUS
  <2> QED BY <1>1, <2>1, <2>2, <2>3, <2>4, PreparedNow
<1>6. CASE dequeue
  <2>1. q' = None /\ pool' \subseteq {NoSettings}
    BY <1>3, <1>6 DEF dequeue
  <2> QED BY <2>1 DEF PrepareInv, HandlesClean, PreparedAsFresh
<1>7. ASSUME NEW n \in ClientOptions, setClientOptions(n) PROVE PrepareInv'
  BY <1>2, <1>7 DEF setClientOptions
<1>8. ASSUME NEW n \in OptionSets, setOptions(n) PROVE PrepareInv'
  BY <1>2, <1>8 DEF setOptions
<1>9. ASSUME NEW c \in SslCalls, setSslOptions(c[1], c[2]) PROVE PrepareInv'
  BY <1>2, <1>9 DEF setSslOptions
<1>10. ASSUME NEW c \in CookieCalls, setCookies(c[1], c[2]) PROVE PrepareInv'
  BY <1>2, <1>10 DEF setCookies
<1>11. ASSUME NEW r \in Requests, ModifyRequest(r) PROVE PrepareInv'
  BY <1>2, <1>11 DEF ModifyRequest
<1>12. ASSUME NEW i \in DOMAIN delivered, Release(i) PROVE PrepareInv'
  BY <1>2, <1>12 DEF Release
<1>13. CASE read_callback
  BY <1>2, <1>13 DEF read_callback
<1>14. CASE seek_callback
  BY <1>2, <1>14 DEF seek_callback
<1>15. ASSUME NEW b \in Interim \cup Final, header_callback(b) PROVE PrepareInv'
  BY <1>2, <1>15 DEF header_callback
<1>16. CASE body_callback
  BY <1>2, <1>16 DEF body_callback
<1>17. ASSUME NEW r \in {"OK", "error"}, Deliver(r) PROVE PrepareInv'
  BY <1>2, <1>17 DEF Deliver
<1>18. CASE UNCHANGED vars
  BY <1>2, <1>18 DEF vars
<1> QED BY <1>4, <1>5, <1>6, <1>7, <1>8, <1>9, <1>10, <1>11, <1>12, <1>13, <1>14, <1>15, <1>16,
           <1>17, <1>18 DEF Next

\* A handle that requeue() has reset and prepared again is set as a new one for the
\* request would be, apart from what LeftBehind lists: with every set of options, request
\* and history of earlier uses, and whatever libcurl rejects.
THEOREM HandlesPrepared == Spec => []PreparedAsFresh
<1>1. PrepareInv => PreparedAsFresh
  BY DEF PrepareInv
<1> QED BY <1>1, PrepareStart, PrepareStep, PTL DEF Spec
=============================================================================
