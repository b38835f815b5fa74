---------------------------- MODULE ClientProofs ----------------------------
(***************************************************************************)
(* Proofs about Client: the queue invariants hold for every set of         *)
(* requests, handlers and callables, whatever user callbacks do.           *)
(***************************************************************************)
EXTENDS Client, TLAPS, FiniteSetTheorems

-----------------------------------------------------------------------------
(* The stack.                                                              *)

\* The user callbacks on a stack: what client->callback.depth counts.
Callbacks(s) == {i \in DOMAIN s : s[i].kind \in CallbackKinds}
DepthOf(s) == Cardinality(Callbacks(s))

\* Only callbacks keep a handler, and a "prepare" keeps the request.
FrameOK(f) ==
  /\ f.kind = "prepare" => f.r \in Request
  /\ f.h # NoHandler => f.kind \in CallbackKinds

StackOK(s, d) ==
  /\ s \in Seq(Frames)
  /\ \A i \in DOMAIN s : FrameOK(s[i])
  /\ d = DepthOf(s)

\* The callback frames of a stack are finitely many.
LEMMA CallbacksFinite ==
  ASSUME NEW s \in Seq(Frames)
  PROVE  IsFiniteSet(Callbacks(s)) /\ DepthOf(s) \in Nat
<1>1. DOMAIN s = 1 .. Len(s) /\ Len(s) \in Nat
  OBVIOUS
<1>2. IsFiniteSet(1 .. Len(s))
  BY <1>1, FS_Interval
<1>3. Callbacks(s) \subseteq 1 .. Len(s)
  BY <1>1 DEF Callbacks
<1>4. IsFiniteSet(Callbacks(s))
  BY <1>2, <1>3, FS_Subset
<1> QED
  BY <1>4, FS_CardinalityType DEF DepthOf

\* Entering a function or a callback keeps the stack well formed.
LEMMA PushFrame ==
  ASSUME NEW s, NEW d, StackOK(s, d), NEW f \in Frames, FrameOK(f)
  PROVE  StackOK(Append(s, f), IF f.kind \in CallbackKinds THEN d + 1 ELSE d)
<1> DEFINE t == Append(s, f)
           n == Len(s) + 1
<1>1. s \in Seq(Frames) /\ d = DepthOf(s)
  BY DEF StackOK
<1>2. /\ t \in Seq(Frames)
      /\ DOMAIN s = 1 .. Len(s)
      /\ DOMAIN t = 1 .. n
      /\ Len(s) \in Nat
      /\ t[n] = f
      /\ \A i \in 1 .. Len(s) : t[i] = s[i]
  BY <1>1
<1>3. \A i \in DOMAIN t : FrameOK(t[i])
  <2> SUFFICES ASSUME NEW i \in 1 .. n PROVE FrameOK(t[i])
    BY <1>2
  <2>1. CASE i = n
    BY <2>1, <1>2
  <2>2. CASE i # n
    BY <2>2, <1>2 DEF StackOK
  <2> QED BY <2>1, <2>2
<1>4. IsFiniteSet(Callbacks(s)) /\ DepthOf(s) \in Nat
  BY <1>1, CallbacksFinite
<1>5. CASE f.kind \in CallbackKinds
  <2>1. Callbacks(t) = Callbacks(s) \cup {n} /\ n \notin Callbacks(s)
    BY <1>2, <1>5 DEF Callbacks
  <2>2. DepthOf(t) = DepthOf(s) + 1
    BY <2>1, <1>4, FS_AddElement DEF DepthOf
  <2> QED BY <2>2, <1>1, <1>2, <1>3, <1>5 DEF StackOK
<1>6. CASE f.kind \notin CallbackKinds
  <2>1. Callbacks(t) = Callbacks(s)
    BY <1>2, <1>6 DEF Callbacks
  <2> QED BY <2>1, <1>1, <1>2, <1>3, <1>6 DEF StackOK, DepthOf
<1> QED BY <1>5, <1>6

\* A stack that is not empty is its lower part with the top frame pushed.
LEMMA SplitStack ==
  ASSUME NEW s \in Seq(Frames), s # <<>>
  PROVE  LET b == SubSeq(s, 1, Len(s) - 1)
         IN  /\ b \in Seq(Frames)
             /\ s[Len(s)] \in Frames
             /\ Len(s) \in DOMAIN s
             /\ Len(b) = Len(s) - 1
             /\ s = Append(b, s[Len(s)])
             /\ \A i \in DOMAIN b : i \in DOMAIN s /\ b[i] = s[i]
<1> DEFINE b == SubSeq(s, 1, Len(s) - 1)
<1>1. Len(s) \in Nat /\ Len(s) >= 1 /\ DOMAIN s = 1 .. Len(s)
  OBVIOUS
<1>2. b \in Seq(Frames) /\ Len(b) = Len(s) - 1 /\ \A i \in 1 .. Len(b) : b[i] = s[i]
  BY <1>1
<1>3. s[Len(s)] \in Frames
  BY <1>1
<1>4. s = Append(b, s[Len(s)])
  BY <1>1, <1>2, <1>3
<1>5. DOMAIN b = 1 .. Len(b)
  BY <1>2
<1> QED BY <1>1, <1>2, <1>3, <1>4, <1>5

\* Returning from the top function or callback keeps the stack well formed.
LEMMA PopFrame ==
  ASSUME NEW s, NEW d, StackOK(s, d), s # <<>>
  PROVE  LET b == SubSeq(s, 1, Len(s) - 1)
             top == s[Len(s)]
         IN  /\ top \in Frames /\ FrameOK(top)
             /\ top.kind \in CallbackKinds => d - 1 \in Nat
             /\ StackOK(b, IF top.kind \in CallbackKinds THEN d - 1 ELSE d)
<1> DEFINE b == SubSeq(s, 1, Len(s) - 1)
           top == s[Len(s)]
<1>1. s \in Seq(Frames) /\ d = DepthOf(s) /\ \A i \in DOMAIN s : FrameOK(s[i])
  BY DEF StackOK
<1>2. /\ b \in Seq(Frames) /\ top \in Frames /\ Len(s) \in DOMAIN s
      /\ s = Append(b, top)
      /\ \A i \in DOMAIN b : i \in DOMAIN s /\ b[i] = s[i]
  BY <1>1, SplitStack
<1>3. FrameOK(top) /\ StackOK(b, DepthOf(b))
  BY <1>1, <1>2 DEF StackOK
<1>4. StackOK(s, IF top.kind \in CallbackKinds THEN DepthOf(b) + 1 ELSE DepthOf(b))
  <2> HIDE DEF b, top
  <2> QED BY <1>2, <1>3, PushFrame
<1>5. d = IF top.kind \in CallbackKinds THEN DepthOf(b) + 1 ELSE DepthOf(b)
  BY <1>1, <1>4 DEF StackOK
<1>6. DepthOf(b) \in Nat
  BY <1>2, CallbacksFinite
<1>7. DepthOf(b) = IF top.kind \in CallbackKinds THEN d - 1 ELSE d
  BY <1>5, <1>6
<1> QED BY <1>2, <1>3, <1>6, <1>7

-----------------------------------------------------------------------------
(* The inductive invariant.  An easy handle known to libcurl belongs to a  *)
(* queued entry and an entry has its request; the stack and the depth      *)
(* counter agree.                                                          *)

EntriesOK ==
  \A h \in Handler : /\ multi[h] # "out" => h \in requests
                     /\ h \in requests => request[h] \in Request

QueueOK ==
  /\ requests \in SUBSET Handler
  /\ request \in [Handler -> Request \cup {NoRequest}]
  /\ closure \in [Handler -> Closure \cup {NoClosure}]
  /\ called \in [Handler -> Closure \cup {NoClosure}]
  /\ multi \in [Handler -> {"out", "running", "done", "error", "idle"}]
  /\ unfinished \in Nat
  /\ refs \in [Request -> Int]
  /\ EntriesOK
  /\ UniqueRequests
  /\ UnfinishedCoversRunning

MiscOK ==
  /\ responses \in Seq(Request)
  /\ exception \in BOOLEAN
  /\ calls \in 0 .. MaxCalls

Inv == QueueOK /\ MiscOK /\ StackOK(stack, depth)

\* The sets of handlers are finite, as the handlers are.
LEMMA HandlersFinite ==
  ASSUME NEW S, S \subseteq Handler
  PROVE  IsFiniteSet(S) /\ Cardinality(S) \in Nat
BY ClientAssumption, FS_Subset, FS_CardinalityType

\* A step that leaves the queue and libcurl alone keeps the queue invariant.
LEMMA QueueUnchanged ==
  ASSUME QueueOK, UNCHANGED <<queue, multi, unfinished, refs>>
  PROVE  QueueOK'
BY DEF QueueOK, queue, EntriesOK, UniqueRequests, UnfinishedCoversRunning, Running

\* Enqueueing that fails leaves the references as they were.
LEMMA ReferenceGivenBack ==
  ASSUME QueueOK, NEW r \in Request, NEW base, NEW d, NEW exc, EnqueueFails(r, base, d, exc)
  PROVE  UNCHANGED refs
<1>1. refs = [q \in Request |-> refs[q]] /\ \A q \in Request : refs[q] \in Int
  BY DEF QueueOK
<1> DEFINE n == [refs EXCEPT ![r] = refs[r] + 1]
<1>2. n = [q \in Request |-> n[q]] /\ n[r] = refs[r] + 1 /\ \A q \in Request \ {r} : n[q] = refs[q]
  BY <1>1
<1>3. refs' = [n EXCEPT ![r] = n[r] - 1]
  BY DEF EnqueueFails, GivenBack, Taken
<1> HIDE DEF n
<1>4. refs' = [q \in Request |-> refs'[q]] /\ \A q \in Request : refs'[q] = refs[q]
  <2>1. refs[r] \in Int /\ (refs[r] + 1) - 1 = refs[r]
    BY <1>1
  <2> QED BY <1>2, <1>3, <2>1
<1> QED BY <1>1, <1>4

\* Destroying entries keeps the queue invariant.
LEMMA DestroyKeepsQueue ==
  ASSUME QueueOK, NEW hs, Destroy(hs), UNCHANGED unfinished
  PROVE  QueueOK'
<1>1. /\ requests' \in SUBSET Handler
      /\ request' \in [Handler -> Request \cup {NoRequest}]
      /\ closure' \in [Handler -> Closure \cup {NoClosure}]
      /\ called' \in [Handler -> Closure \cup {NoClosure}]
      /\ multi' \in [Handler -> {"out", "running", "done", "error", "idle"}]
      /\ unfinished' \in Nat
  BY DEF QueueOK, Destroy
<1>2. refs' \in [Request -> Int]
  <2>1. ASSUME NEW r \in Request PROVE Released(hs, r) \in Nat
    <3>1. {h \in hs \cap requests : request[h] = r} \subseteq Handler
      BY DEF QueueOK
    <3> QED BY <3>1, HandlersFinite DEF Released
  <2> QED BY <2>1 DEF QueueOK, Destroy
<1>3. EntriesOK'
  BY DEF QueueOK, Destroy, EntriesOK
<1>4. UniqueRequests'
  BY DEF QueueOK, Destroy, UniqueRequests
<1>5. UnfinishedCoversRunning'
  <2>1. Running' \subseteq Running /\ Running \subseteq Handler
    BY DEF Destroy, Running, QueueOK
  <2>2. IsFiniteSet(Running) /\ Cardinality(Running) \in Nat
    BY <2>1, HandlersFinite
  <2>3. Cardinality(Running') <= Cardinality(Running)
    BY <2>1, <2>2, FS_Subset
  <2>4. Cardinality(Running') \in Nat
    BY <2>1, HandlersFinite
  <2> QED BY <2>2, <2>3, <2>4 DEF QueueOK, UnfinishedCoversRunning
<1> QED BY <1>1, <1>2, <1>3, <1>4, <1>5 DEF QueueOK

\* One more running transfer, counted, is covered.
LEMMA StartCovered ==
  ASSUME QueueOK, NEW h \in Handler, multi' = [multi EXCEPT ![h] = "running"],
         TransferCounted
  PROVE  UnfinishedCoversRunning' /\ unfinished' \in Nat
<1>1. Running' = Running \cup {h} /\ Running \subseteq Handler
  BY DEF Running, QueueOK
<1>2. IsFiniteSet(Running) /\ Cardinality(Running) \in Nat
  BY <1>1, HandlersFinite
<1>3. Cardinality(Running') <= Cardinality(Running) + 1 /\ Cardinality(Running') \in Nat
  BY <1>1, <1>2, FS_AddElement, HandlersFinite
<1> QED BY <1>2, <1>3 DEF QueueOK, UnfinishedCoversRunning, TransferCounted

\* A transfer that ends or is read keeps the count covered.
LEMMA EndCovered ==
  ASSUME QueueOK, NEW h \in Handler, NEW m \in {"done", "error", "idle"},
         multi' = [multi EXCEPT ![h] = m], multi[h] # "out",
         UNCHANGED <<queue, unfinished, refs>>
  PROVE  QueueOK'
<1>1. Running' \subseteq Running /\ Running \subseteq Handler
  BY DEF Running, QueueOK
<1>2. IsFiniteSet(Running) /\ Cardinality(Running) \in Nat /\ Cardinality(Running') \in Nat
  BY <1>1, HandlersFinite
<1>3. Cardinality(Running') <= Cardinality(Running)
  BY <1>1, <1>2, FS_Subset
<1>4. UnfinishedCoversRunning'
  BY <1>2, <1>3 DEF QueueOK, UnfinishedCoversRunning
<1> QED BY <1>4 DEF QueueOK, queue, EntriesOK, UniqueRequests

\* Entering a user callback.
LEMMA CallOK ==
  ASSUME NEW f \in Frames, NEW base, NEW d, NEW exc, StackOK(base, d),
         FrameOK(f), f.kind \in CallbackKinds, Call(f, base, d, exc)
  PROVE  StackOK(stack', depth')
<1>1. CASE exc
  BY <1>1 DEF Call
<1>2. CASE ~exc
  BY <1>2, PushFrame DEF Call
<1> QED BY <1>1, <1>2

\* A new frame is a frame.
LEMMA NewFrame ==
  ASSUME NEW kind \in Kinds, NEW h \in Handler \cup {NoHandler},
         NEW r \in Request \cup {NoRequest}, NEW c \in Closure \cup {NoClosure}
  PROVE  /\ Frame(kind, h, r, c) \in Frames
         /\ Frame(kind, h, r, c).kind = kind
         /\ Frame(kind, h, r, c).h = h
         /\ Frame(kind, h, r, c).r = r
BY DEF Frame, Frames

\* The top frame and the stack below it.
LEMMA Pop ==
  ASSUME StackOK(stack, depth), stack # <<>>
  PROVE  /\ Top \in Frames /\ FrameOK(Top)
         /\ Top.kind \in CallbackKinds => StackOK(Below, depth - 1)
         /\ Top.kind \notin CallbackKinds => StackOK(Below, depth)
BY PopFrame DEF Top, Below

\* The tail of HttpClient::enqueue and requeue.
LEMMA EnqueueTailOK ==
  ASSUME QueueOK, MiscOK, NEW r \in Request, NEW c \in Closure \cup {NoClosure},
         NEW base, NEW d, NEW exc \in BOOLEAN, StackOK(base, d),
         calls' \in 0 .. MaxCalls, EnqueueTail(r, c, base, d, exc)
  PROVE  Inv'
<1>1. CASE EnqueueFails(r, base, d, exc)
  BY <1>1, QueueUnchanged, ReferenceGivenBack DEF EnqueueFails, MiscOK, Inv
<1>2. CASE EnqueueAddFails(r, base, d)
  <2>1. UNCHANGED <<queue, multi, unfinished, responses>> /\ exception' = TRUE
    BY <1>2 DEF EnqueueAddFails
  <2>2. QueueOK'
    BY <1>2, <2>1 DEF EnqueueAddFails, Taken, QueueOK, queue, EntriesOK, UniqueRequests,
       UnfinishedCoversRunning, Running
  <2> QED BY <1>2, <2>1, <2>2 DEF EnqueueAddFails, MiscOK, Inv
<1>3. ASSUME NEW h \in Handler, EnqueueAdds(r, c, h, base, d, exc) PROVE Inv'
  <2>1. h \notin requests /\ ~Enqueued(r)
    BY <1>3 DEF EnqueueAdds, SecondCheck
  <2>2. UnfinishedCoversRunning' /\ unfinished' \in Nat
    BY <1>3, StartCovered DEF EnqueueAdds
  <2>3. UniqueRequests'
    BY <1>3, <2>1 DEF EnqueueAdds, QueueOK, UniqueRequests, Enqueued
  <2>4. EntriesOK'
    BY <1>3 DEF EnqueueAdds, QueueOK, EntriesOK
  <2>5. QueueOK'
    BY <1>3, <2>2, <2>3, <2>4 DEF EnqueueAdds, Taken, QueueOK
  <2>6. StackOK(stack', depth')
    <3>1. "start" \in Kinds /\ "start" \in CallbackKinds
      BY DEF Kinds, CallbackKinds
    <3> DEFINE f == Frame("start", h, NoRequest, NoClosure)
    <3>2. f \in Frames /\ f.kind = "start"
      BY <3>1, NewFrame
    <3>3. FrameOK(f)
      BY <3>1, <3>2 DEF FrameOK
    <3>4. Call(f, base, d, exc)
      BY <1>3 DEF EnqueueAdds
    <3> QED BY <3>1, <3>2, <3>3, <3>4, CallOK
  <2>7. MiscOK'
    BY <1>3 DEF EnqueueAdds, MiscOK
  <2> QED BY <2>5, <2>6, <2>7 DEF Inv
<1> QED BY <1>1, <1>2, <1>3 DEF EnqueueTail

-----------------------------------------------------------------------------
(* Steps of user code.                                                     *)

\* A callback frame for a queued handler is well formed.
LEMMA CallbackFrame ==
  ASSUME NEW kind \in CallbackKinds, NEW h \in Handler \cup {NoHandler},
         NEW r \in Request \cup {NoRequest}, NEW c \in Closure \cup {NoClosure},
         kind = "prepare" => r \in Request
  PROVE  /\ Frame(kind, h, r, c) \in Frames
         /\ Frame(kind, h, r, c).kind \in CallbackKinds
         /\ FrameOK(Frame(kind, h, r, c))
<1>1. kind \in Kinds
  BY DEF Kinds
<1> QED BY <1>1, NewFrame DEF FrameOK

\* A frame of a driver function is well formed and no callback.
LEMMA DriverFrame ==
  ASSUME NEW kind \in {"exec", "perform", "responsehandler"}
  PROVE  LET f == Frame(kind, NoHandler, NoRequest, NoClosure)
         IN  f \in Frames /\ f.kind \notin CallbackKinds /\ FrameOK(f)
<1>1. kind \in Kinds /\ kind \notin CallbackKinds
  BY DEF Kinds, CallbackKinds
<1> QED BY <1>1, NewFrame DEF FrameOK, CallbackKinds

\* Every method called by user code keeps the invariant.
LEMMA ScriptStep ==
  ASSUME Inv, Script
  PROVE  Inv'
<1> USE DEF Inv
<1> DEFINE Cs == Closure \cup {NoClosure}
<1>1. ASSUME NEW r \in Request, NEW c \in Cs, Enqueue(r, c) PROVE Inv'
  <2>1. QueueOK'
    BY <1>1, QueueUnchanged DEF Enqueue
  <2>2. MiscOK'
    BY <1>1, ClientAssumption DEF Enqueue, MiscOK
  <2>3. StackOK(stack', depth')
    <3>1. "prepare" \in CallbackKinds
      BY DEF CallbackKinds
    <3> DEFINE f == Frame("prepare", NoHandler, r, c)
    <3>2. f \in Frames /\ f.kind \in CallbackKinds /\ FrameOK(f)
      BY <3>1, CallbackFrame
    <3>3. Call(f, stack, depth, exception)
      BY <1>1 DEF Enqueue
    <3> QED BY <3>2, <3>3, CallOK
  <2> QED BY <2>1, <2>2, <2>3
<1>2. ASSUME NEW r \in Request, NEW c \in Cs, RequeueNew(r, c) PROVE Inv'
  <2>1. calls' \in 0 .. MaxCalls /\ exception \in BOOLEAN
    BY <1>2, ClientAssumption DEF RequeueNew, MiscOK
  <2>2. EnqueueTail(r, c, stack, depth, exception)
    BY <1>2 DEF RequeueNew
  <2> QED BY <2>1, <2>2, EnqueueTailOK
<1>3. ASSUME NEW r \in Request, NEW c \in Cs, Requeue(r, c) PROVE Inv'
  <2> DEFINE h == EntryOf(r)
  <2>1. h \in requests /\ h \in Handler
    BY <1>3 DEF Requeue, Enqueued, EntryOf, QueueOK
  <2>2. multi' = [multi EXCEPT ![h] = "running"] /\ TransferCounted
    BY <1>3 DEF Requeue
  <2>3. UNCHANGED <<queue, responses, refs, exception>>
    BY <1>3 DEF Requeue
  <2>4. QueueOK'
    <3> HIDE DEF h
    <3>1. UnfinishedCoversRunning' /\ unfinished' \in Nat
      BY <2>1, <2>2, StartCovered
    <3> QED BY <2>1, <2>2, <2>3, <3>1 DEF QueueOK, queue, EntriesOK, UniqueRequests
  <2>5. MiscOK'
    BY <1>3, <2>3, ClientAssumption DEF Requeue, MiscOK
  <2>6. StackOK(stack', depth')
    <3>1. "restart" \in CallbackKinds /\ "restart" # "prepare"
      BY DEF CallbackKinds
    <3> DEFINE f == Frame("restart", h, NoRequest, c)
    <3>2. f \in Frames /\ f.kind \in CallbackKinds /\ FrameOK(f)
      <4> HIDE DEF h
      <4> QED BY <2>1, <3>1, CallbackFrame
    <3>3. Call(f, stack, depth, exception)
      BY <1>3 DEF Requeue
    <3> QED BY <3>2, <3>3, CallOK
  <2> QED BY <2>4, <2>5, <2>6
<1>4. ASSUME NEW r \in Request, RequeueAddFails(r) PROVE Inv'
  <2>1. QueueOK'
    BY <1>4, DestroyKeepsQueue DEF RequeueAddFails
  <2>2. MiscOK'
    BY <1>4, ClientAssumption DEF RequeueAddFails, MiscOK
  <2> QED BY <1>4, <2>1, <2>2 DEF RequeueAddFails
<1>5. ASSUME NEW r \in Request, Dequeue(r) PROVE Inv'
  <2>1. QueueOK'
    BY <1>5, DestroyKeepsQueue DEF Dequeue
  <2> QED BY <1>5, <2>1 DEF Dequeue, MiscOK
<1>6. ASSUME NEW r \in Request, Refused(r) PROVE Inv'
  <2>1. QueueOK'
    BY <1>6, QueueUnchanged DEF Refused
  <2> QED BY <1>6, <2>1 DEF Refused, MiscOK
<1>7. CASE Reset
  <2>1. QueueOK'
    BY <1>7, DestroyKeepsQueue DEF Reset
  <2> QED BY <1>7, <2>1 DEF Reset, MiscOK
<1>8. CASE GetResponse
  <2>1. QueueOK'
    BY <1>8, QueueUnchanged DEF GetResponse
  <2>2. responses' \in Seq(Request)
    <3>1. responses \in Seq(Request) /\ responses # <<>>
      BY <1>8 DEF GetResponse, MiscOK
    <3> QED BY <1>8, <3>1 DEF GetResponse
  <2> QED BY <1>8, <2>1, <2>2 DEF GetResponse, MiscOK
<1>9. CASE Once
  <2>1. QueueOK'
    BY <1>9, QueueUnchanged DEF Once
  <2>2. StackOK(stack', depth')
    BY <1>9, DriverFrame, PushFrame DEF Once, Perform
  <2> QED BY <1>9, <2>1, <2>2 DEF Once, MiscOK
<1>10. CASE Exec
  <2>1. QueueOK'
    BY <1>10, QueueUnchanged DEF Exec
  <2> DEFINE f == Frame("exec", NoHandler, NoRequest, NoClosure)
  <2>2. f \in Frames /\ f.kind \notin CallbackKinds /\ FrameOK(f)
    BY DriverFrame
  <2>3. Perform \in Frames /\ Perform.kind \notin CallbackKinds /\ FrameOK(Perform)
    BY DriverFrame DEF Perform
  <2>4. stack' = Append(Append(stack, f), Perform) /\ depth' = depth
    BY <1>10 DEF Exec
  <2> HIDE DEF f
  <2>5. StackOK(Append(stack, f), depth)
    BY <2>2, PushFrame
  <2>6. StackOK(stack', depth')
    BY <2>3, <2>4, <2>5, PushFrame
  <2> QED BY <1>10, <2>1, <2>6 DEF Exec, MiscOK
<1>11. CASE Catch
  <2>1. QueueOK'
    BY <1>11, QueueUnchanged DEF Catch
  <2> QED BY <1>11, <2>1 DEF Catch, MiscOK
<1> QED BY <1>1, <1>2, <1>3, <1>4, <1>5, <1>6, <1>7, <1>8, <1>9, <1>10, <1>11 DEF Script

-----------------------------------------------------------------------------
(* Returns of user callbacks.                                              *)

\* The top of the stack when a frame of a kind is there.
LEMMA TopKind ==
  ASSUME NEW kind, At = kind, kind # "script"
  PROVE  stack # <<>> /\ Top.kind = kind
BY DEF At

\* The code that called a user callback goes on and keeps the invariant.
LEMMA ReturnStep ==
  ASSUME Inv, Return
  PROVE  Inv'
<1> USE DEF Inv
<1>1. ASSUME NEW throw \in BOOLEAN, PrepareReturn(throw) PROVE Inv'
  <2>1. stack # <<>> /\ Top.kind = "prepare" /\ "prepare" \in CallbackKinds
    BY <1>1, TopKind DEF PrepareReturn, CallbackKinds
  <2>2. Top \in Frames /\ FrameOK(Top) /\ StackOK(Below, depth - 1)
    BY <2>1, Pop
  <2>3. Top.r \in Request /\ Top.c \in Closure \cup {NoClosure}
    BY <2>1, <2>2 DEF FrameOK, Frames
  <2>4. calls' \in 0 .. MaxCalls /\ EnqueueTail(Top.r, Top.c, Below, depth - 1, throw)
    BY <1>1 DEF PrepareReturn, MiscOK
  <2> QED BY <2>2, <2>3, <2>4, EnqueueTailOK
<1>2. ASSUME NEW throw \in BOOLEAN, StartReturn(throw) PROVE Inv'
  <2>1. stack # <<>> /\ Top.kind = "start" /\ "start" \in CallbackKinds
    BY <1>2, TopKind DEF StartReturn, CallbackKinds
  <2>2. StackOK(Below, depth - 1)
    BY <2>1, Pop
  <2>3. QueueOK'
    BY <1>2, QueueUnchanged DEF StartReturn
  <2> QED BY <1>2, <2>2, <2>3 DEF StartReturn, MiscOK
<1>3. ASSUME NEW throw \in BOOLEAN, RestartReturn(throw) PROVE Inv'
  <2>1. stack # <<>> /\ Top.kind = "restart" /\ "restart" \in CallbackKinds
    BY <1>3, TopKind DEF RestartReturn, CallbackKinds
  <2>2. Top \in Frames /\ StackOK(Below, depth - 1)
    BY <2>1, Pop
  <2>3. Top.c \in Closure \cup {NoClosure}
    BY <2>2 DEF Frames
  <2>4. closure' \in [Handler -> Closure \cup {NoClosure}]
    BY <1>3, <2>3 DEF RestartReturn, QueueOK
  <2>5. QueueOK'
    BY <1>3, <2>4 DEF RestartReturn, QueueOK, EntriesOK, UniqueRequests,
       UnfinishedCoversRunning, Running
  <2> QED BY <1>3, <2>2, <2>5 DEF RestartReturn, MiscOK
<1>4. ASSUME NEW throw \in BOOLEAN, XferReturn(throw) PROVE Inv'
  <2>1. stack # <<>> /\ Top.kind = "xfer" /\ "xfer" \in CallbackKinds
    BY <1>4, TopKind DEF XferReturn, CallbackKinds
  <2>2. StackOK(Below, depth - 1)
    BY <2>1, Pop
  <2>3. QueueOK'
    BY <1>4, QueueUnchanged DEF XferReturn
  <2> QED BY <1>4, <2>2, <2>3 DEF XferReturn, MiscOK
<1>5. ASSUME NEW throw \in BOOLEAN, FinishedReturn(throw) PROVE Inv'
  <2>1. stack # <<>> /\ Top.kind = "finished" /\ "finished" \in CallbackKinds
    BY <1>5, TopKind DEF FinishedReturn, CallbackKinds
  <2>2. StackOK(Below, depth - 1)
    BY <2>1, Pop
  <2>3. CASE Top.dequeue /\ Top.h \in requests /\ DequeueAllowed(depth - 1)
    <3>1. QueueOK'
      BY <1>5, <2>3, DestroyKeepsQueue DEF FinishedReturn
    <3> QED BY <1>5, <2>2, <3>1 DEF FinishedReturn, MiscOK
  <2>4. CASE ~(Top.dequeue /\ Top.h \in requests /\ DequeueAllowed(depth - 1))
    <3>1. QueueOK'
      BY <1>5, <2>4, QueueUnchanged DEF FinishedReturn
    <3> QED BY <1>5, <2>2, <3>1 DEF FinishedReturn, MiscOK
  <2> QED BY <2>3, <2>4
<1>6. ASSUME NEW retval \in BOOLEAN, NEW throw \in BOOLEAN, ClosureReturn(retval, throw)
      PROVE Inv'
  <2>1. stack # <<>> /\ Top.kind = "closure"
        /\ "closure" \in CallbackKinds /\ "finished" \in CallbackKinds
    BY <1>6, TopKind DEF ClosureReturn, CallbackKinds
  <2>2. Top \in Frames /\ StackOK(Below, depth - 1)
    BY <2>1, Pop
  <2>3. QueueOK'
    BY <1>6, QueueUnchanged DEF ClosureReturn
  <2>4. StackOK(stack', depth')
    <3> DEFINE f == [Frame("finished", Top.h, NoRequest, NoClosure) EXCEPT !.dequeue = retval]
    <3>1. Top.h \in Handler \cup {NoHandler}
      BY <2>2 DEF Frames
    <3>2. f \in Frames /\ f.kind = "finished"
      BY <3>1 DEF Frame, Frames, Kinds, CallbackKinds
    <3>3. FrameOK(f)
      BY <3>2, <2>1 DEF FrameOK
    <3>4. CASE Enqueued(request[Top.h])
      <4>1. Call(f, Below, depth - 1, throw)
        BY <1>6, <3>4 DEF ClosureReturn
      <4> HIDE DEF f
      <4> QED BY <2>1, <2>2, <3>2, <3>3, <4>1, CallOK
    <3>5. CASE ~Enqueued(request[Top.h])
      BY <1>6, <2>2, <3>5 DEF ClosureReturn
    <3> QED BY <3>4, <3>5
  <2> QED BY <1>6, <2>3, <2>4 DEF ClosureReturn, MiscOK
<1> QED BY <1>1, <1>2, <1>3, <1>4, <1>5, <1>6 DEF Return
-----------------------------------------------------------------------------
(* The driver and libcurl.                                                 *)

\* Reading a message keeps the frame of the response handler well formed.
LEMMA ReadFrameOK ==
  ASSUME QueueOK, Top \in Frames, FrameOK(Top), NEW h \in Pending
  PROVE  /\ ReadFrame(h) \in Frames
         /\ ReadFrame(h).kind = Top.kind
         /\ FrameOK(ReadFrame(h))
<1>1. Pending \subseteq Handler
  BY DEF Pending
<1>2. IsFiniteSet(Pending) /\ Cardinality(Pending) \in Nat
  BY <1>1, HandlersFinite
<1>3. Cardinality(Pending) # 0
  BY <1>2, FS_EmptySet
<1>4. Cardinality(Pending) - 1 \in Nat
  BY <1>2, <1>3
<1> DEFINE left == Cardinality(Pending) - 1
           fails == multi[h] = "error"
           cap == IF fails /\ Top.cap = 0 THEN left + 1 ELSE Top.cap
           errs == IF fails THEN Top.err_count + 1 ELSE Top.err_count
<1>5. left \in Nat
  BY <1>4
<1>6. cap \in Nat /\ errs \in Nat
  <2> HIDE DEF left
  <2> QED BY <1>5 DEF Frames
<1>7. ReadFrame(h) = [Top EXCEPT !.remaining = left, !.cap = cap, !.err_count = errs]
  BY DEF ReadFrame
<1> HIDE DEF left, cap, errs
<1>8. /\ ReadFrame(h) \in Frames
      /\ ReadFrame(h).kind = Top.kind
      /\ ReadFrame(h).r = Top.r
      /\ ReadFrame(h).h = Top.h
  BY <1>5, <1>6, <1>7 DEF Frames
<1> QED BY <1>8 DEF FrameOK

\* Every step of the driver keeps the invariant.
LEMMA DriverStep ==
  ASSUME Inv, Driver
  PROVE  Inv'
<1> USE DEF Inv
<1>1. ASSUME NEW h \in Handler, Xfer(h) PROVE Inv'
  <2>1. QueueOK'
    BY <1>1, QueueUnchanged DEF Xfer
  <2> DEFINE f == Frame("xfer", h, NoRequest, NoClosure)
  <2>2. f \in Frames /\ f.kind \in CallbackKinds /\ FrameOK(f)
    <3>1. "xfer" \in CallbackKinds /\ "xfer" # "prepare"
      BY DEF CallbackKinds
    <3> QED BY <3>1, CallbackFrame
  <2>3. Call(f, stack, depth, exception)
    BY <1>1 DEF Xfer
  <2>4. StackOK(stack', depth')
    BY <2>2, <2>3, CallOK
  <2> QED BY <1>1, <2>1, <2>4 DEF Xfer, MiscOK
<1>2. ASSUME NEW h \in Handler, ReadResponse(h) PROVE Inv'
  <2>1. h \in Pending /\ multi[h] # "out" /\ h \in requests /\ request[h] \in Request
    BY <1>2 DEF ReadResponse, Pending, QueueOK, EntriesOK
  <2>2. QueueOK'
    BY <1>2, <2>1, EndCovered DEF ReadResponse
  <2>3. MiscOK'
    BY <1>2, <2>1 DEF ReadResponse, MiscOK
  <2>4. stack # <<>> /\ Top.kind = "responsehandler"
        /\ "responsehandler" \notin CallbackKinds
    BY <1>2, TopKind DEF ReadResponse, CallbackKinds
  <2>5. Top \in Frames /\ FrameOK(Top) /\ StackOK(Below, depth)
    BY <2>4, Pop
  <2> DEFINE base == Append(Below, ReadFrame(h))
             f == IF called[h] = NoClosure
                  THEN Frame("finished", h, NoRequest, NoClosure)
                  ELSE Frame("closure", h, NoRequest, called[h])
  <2>6. StackOK(base, depth)
    <3>1. ReadFrame(h) \in Frames /\ ReadFrame(h).kind = Top.kind /\ FrameOK(ReadFrame(h))
      BY <2>1, <2>5, ReadFrameOK
    <3> QED BY <2>4, <2>5, <3>1, PushFrame
  <2>7. f \in Frames /\ f.kind \in CallbackKinds /\ FrameOK(f)
    <3>1. "finished" \in CallbackKinds /\ "closure" \in CallbackKinds
      BY DEF CallbackKinds
    <3>2. called[h] \in Closure \cup {NoClosure}
      BY DEF QueueOK
    <3>3. "finished" # "prepare" /\ "closure" # "prepare"
      OBVIOUS
    <3> QED BY <3>1, <3>2, <3>3, CallbackFrame
  <2>8. Call(f, base, depth, exception)
    BY <1>2 DEF ReadResponse
  <2>9. StackOK(stack', depth')
    <3> HIDE DEF f, base
    <3> QED BY <2>6, <2>7, <2>8, CallOK
  <2> QED BY <2>2, <2>3, <2>9
<1>3. ASSUME NEW h \in Handler, NEW result \in {"done", "error"}, TransferDone(h, result)
      PROVE Inv'
  <2>1. multi[h] # "out"
    BY <1>3 DEF TransferDone, Running
  <2>2. QueueOK'
    BY <1>3, <2>1, EndCovered DEF TransferDone
  <2> QED BY <1>3, <2>2 DEF TransferDone, MiscOK
<1>4. CASE PerformEnd
  <2>1. stack # <<>> /\ Top.kind = "perform" /\ "perform" \notin CallbackKinds
    BY <1>4, TopKind DEF PerformEnd, CallbackKinds
  <2>2. StackOK(Below, depth)
    BY <2>1, Pop
  <2>3. StackOK(stack', depth')
    BY <1>4, <2>2, DriverFrame, PushFrame DEF PerformEnd
  <2>4. Running' = Running /\ Cardinality(Running) \in Nat
    <3>1. Running \subseteq Handler
      BY DEF Running
    <3> QED BY <1>4, <3>1, HandlersFinite DEF PerformEnd, Running
  <2>5. QueueOK'
    BY <1>4, <2>4 DEF PerformEnd, QueueOK, queue, EntriesOK, UniqueRequests,
       UnfinishedCoversRunning
  <2> QED BY <1>4, <2>3, <2>5 DEF PerformEnd, MiscOK
<1>5. CASE ResponsesRead
  <2>1. stack # <<>> /\ Top.kind = "responsehandler" /\ "responsehandler" \notin CallbackKinds
    BY <1>5, TopKind DEF ResponsesRead, CallbackKinds
  <2>2. StackOK(Below, depth)
    BY <2>1, Pop
  <2>3. QueueOK'
    BY <1>5, QueueUnchanged DEF ResponsesRead
  <2>4. exception' \in BOOLEAN
    BY <1>5 DEF ResponsesRead, MiscOK
  <2> QED BY <1>5, <2>2, <2>3, <2>4 DEF ResponsesRead, MiscOK
<1>6. CASE ExecAgain
  <2>1. QueueOK'
    BY <1>6, QueueUnchanged DEF ExecAgain
  <2>2. StackOK(stack', depth')
    BY <1>6, DriverFrame, PushFrame DEF ExecAgain, Perform
  <2> QED BY <1>6, <2>1, <2>2 DEF ExecAgain, MiscOK
<1>7. CASE ExecReturn \/ ExecWaitFails
  <2>1. stack # <<>> /\ Top.kind = "exec" /\ "exec" \notin CallbackKinds
    BY <1>7, TopKind DEF ExecReturn, ExecWaitFails, CallbackKinds
  <2>2. StackOK(Below, depth)
    BY <2>1, Pop
  <2>3. QueueOK'
    BY <1>7, QueueUnchanged DEF ExecReturn, ExecWaitFails
  <2> QED BY <1>7, <2>2, <2>3 DEF ExecReturn, ExecWaitFails, MiscOK
<1> QED BY <1>1, <1>2, <1>3, <1>4, <1>5, <1>6, <1>7 DEF Driver

-----------------------------------------------------------------------------
(* The theorems.                                                           *)

\* The empty stack has depth 0.
LEMMA EmptyStack == StackOK(<<>>, 0)
<1>1. <<>> \in Seq(Frames) /\ DOMAIN <<>> = {}
  OBVIOUS
<1>2. Callbacks(<<>>) = {}
  BY <1>1 DEF Callbacks
<1> QED BY <1>1, <1>2, FS_EmptySet DEF StackOK, DepthOf

\* The invariant holds initially.
LEMMA InitInv == Init => Inv
<1> SUFFICES ASSUME Init PROVE Inv
  OBVIOUS
<1>1. StackOK(stack, depth)
  BY EmptyStack DEF Init
<1>2. Running = {}
  BY DEF Init, Running
<1>3. UnfinishedCoversRunning
  BY <1>2, FS_EmptySet DEF Init, UnfinishedCoversRunning
<1>4. QueueOK
  BY <1>3 DEF Init, QueueOK, EntriesOK, UniqueRequests
<1>5. MiscOK
  <2>1. responses = <<>> /\ exception = FALSE /\ calls = 0
    BY DEF Init
  <2>2. responses \in Seq(Request)
    BY <2>1
  <2>3. calls \in 0 .. MaxCalls
    BY <2>1, ClientAssumption
  <2> QED BY <2>1, <2>2, <2>3 DEF MiscOK
<1> QED BY <1>1, <1>4, <1>5 DEF Inv

\* Every step keeps the invariant.
LEMMA NextInv == Inv /\ [Next]_vars => Inv'
<1> SUFFICES ASSUME Inv, [Next]_vars PROVE Inv'
  OBVIOUS
<1>1. CASE Script
  BY <1>1, ScriptStep
<1>2. CASE Return
  BY <1>2, ReturnStep
<1>3. CASE Driver
  BY <1>3, DriverStep
<1>4. CASE UNCHANGED vars
  <2>1. QueueOK'
    BY <1>4, QueueUnchanged DEF Inv, vars, queue
  <2> QED BY <1>4, <2>1 DEF Inv, vars, MiscOK
<1> QED BY <1>1, <1>2, <1>3, <1>4 DEF Next

\* The inductive invariant holds in every reachable state.
THEOREM Invariance == Spec => []Inv
BY InitInv, NextInv, PTL DEF Spec

\* Every variable of the client keeps its type: the depth counter never falls
\* below zero, unfinished neither, and every response belongs to a request.
THEOREM TypeCorrect == Spec => []TypeOK
<1>1. Inv => TypeOK
  <2> SUFFICES ASSUME Inv PROVE TypeOK
    OBVIOUS
  <2>1. stack \in Seq(Frames) /\ depth \in Nat
    BY CallbacksFinite DEF Inv, StackOK
  <2> QED BY <2>1 DEF Inv, QueueOK, MiscOK, TypeOK
<1> QED BY <1>1, Invariance, PTL

\* A request is never queued twice, whatever observers and callbacks call.
THEOREM RequestsUnique == Spec => []UniqueRequests
<1>1. Inv => UniqueRequests
  BY DEF Inv, QueueOK
<1> QED BY <1>1, Invariance, PTL

\* curl->unfinished always covers the running transfers.
THEOREM UnfinishedCovers == Spec => []UnfinishedCoversRunning
<1>1. Inv => UnfinishedCoversRunning
  BY DEF Inv, QueueOK
<1> QED BY <1>1, Invariance, PTL

\* send() that returns normally has left no transfer running.
THEOREM SendDrainsAll == Spec => SendDrains
<1>1. Inv /\ [Next]_vars => [ExecReturn /\ ~exception => Running = {}]_vars
  <2> SUFFICES ASSUME Inv, ExecReturn, ~exception PROVE Running = {}
    OBVIOUS
  <2>1. unfinished = 0
    BY DEF ExecReturn
  <2>2. Running \subseteq Handler
    BY DEF Running
  <2>3. IsFiniteSet(Running) /\ Cardinality(Running) \in Nat
    BY <2>2, HandlersFinite
  <2>4. Cardinality(Running) = 0
    BY <2>1, <2>3 DEF Inv, QueueOK, UnfinishedCoversRunning
  <2> QED BY <2>3, <2>4, FS_EmptySet
<1> QED BY <1>1, Invariance, PTL DEF Spec, SendDrains

-----------------------------------------------------------------------------
(* Handlers in use stay alive, as long as callbacks do not call reset() and *)
(* curl_multi_add_handle() does not fail in requeue().                      *)

Quiet == "reset" \notin CallbackOps \cup XferOps /\ ~AddMayFail

FramesLive(s, live) == \A i \in DOMAIN s : s[i].h # NoHandler => s[i].h \in live

\* A pushed frame whose handler is alive.
LEMMA LivePush ==
  ASSUME NEW s \in Seq(Frames), NEW f \in Frames, NEW live,
         FramesLive(s, live), f.h # NoHandler => f.h \in live
  PROVE  FramesLive(Append(s, f), live)
<1> DEFINE t == Append(s, f)
           n == Len(s) + 1
<1>1. /\ DOMAIN s = 1 .. Len(s) /\ DOMAIN t = 1 .. n /\ Len(s) \in Nat
      /\ t[n] = f /\ \A i \in 1 .. Len(s) : t[i] = s[i]
  OBVIOUS
<1>2. ASSUME NEW i \in 1 .. n, t[i].h # NoHandler PROVE t[i].h \in live
  BY <1>1, <1>2 DEF FramesLive
<1> QED BY <1>1, <1>2 DEF FramesLive

\* The frames below the top one.
LEMMA LiveBelow ==
  ASSUME stack \in Seq(Frames), stack # <<>>, NEW live, FramesLive(stack, live)
  PROVE  /\ Below \in Seq(Frames) /\ FramesLive(Below, live)
         /\ Top \in Frames
         /\ Top.h # NoHandler => Top.h \in live
BY SplitStack DEF FramesLive, Below, Top

\* At depth 0 no C function keeps a handler across a callback.
LEMMA LiveShallow ==
  ASSUME NEW s, StackOK(s, 0), NEW live
  PROVE  FramesLive(s, live)
<1>1. s \in Seq(Frames) /\ DepthOf(s) = 0 /\ \A i \in DOMAIN s : FrameOK(s[i])
  BY DEF StackOK
<1>2. Callbacks(s) = {}
  BY <1>1, CallbacksFinite, FS_EmptySet DEF DepthOf
<1> QED BY <1>1, <1>2 DEF Callbacks, FramesLive, FrameOK

\* Entering a callback for a live handler.
LEMMA LiveCall ==
  ASSUME NEW base \in Seq(Frames), NEW f \in Frames, NEW d, NEW exc, NEW live,
         FramesLive(base, live), f.h # NoHandler => f.h \in live, Call(f, base, d, exc)
  PROVE  FramesLive(stack', live)
<1>1. CASE exc
  BY <1>1 DEF Call
<1>2. CASE ~exc
  BY <1>2, LivePush DEF Call
<1> QED BY <1>1, <1>2

\* The tail of enqueue leaves live handlers alive.
LEMMA EnqueueTailLive ==
  ASSUME QueueOK, NEW r, NEW c, NEW base \in Seq(Frames), NEW d, NEW exc,
         FramesLive(base, requests), EnqueueTail(r, c, base, d, exc)
  PROVE  FramesLive(stack', requests') /\ requests \subseteq requests'
<1>1. CASE EnqueueFails(r, base, d, exc) \/ EnqueueAddFails(r, base, d)
  BY <1>1 DEF EnqueueFails, EnqueueAddFails, queue
<1>2. ASSUME NEW h \in Handler, EnqueueAdds(r, c, h, base, d, exc)
      PROVE  FramesLive(stack', requests') /\ requests \subseteq requests'
  <2> DEFINE f == Frame("start", h, NoRequest, NoClosure)
  <2>1. requests' = requests \cup {h} /\ Call(f, base, d, exc)
    BY <1>2 DEF EnqueueAdds
  <2>2. "start" \in CallbackKinds /\ "start" \in Kinds
    BY DEF Kinds, CallbackKinds
  <2>3. f \in Frames /\ f.h = h
    BY <2>2 DEF Frame, Frames
  <2>4. FramesLive(base, requests')
    BY <2>1 DEF FramesLive
  <2> HIDE DEF f
  <2> QED BY <2>1, <2>3, <2>4, LiveCall
<1> QED BY <1>1, <1>2 DEF EnqueueTail

\* Steps of user code leave live handlers alive and, in callbacks, the queue.
LEMMA ScriptLive ==
  ASSUME Quiet, Inv, FrameHandlersLive, Script
  PROVE  /\ FrameHandlersLive'
         /\ depth # 0 => requests \subseteq requests'
<1> DEFINE Cs == Closure \cup {NoClosure}
           Goal == FrameHandlersLive' /\ (depth # 0 => requests \subseteq requests')
<1>0. /\ stack \in Seq(Frames)
      /\ FramesLive(stack, requests)
      /\ QueueOK
      /\ StackOK(stack, depth)
  BY DEF Inv, StackOK, FramesLive, FrameHandlersLive
<1>goal. ASSUME FramesLive(stack', requests'), depth # 0 => requests \subseteq requests'
         PROVE  Goal
  BY <1>goal DEF FramesLive, FrameHandlersLive
<1>1. ASSUME NEW r \in Request, NEW c \in Cs, Enqueue(r, c) PROVE Goal
  <2> DEFINE f == Frame("prepare", NoHandler, r, c)
  <2>1. requests' = requests /\ Call(f, stack, depth, exception)
    BY <1>1 DEF Enqueue, queue
  <2>2. "prepare" \in Kinds
    BY DEF Kinds, CallbackKinds
  <2>3. f \in Frames /\ f.h = NoHandler
    BY <2>2, NewFrame
  <2> HIDE DEF f
  <2>4. FramesLive(stack', requests')
    BY <1>0, <2>1, <2>3, LiveCall
  <2> QED BY <1>goal, <2>1, <2>4
<1>2. ASSUME NEW r \in Request, NEW c \in Cs, RequeueNew(r, c) PROVE Goal
  <2>1. EnqueueTail(r, c, stack, depth, exception)
    BY <1>2 DEF RequeueNew
  <2>2. FramesLive(stack', requests') /\ requests \subseteq requests'
    BY <1>0, <2>1, EnqueueTailLive
  <2> QED BY <1>goal, <2>2
<1>3. ASSUME NEW r \in Request, NEW c \in Cs, Requeue(r, c) PROVE Goal
  <2> DEFINE h == EntryOf(r)
             f == Frame("restart", h, NoRequest, c)
  <2>1. h \in requests /\ h \in Handler
    BY <1>0, <1>3 DEF Requeue, Enqueued, EntryOf, QueueOK
  <2>2. requests' = requests /\ Call(f, stack, depth, exception)
    BY <1>3 DEF Requeue, queue
  <2>3. "restart" \in Kinds
    BY DEF Kinds, CallbackKinds
  <2> HIDE DEF h
  <2>4. f \in Frames /\ f.h = h
    BY <2>1, <2>3, NewFrame
  <2> HIDE DEF f
  <2>5. FramesLive(stack', requests')
    BY <1>0, <2>1, <2>2, <2>4, LiveCall
  <2> QED BY <1>goal, <2>2, <2>5
<1>4. ASSUME NEW r \in Request, RequeueAddFails(r) PROVE Goal
  BY <1>4 DEF RequeueAddFails, Quiet
<1>5. ASSUME NEW r \in Request, Dequeue(r) PROVE Goal
  <2>1. depth = 0 /\ stack' = stack
    BY <1>5 DEF Dequeue, DequeueAllowed
  <2>2. FramesLive(stack', requests')
    BY <1>0, <2>1, LiveShallow
  <2> QED BY <1>goal, <2>1, <2>2
<1>6. CASE Reset
  <2>0. stack # <<>> => Top.kind # "script"
    BY <1>0, SplitStack DEF Top, Frames, Kinds, CallbackKinds
  <2>1. stack = <<>> /\ stack' = stack
    BY <1>6, <2>0 DEF Reset, UserCode, At, Quiet
  <2>2. depth = 0
    BY <1>0, <2>1, EmptyStack DEF StackOK
  <2>3. FramesLive(stack', requests')
    BY <2>1 DEF FramesLive
  <2> QED BY <1>goal, <2>2, <2>3
<1>7. CASE GetResponse \/ Catch \/ (\E r \in Request : Refused(r))
  <2>1. requests' = requests /\ stack' = stack
    BY <1>7 DEF GetResponse, Catch, Refused, queue
  <2>2. FramesLive(stack', requests')
    BY <1>0, <2>1
  <2> QED BY <1>goal, <2>1, <2>2
<1>8. Perform \in Frames /\ Perform.h = NoHandler
  BY NewFrame DEF Perform, Kinds
<1>9. CASE Once
  <2>1. requests' = requests /\ stack' = Append(stack, Perform)
    BY <1>9 DEF Once, queue
  <2>2. FramesLive(stack', requests')
    BY <1>0, <1>8, <2>1, LivePush
  <2> QED BY <1>goal, <2>1, <2>2
<1>10. CASE Exec
  <2> DEFINE f == Frame("exec", NoHandler, NoRequest, NoClosure)
  <2>1. requests' = requests /\ stack' = Append(Append(stack, f), Perform)
    BY <1>10 DEF Exec, queue
  <2>2. f \in Frames /\ f.h = NoHandler
    BY NewFrame DEF Kinds
  <2> HIDE DEF f
  <2>3. Append(stack, f) \in Seq(Frames) /\ FramesLive(Append(stack, f), requests)
    BY <1>0, <2>2, LivePush
  <2>4. FramesLive(stack', requests')
    BY <1>8, <2>1, <2>3, LivePush
  <2> QED BY <1>goal, <2>1, <2>4
<1> QED BY <1>1, <1>2, <1>3, <1>4, <1>5, <1>6, <1>7, <1>9, <1>10 DEF Script

\* Returns of callbacks leave live handlers alive and, in callbacks, the queue.
LEMMA ReturnLive ==
  ASSUME Inv, FrameHandlersLive, Return
  PROVE  /\ FrameHandlersLive'
         /\ depth' # 0 => requests \subseteq requests'
<1> DEFINE Goal == FrameHandlersLive' /\ (depth' # 0 => requests \subseteq requests')
<1>0. /\ stack \in Seq(Frames)
      /\ FramesLive(stack, requests)
      /\ QueueOK
      /\ StackOK(stack, depth)
  BY DEF Inv, StackOK, FramesLive, FrameHandlersLive
<1>goal. ASSUME FramesLive(stack', requests'), depth' # 0 => requests \subseteq requests'
         PROVE  Goal
  BY <1>goal DEF FramesLive, FrameHandlersLive
<1>below. ASSUME stack # <<>>
          PROVE  /\ Below \in Seq(Frames) /\ FramesLive(Below, requests)
                 /\ Top \in Frames /\ (Top.h # NoHandler => Top.h \in requests)
  BY <1>0, <1>below, LiveBelow
<1>1. ASSUME NEW throw \in BOOLEAN, PrepareReturn(throw) PROVE Goal
  <2>1. stack # <<>>
    BY <1>1, TopKind DEF PrepareReturn
  <2>2. EnqueueTail(Top.r, Top.c, Below, depth - 1, throw)
    BY <1>1 DEF PrepareReturn
  <2>3. FramesLive(stack', requests') /\ requests \subseteq requests'
    BY <1>0, <1>below, <2>1, <2>2, EnqueueTailLive
  <2> QED BY <1>goal, <2>3
<1>2. ASSUME NEW throw \in BOOLEAN,
             StartReturn(throw) \/ RestartReturn(throw) \/ XferReturn(throw)
      PROVE  Goal
  <2>1. stack # <<>>
    BY <1>2, TopKind DEF StartReturn, RestartReturn, XferReturn
  <2>2. requests' = requests /\ stack' = Below
    BY <1>2 DEF StartReturn, RestartReturn, XferReturn, queue
  <2> QED BY <1>goal, <1>below, <2>1, <2>2
<1>3. ASSUME NEW throw \in BOOLEAN, FinishedReturn(throw) PROVE Goal
  <2>1. stack # <<>> /\ Top.kind = "finished" /\ "finished" \in CallbackKinds
    BY <1>3, TopKind DEF FinishedReturn, CallbackKinds
  <2>2. stack' = Below /\ depth' = depth - 1
    BY <1>3 DEF FinishedReturn
  <2>3. CASE Top.dequeue /\ Top.h \in requests /\ DequeueAllowed(depth - 1)
    <3>1. StackOK(Below, 0) /\ depth' = 0
      BY <1>0, <2>1, <2>2, <2>3, Pop DEF DequeueAllowed
    <3>2. FramesLive(stack', requests')
      BY <2>2, <3>1, LiveShallow
    <3> QED BY <1>goal, <3>1, <3>2
  <2>4. CASE ~(Top.dequeue /\ Top.h \in requests /\ DequeueAllowed(depth - 1))
    <3>1. requests' = requests
      BY <1>3, <2>4 DEF FinishedReturn, queue
    <3> QED BY <1>goal, <1>below, <2>1, <2>2, <3>1
  <2> QED BY <2>3, <2>4
<1>4. ASSUME NEW retval \in BOOLEAN, NEW throw \in BOOLEAN, ClosureReturn(retval, throw)
      PROVE  Goal
  <2>1. stack # <<>>
    BY <1>4, TopKind DEF ClosureReturn
  <2>2. requests' = requests
    BY <1>4 DEF ClosureReturn, queue
  <2> DEFINE f == [Frame("finished", Top.h, NoRequest, NoClosure) EXCEPT !.dequeue = retval]
  <2>3. f \in Frames /\ f.h = Top.h
    <3>1. Top.h \in Handler \cup {NoHandler}
      BY <1>below, <2>1 DEF Frames
    <3> QED BY <3>1 DEF Frame, Frames, Kinds, CallbackKinds
  <2>4. Call(f, Below, depth - 1, throw) \/ stack' = Below
    BY <1>4 DEF ClosureReturn
  <2> HIDE DEF f
  <2>5. FramesLive(stack', requests')
    BY <1>below, <2>1, <2>2, <2>3, <2>4, LiveCall
  <2> QED BY <1>goal, <2>2, <2>5
<1> QED BY <1>1, <1>2, <1>3, <1>4 DEF Return

\* The driver leaves live handlers alive and the queue as it is.
LEMMA DriverLive ==
  ASSUME Inv, FrameHandlersLive, Driver
  PROVE  FrameHandlersLive' /\ requests' = requests
<1> DEFINE Goal == FrameHandlersLive' /\ requests' = requests
<1>0. /\ stack \in Seq(Frames)
      /\ FramesLive(stack, requests)
      /\ QueueOK
      /\ StackOK(stack, depth)
  BY DEF Inv, StackOK, FramesLive, FrameHandlersLive
<1>goal. ASSUME FramesLive(stack', requests), requests' = requests PROVE Goal
  BY <1>goal DEF FramesLive, FrameHandlersLive
<1>below. ASSUME stack # <<>>
          PROVE  /\ Below \in Seq(Frames) /\ FramesLive(Below, requests)
                 /\ Top \in Frames /\ (Top.h # NoHandler => Top.h \in requests)
  BY <1>0, <1>below, LiveBelow
<1>1. ASSUME NEW h \in Handler, Xfer(h) PROVE Goal
  <2> DEFINE f == Frame("xfer", h, NoRequest, NoClosure)
  <2>1. requests' = requests /\ Call(f, stack, depth, exception)
    BY <1>1 DEF Xfer, queue
  <2>2. h \in requests
    BY <1>0, <1>1 DEF Xfer, Running, QueueOK, EntriesOK
  <2>3. f \in Frames /\ f.h = h
    BY DEF Frame, Frames, Kinds, CallbackKinds
  <2> HIDE DEF f
  <2>4. FramesLive(stack', requests)
    BY <1>0, <2>1, <2>2, <2>3, LiveCall
  <2> QED BY <1>goal, <2>1, <2>4
<1>2. ASSUME NEW h \in Handler, ReadResponse(h) PROVE Goal
  <2>1. stack # <<>> /\ Top.kind = "responsehandler" /\ requests' = requests
    BY <1>2, TopKind DEF ReadResponse, queue
  <2>2. h \in Pending /\ h \in requests
    BY <1>0, <1>2 DEF ReadResponse, Pending, QueueOK, EntriesOK
  <2>3. ReadFrame(h) \in Frames /\ ReadFrame(h).kind = Top.kind /\ FrameOK(ReadFrame(h))
    BY <1>0, <2>1, <2>2, Pop, ReadFrameOK
  <2>4. ReadFrame(h).h = NoHandler
    BY <2>1, <2>3 DEF FrameOK, CallbackKinds
  <2> DEFINE base == Append(Below, ReadFrame(h))
             f == IF called[h] = NoClosure
                  THEN Frame("finished", h, NoRequest, NoClosure)
                  ELSE Frame("closure", h, NoRequest, called[h])
  <2>5. base \in Seq(Frames) /\ FramesLive(base, requests)
    BY <1>below, <2>1, <2>3, <2>4, LivePush
  <2>6. f \in Frames /\ f.h = h
    <3>1. called[h] \in Closure \cup {NoClosure}
      BY <1>0 DEF QueueOK
    <3> QED BY <3>1 DEF Frame, Frames, Kinds, CallbackKinds
  <2>7. Call(f, base, depth, exception)
    BY <1>2 DEF ReadResponse
  <2> HIDE DEF base, f
  <2>8. FramesLive(stack', requests)
    BY <2>2, <2>5, <2>6, <2>7, LiveCall
  <2> QED BY <1>goal, <2>1, <2>8
<1>3. ASSUME NEW h \in Handler, NEW result \in {"done", "error"}, TransferDone(h, result)
      PROVE Goal
  <2>1. requests' = requests /\ stack' = stack
    BY <1>3 DEF TransferDone, queue
  <2> QED BY <1>0, <1>goal, <2>1
<1>4. CASE PerformEnd
  <2> DEFINE f == Frame("responsehandler", NoHandler, NoRequest, NoClosure)
  <2>1. stack # <<>> /\ requests' = requests /\ stack' = Append(Below, f)
    BY <1>4, TopKind DEF PerformEnd, queue
  <2>2. f \in Frames /\ f.h = NoHandler
    BY DEF Frame, Frames, Kinds
  <2> HIDE DEF f
  <2>3. FramesLive(stack', requests)
    BY <1>below, <2>1, <2>2, LivePush
  <2> QED BY <1>goal, <2>1, <2>3
<1>5. CASE ResponsesRead \/ ExecReturn \/ ExecWaitFails
  <2>1. stack # <<>> /\ requests' = requests /\ stack' = Below
    BY <1>5, TopKind DEF ResponsesRead, ExecReturn, ExecWaitFails, queue
  <2> QED BY <1>goal, <1>below, <2>1
<1>6. CASE ExecAgain
  <2>1. requests' = requests /\ stack' = Append(stack, Perform)
    BY <1>6 DEF ExecAgain, queue
  <2>2. Perform \in Frames /\ Perform.h = NoHandler
    BY DEF Perform, Frame, Frames, Kinds
  <2>3. FramesLive(stack', requests)
    BY <1>0, <2>1, <2>2, LivePush
  <2> QED BY <1>goal, <2>1, <2>3
<1> QED BY <1>1, <1>2, <1>3, <1>4, <1>5, <1>6 DEF Driver

\* One step of any kind, with callbacks that do not call reset().
LEMMA LiveStep ==
  ASSUME Quiet, Inv, FrameHandlersLive, [Next]_vars
  PROVE  /\ FrameHandlersLive'
         /\ depth # 0 /\ depth' # 0 => requests \subseteq requests'
<1>1. CASE UNCHANGED vars
  BY <1>1 DEF vars, FrameHandlersLive
<1> QED BY <1>1, ScriptLive, ReturnLive, DriverLive DEF Next

\* A handler that a C function uses after a callback is never freed by what the
\* callback calls, if it does not call reset() and requeue() finds memory.
THEOREM HandlersLive ==
  ASSUME Quiet
  PROVE  Spec => []FrameHandlersLive
<1>1. Init => FrameHandlersLive
  BY DEF Init, FrameHandlersLive
<1>2. Inv /\ FrameHandlersLive /\ [Next]_vars => FrameHandlersLive'
  BY LiveStep
<1> QED BY <1>1, <1>2, Invariance, PTL DEF Spec

\* While callbacks execute nothing leaves the queue, under the same condition.
THEOREM DequeueDeferred ==
  ASSUME Quiet
  PROVE  Spec => NoDequeueInCallback
<1>1. Inv /\ FrameHandlersLive /\ [Next]_vars
        => [depth # 0 /\ depth' # 0 => requests \subseteq requests']_vars
  BY LiveStep
<1> QED BY <1>1, Invariance, HandlersLive, PTL DEF Spec, NoDequeueInCallback

-----------------------------------------------------------------------------
(* The array of deferred errors.  While the response handler runs, nothing  *)
(* but curl_multi_perform() adds messages to those that can be read, and    *)
(* curl_multi_perform() is never called above a response handler: send()    *)
(* and once() do nothing in callbacks.  So what was counted when the first  *)
(* failure was read bounds the failures to come.                            *)

FrameFits(f, n) ==
  IF f.cap = 0 THEN f.err_count = 0
  ELSE f.kind = "responsehandler" /\ f.err_count + n <= f.cap

AllExec(s) == \A i \in DOMAIN s : s[i].kind = "exec"

\* Driver functions have only send() below them.
StackFits(s, n) ==
  \A i \in DOMAIN s :
    /\ FrameFits(s[i], n)
    /\ s[i].kind \notin CallbackKinds => \A j \in 1 .. i - 1 : s[j].kind = "exec"

ErrorsInv == StackFits(stack, Cardinality(Pending))

\* Fewer messages fit as well.
LEMMA FitsFewer ==
  ASSUME NEW s \in Seq(Frames), NEW n \in Nat, NEW m \in Nat, m <= n, StackFits(s, n)
  PROVE  StackFits(s, m)
<1>1. ASSUME NEW i \in DOMAIN s PROVE FrameFits(s[i], m)
  <2>1. s[i] \in Frames /\ FrameFits(s[i], n)
    BY DEF StackFits
  <2>2. s[i].cap \in Nat /\ s[i].err_count \in Nat
    BY <2>1 DEF Frames
  <2> QED BY <2>1, <2>2 DEF FrameFits
<1> QED BY <1>1 DEF StackFits

\* Entering a callback, or a driver function that only send() is below.
LEMMA FitsPush ==
  ASSUME NEW s \in Seq(Frames), NEW f \in Frames, NEW n, StackFits(s, n), FrameFits(f, n),
         f.kind \in CallbackKinds \/ AllExec(s)
  PROVE  StackFits(Append(s, f), n)
<1> DEFINE t == Append(s, f)
           k == Len(s) + 1
<1>1. /\ DOMAIN s = 1 .. Len(s) /\ DOMAIN t = 1 .. k /\ Len(s) \in Nat
      /\ t[k] = f /\ \A i \in 1 .. Len(s) : t[i] = s[i]
  OBVIOUS
<1> HIDE DEF t
<1>2. ASSUME NEW i \in 1 .. k
      PROVE  /\ FrameFits(t[i], n)
             /\ t[i].kind \notin CallbackKinds => \A j \in 1 .. i - 1 : t[j].kind = "exec"
  <2>1. CASE i = k
    BY <1>1, <2>1 DEF AllExec
  <2>2. CASE i # k
    <3>1. i \in DOMAIN s /\ \A j \in 1 .. i - 1 : j \in DOMAIN s
      BY <1>1, <2>2
    <3> QED BY <1>1, <3>1 DEF StackFits
  <2> QED BY <2>1, <2>2
<1> QED BY <1>1, <1>2 DEF StackFits, t

\* The frames below the top one; below a driver function there is only send().
LEMMA FitsBelow ==
  ASSUME stack \in Seq(Frames), stack # <<>>, NEW n, StackFits(stack, n)
  PROVE  /\ Below \in Seq(Frames) /\ StackFits(Below, n)
         /\ Top \in Frames /\ FrameFits(Top, n)
         /\ Top.kind \notin CallbackKinds => AllExec(Below)
<1>1. /\ Below \in Seq(Frames) /\ Top \in Frames /\ Len(stack) \in DOMAIN stack
      /\ Len(Below) = Len(stack) - 1
      /\ \A i \in DOMAIN Below : i \in DOMAIN stack /\ Below[i] = stack[i]
  BY SplitStack DEF Below, Top
<1>2. DOMAIN Below = 1 .. Len(stack) - 1 /\ Len(stack) \in Nat
  BY <1>1
<1>3. StackFits(Below, n)
  <2> SUFFICES ASSUME NEW i \in DOMAIN Below
               PROVE  /\ FrameFits(Below[i], n)
                      /\ Below[i].kind \notin CallbackKinds =>
                           \A j \in 1 .. i - 1 : Below[j].kind = "exec"
    BY DEF StackFits
  <2>1. \A j \in 1 .. i - 1 : j \in DOMAIN Below
    BY <1>2
  <2> QED BY <1>1, <2>1 DEF StackFits
<1>4. FrameFits(Top, n)
  BY <1>1 DEF StackFits, Top
<1>5. Top.kind \notin CallbackKinds => AllExec(Below)
  BY <1>1, <1>2 DEF StackFits, Top, AllExec
<1> QED BY <1>1, <1>3, <1>4, <1>5

\* A new frame has no errors yet.
LEMMA NewFrameFits ==
  ASSUME NEW kind, NEW h, NEW r, NEW c, NEW n
  PROVE  FrameFits(Frame(kind, h, r, c), n)
BY DEF Frame, FrameFits

\* Entering a callback.
LEMMA FitsCall ==
  ASSUME NEW base \in Seq(Frames), NEW f \in Frames, NEW d, NEW exc, NEW n,
         StackFits(base, n), FrameFits(f, n), f.kind \in CallbackKinds,
         Call(f, base, d, exc)
  PROVE  StackFits(stack', n)
<1>1. CASE exc
  BY <1>1 DEF Call
<1>2. CASE ~exc
  BY <1>2, FitsPush DEF Call
<1> QED BY <1>1, <1>2

\* A step after which no more messages can be read than before.
LEMMA FitsStep ==
  ASSUME Inv, Inv', Pending' \subseteq Pending, StackFits(stack', Cardinality(Pending))
  PROVE  ErrorsInv'
<1>1. Pending \subseteq Handler /\ Pending' \subseteq Handler
  BY DEF Pending
<1>2. IsFiniteSet(Pending) /\ Cardinality(Pending) \in Nat /\ Cardinality(Pending') \in Nat
  BY <1>1, HandlersFinite
<1>3. Cardinality(Pending') <= Cardinality(Pending)
  BY <1>2, FS_Subset
<1>4. stack' \in Seq(Frames)
  BY DEF Inv, StackOK
<1>5. StackFits(stack', Cardinality(Pending'))
  BY <1>2, <1>3, <1>4, FitsFewer
<1> QED BY <1>5 DEF ErrorsInv

\* The tail of enqueue.
LEMMA EnqueueTailFits ==
  ASSUME QueueOK, NEW r, NEW c, NEW base \in Seq(Frames), NEW d, NEW exc, NEW n,
         StackFits(base, n), EnqueueTail(r, c, base, d, exc)
  PROVE  StackFits(stack', n) /\ Pending' \subseteq Pending
<1>1. CASE EnqueueFails(r, base, d, exc) \/ EnqueueAddFails(r, base, d)
  BY <1>1 DEF EnqueueFails, EnqueueAddFails, Pending
<1>2. ASSUME NEW h \in Handler, EnqueueAdds(r, c, h, base, d, exc)
      PROVE  StackFits(stack', n) /\ Pending' \subseteq Pending
  <2> DEFINE f == Frame("start", h, NoRequest, NoClosure)
  <2>1. Call(f, base, d, exc) /\ multi' = [multi EXCEPT ![h] = "running"]
    BY <1>2 DEF EnqueueAdds
  <2>2. f \in Frames /\ f.kind \in CallbackKinds
    BY DEF Frame, Frames, Kinds, CallbackKinds
  <2>3. FrameFits(f, n)
    BY NewFrameFits
  <2> HIDE DEF f
  <2>4. StackFits(stack', n)
    BY <2>1, <2>2, <2>3, FitsCall
  <2>5. Pending' \subseteq Pending
    BY <2>1 DEF Pending, QueueOK
  <2> QED BY <2>4, <2>5
<1> QED BY <1>1, <1>2 DEF EnqueueTail

\* User code at depth 0 is the script itself.
LEMMA ShallowScript ==
  ASSUME StackOK(stack, 0), NEW op, UserCode(op)
  PROVE  stack = <<>>
<1> SUFFICES ASSUME stack # <<>> PROVE FALSE
  OBVIOUS
<1>1. stack \in Seq(Frames) /\ DepthOf(stack) = 0
  BY DEF StackOK
<1>2. Callbacks(stack) = {}
  BY <1>1, CallbacksFinite, FS_EmptySet DEF DepthOf
<1>3. Len(stack) \in DOMAIN stack /\ Top \in Frames
  BY <1>1, SplitStack DEF Top
<1>4. Top.kind \notin CallbackKinds
  BY <1>2, <1>3 DEF Callbacks, Top
<1>5. Top.kind # "script"
  BY <1>3 DEF Frames, Kinds, CallbackKinds
<1> QED BY <1>4, <1>5 DEF UserCode, At, CallbackKinds

\* Methods called by user code add no message and enter nothing on top of a
\* response handler but callbacks.
LEMMA ScriptFits ==
  ASSUME Inv, ErrorsInv, Script
  PROVE  StackFits(stack', Cardinality(Pending)) /\ Pending' \subseteq Pending
<1> DEFINE n == Cardinality(Pending)
           Cs == Closure \cup {NoClosure}
           Goal == StackFits(stack', n) /\ Pending' \subseteq Pending
<1>0. /\ stack \in Seq(Frames) /\ StackOK(stack, depth)
      /\ StackFits(stack, n)
      /\ QueueOK
  BY DEF Inv, StackOK, ErrorsInv
<1> SUFFICES Goal
  OBVIOUS
<1> HIDE DEF n
<1>1. ASSUME NEW r \in Request, NEW c \in Cs, Enqueue(r, c) PROVE Goal
  <2> DEFINE f == Frame("prepare", NoHandler, r, c)
  <2>1. Call(f, stack, depth, exception) /\ Pending' = Pending
    BY <1>1 DEF Enqueue, Pending
  <2>2. f \in Frames /\ f.kind \in CallbackKinds
    BY DEF Frame, Frames, Kinds, CallbackKinds
  <2>3. FrameFits(f, n)
    BY NewFrameFits
  <2> HIDE DEF f
  <2> QED BY <1>0, <2>1, <2>2, <2>3, FitsCall
<1>2. ASSUME NEW r \in Request, NEW c \in Cs, RequeueNew(r, c) PROVE Goal
  <2>1. EnqueueTail(r, c, stack, depth, exception)
    BY <1>2 DEF RequeueNew
  <2> QED BY <1>0, <2>1, EnqueueTailFits
<1>3. ASSUME NEW r \in Request, NEW c \in Cs, Requeue(r, c) PROVE Goal
  <2> DEFINE h == EntryOf(r)
             f == Frame("restart", h, NoRequest, c)
  <2>1. h \in Handler
    BY <1>0, <1>3 DEF Requeue, Enqueued, EntryOf, QueueOK
  <2>2. Call(f, stack, depth, exception) /\ multi' = [multi EXCEPT ![h] = "running"]
    BY <1>3 DEF Requeue
  <2> HIDE DEF h
  <2>3. f \in Frames /\ f.kind \in CallbackKinds
    BY <2>1 DEF Frame, Frames, Kinds, CallbackKinds
  <2>4. FrameFits(f, n)
    BY NewFrameFits
  <2>5. Pending' \subseteq Pending
    BY <1>0, <2>1, <2>2 DEF Pending, QueueOK
  <2> HIDE DEF f
  <2> QED BY <1>0, <2>2, <2>3, <2>4, <2>5, FitsCall
<1>4. ASSUME NEW hs, Destroy(hs), stack' = stack PROVE Goal
  <2>1. Pending' \subseteq Pending
    BY <1>4 DEF Destroy, Pending
  <2> QED BY <1>0, <1>4, <2>1
<1>5. ASSUME NEW r \in Request, RequeueAddFails(r) \/ Dequeue(r) \/ Refused(r) PROVE Goal
  <2>1. CASE Refused(r)
    BY <1>0, <2>1 DEF Refused, Pending
  <2>2. CASE RequeueAddFails(r) \/ Dequeue(r)
    BY <1>4, <2>2 DEF RequeueAddFails, Dequeue
  <2> QED BY <1>5, <2>1, <2>2
<1>6. CASE Reset
  BY <1>4, <1>6 DEF Reset
<1>7. CASE GetResponse \/ Catch
  BY <1>0, <1>7 DEF GetResponse, Catch, Pending
<1>8. ASSUME NEW s \in Seq(Frames), AllExec(s), StackFits(s, n)
      PROVE  StackFits(Append(s, Perform), n)
  <2>1. Perform \in Frames /\ FrameFits(Perform, n)
    BY NewFrameFits DEF Perform, Frame, Frames, Kinds
  <2> QED BY <1>8, <2>1, FitsPush
<1>9. CASE Once
  <2>1. stack = <<>> /\ Pending' = Pending /\ stack' = Append(stack, Perform)
    BY <1>0, <1>9, ShallowScript DEF Once, Pending
  <2>2. AllExec(stack)
    BY <2>1 DEF AllExec
  <2> QED BY <1>0, <1>8, <2>1, <2>2
<1>10. CASE Exec
  <2> DEFINE f == Frame("exec", NoHandler, NoRequest, NoClosure)
  <2>1. stack = <<>> /\ Pending' = Pending /\ stack' = Append(Append(stack, f), Perform)
    BY <1>0, <1>10, ShallowScript DEF Exec, Pending
  <2>2. f \in Frames /\ f.kind = "exec"
    BY DEF Frame, Frames, Kinds
  <2>3. FrameFits(f, n)
    BY NewFrameFits
  <2> HIDE DEF f
  <2>4. StackFits(Append(stack, f), n)
    <3>1. AllExec(stack)
      BY <2>1 DEF AllExec
    <3> QED BY <1>0, <2>2, <2>3, <3>1, FitsPush
  <2>5. Append(stack, f) \in Seq(Frames) /\ AllExec(Append(stack, f))
    BY <1>0, <2>1, <2>2 DEF AllExec
  <2> QED BY <1>8, <2>1, <2>4, <2>5
<1> QED BY <1>1, <1>2, <1>3, <1>5, <1>6, <1>7, <1>9, <1>10 DEF Script

\* Returns of callbacks add no message either.
LEMMA ReturnFits ==
  ASSUME Inv, ErrorsInv, Return
  PROVE  StackFits(stack', Cardinality(Pending)) /\ Pending' \subseteq Pending
<1> DEFINE n == Cardinality(Pending)
           Goal == StackFits(stack', n) /\ Pending' \subseteq Pending
<1>0. stack \in Seq(Frames) /\ StackFits(stack, n) /\ QueueOK
  BY DEF Inv, StackOK, ErrorsInv
<1> SUFFICES Goal
  OBVIOUS
<1> HIDE DEF n
<1>below. ASSUME stack # <<>>
          PROVE  Below \in Seq(Frames) /\ StackFits(Below, n) /\ Top \in Frames
  BY <1>0, <1>below, FitsBelow
<1>1. ASSUME NEW throw \in BOOLEAN, PrepareReturn(throw) PROVE Goal
  <2>1. stack # <<>> /\ EnqueueTail(Top.r, Top.c, Below, depth - 1, throw)
    BY <1>1, TopKind DEF PrepareReturn
  <2> QED BY <1>0, <1>below, <2>1, EnqueueTailFits
<1>2. ASSUME NEW throw \in BOOLEAN,
             StartReturn(throw) \/ RestartReturn(throw) \/ XferReturn(throw)
      PROVE  Goal
  <2>1. stack # <<>> /\ stack' = Below /\ Pending' = Pending
    BY <1>2, TopKind DEF StartReturn, RestartReturn, XferReturn, Pending
  <2> QED BY <1>below, <2>1
<1>3. ASSUME NEW throw \in BOOLEAN, FinishedReturn(throw) PROVE Goal
  <2>1. stack # <<>> /\ stack' = Below
    BY <1>3, TopKind DEF FinishedReturn
  <2>2. Pending' \subseteq Pending
    BY <1>3 DEF FinishedReturn, Destroy, Pending
  <2> QED BY <1>below, <2>1, <2>2
<1>4. ASSUME NEW retval \in BOOLEAN, NEW throw \in BOOLEAN, ClosureReturn(retval, throw)
      PROVE  Goal
  <2> DEFINE f == [Frame("finished", Top.h, NoRequest, NoClosure) EXCEPT !.dequeue = retval]
  <2>1. stack # <<>> /\ Pending' = Pending
    BY <1>4, TopKind DEF ClosureReturn, Pending
  <2>2. Call(f, Below, depth - 1, throw) \/ stack' = Below
    BY <1>4 DEF ClosureReturn
  <2>3. f \in Frames /\ f.kind \in CallbackKinds /\ FrameFits(f, n)
    <3>1. Top.h \in Handler \cup {NoHandler}
      BY <1>below, <2>1 DEF Frames
    <3> QED BY <3>1 DEF Frame, Frames, Kinds, CallbackKinds, FrameFits
  <2> HIDE DEF f
  <2> QED BY <1>below, <2>1, <2>2, <2>3, FitsCall
<1> QED BY <1>1, <1>2, <1>3, <1>4 DEF Return

\* Reading a message fills one place at most, of those counted for it.
LEMMA ReadFrameFits ==
  ASSUME QueueOK, Top \in Frames, Top.kind = "responsehandler", NEW h \in Pending,
         FrameFits(Top, Cardinality(Pending))
  PROVE  FrameFits(ReadFrame(h), Cardinality(Pending) - 1)
<1> DEFINE n == Cardinality(Pending)
<1>1. IsFiniteSet(Pending) /\ n \in Nat /\ n # 0
  <2>1. Pending \subseteq Handler
    BY DEF Pending
  <2> QED BY <2>1, HandlersFinite, FS_EmptySet
<1>2. Top.cap \in Nat /\ Top.err_count \in Nat
  BY DEF Frames
<1> DEFINE fails == multi[h] = "error"
           cap == IF fails /\ Top.cap = 0 THEN n - 1 + 1 ELSE Top.cap
           errs == IF fails THEN Top.err_count + 1 ELSE Top.err_count
<1>3. /\ ReadFrame(h).cap = cap
      /\ ReadFrame(h).err_count = errs
      /\ ReadFrame(h).kind = "responsehandler"
  BY DEF ReadFrame, Frames
<1>4. IF cap = 0 THEN errs = 0 ELSE errs + (n - 1) <= cap
  <2> HIDE DEF n
  <2> QED BY <1>1, <1>2 DEF FrameFits, n
<1> HIDE DEF cap, errs
<1> QED BY <1>3, <1>4 DEF FrameFits

\* Below curl_multi_perform() no frame has counted messages.
LEMMA PerformFits ==
  ASSUME Inv, ErrorsInv, At = "perform", NEW m
  PROVE  StackFits(stack, m)
<1>1. stack # <<>> /\ Top.kind = "perform" /\ "perform" \notin CallbackKinds
  BY TopKind DEF CallbackKinds
<1>2. stack \in Seq(Frames) /\ StackFits(stack, Cardinality(Pending))
  BY DEF Inv, StackOK, ErrorsInv
<1>3. AllExec(Below)
  BY <1>1, <1>2, FitsBelow
<1>4. /\ Len(stack) \in Nat /\ Len(Below) = Len(stack) - 1 /\ Below \in Seq(Frames)
      /\ DOMAIN stack = 1 .. Len(stack)
      /\ \A i \in DOMAIN Below : Below[i] = stack[i]
  BY <1>1, <1>2, SplitStack DEF Below
<1>5. ASSUME NEW i \in DOMAIN stack PROVE stack[i].kind # "responsehandler"
  <2>1. CASE i = Len(stack)
    BY <1>1, <2>1 DEF Top
  <2>2. CASE i # Len(stack)
    <3>1. i \in DOMAIN Below
      BY <1>4, <2>2
    <3> QED BY <1>3, <1>4, <3>1 DEF AllExec
  <2> QED BY <2>1, <2>2
<1> QED BY <1>2, <1>5 DEF StackFits, FrameFits

\* The driver reads what was counted; curl_multi_perform() adds messages only
\* when no response handler is active.
LEMMA DriverFits ==
  ASSUME Inv, ErrorsInv, Inv', Driver
  PROVE  ErrorsInv'
<1> DEFINE n == Cardinality(Pending)
<1>0. stack \in Seq(Frames) /\ StackFits(stack, n) /\ QueueOK
  BY DEF Inv, StackOK, ErrorsInv
<1>below. ASSUME stack # <<>>
          PROVE  /\ Below \in Seq(Frames) /\ StackFits(Below, n)
                 /\ Top \in Frames /\ FrameFits(Top, n)
                 /\ Top.kind \notin CallbackKinds => AllExec(Below)
  BY <1>0, <1>below, FitsBelow
<1>goal. ASSUME StackFits(stack', n), Pending' = Pending PROVE ErrorsInv'
  BY <1>goal DEF ErrorsInv
<1> HIDE DEF n
<1>1. ASSUME NEW h \in Handler, Xfer(h) PROVE ErrorsInv'
  <2> DEFINE f == Frame("xfer", h, NoRequest, NoClosure)
  <2>1. Pending' = Pending /\ Call(f, stack, depth, exception)
    BY <1>1 DEF Xfer, Pending
  <2>2. f \in Frames /\ f.kind \in CallbackKinds
    BY DEF Frame, Frames, Kinds, CallbackKinds
  <2>3. FrameFits(f, n)
    BY NewFrameFits
  <2> HIDE DEF f
  <2>4. StackFits(stack', n)
    BY <1>0, <2>1, <2>2, <2>3, FitsCall
  <2> QED BY <1>goal, <2>1, <2>4
<1>2. ASSUME NEW h \in Handler, ReadResponse(h) PROVE ErrorsInv'
  <2>1. stack # <<>> /\ Top.kind = "responsehandler" /\ "responsehandler" \notin CallbackKinds
    BY <1>2, TopKind DEF ReadResponse, CallbackKinds
  <2>2. h \in Pending /\ multi' = [multi EXCEPT ![h] = "idle"]
    BY <1>2 DEF ReadResponse
  <2>3. IsFiniteSet(Pending) /\ n \in Nat /\ n # 0 /\ Pending' = Pending \ {h}
    <3>1. Pending \subseteq Handler
      BY DEF Pending
    <3>2. Pending' = Pending \ {h}
      BY <1>0, <2>2 DEF Pending, QueueOK
    <3> QED BY <2>2, <3>1, <3>2, HandlersFinite, FS_EmptySet DEF n
  <2>4. Cardinality(Pending') = n - 1
    BY <2>2, <2>3, FS_RemoveElement DEF n
  <2>5. n - 1 \in Nat /\ n - 1 <= n
    BY <2>3
  <2>6. /\ ReadFrame(h) \in Frames
        /\ ReadFrame(h).kind = "responsehandler"
        /\ FrameFits(ReadFrame(h), n - 1)
    <3>1. Top \in Frames /\ FrameOK(Top)
      BY <2>1, Pop DEF Inv
    <3> QED BY <1>0, <1>below, <2>1, <2>2, <3>1, ReadFrameOK, ReadFrameFits DEF n
  <2>7. StackFits(Below, n - 1)
    BY <1>below, <2>1, <2>3, <2>5, FitsFewer
  <2> DEFINE base == Append(Below, ReadFrame(h))
             f == IF called[h] = NoClosure
                  THEN Frame("finished", h, NoRequest, NoClosure)
                  ELSE Frame("closure", h, NoRequest, called[h])
  <2>8. base \in Seq(Frames) /\ StackFits(base, n - 1)
    BY <1>below, <2>1, <2>6, <2>7, FitsPush
  <2>9. f \in Frames /\ f.kind \in CallbackKinds
    <3>1. called[h] \in Closure \cup {NoClosure}
      BY <1>0 DEF QueueOK
    <3> QED BY <3>1 DEF Frame, Frames, Kinds, CallbackKinds
  <2>10. FrameFits(f, n - 1)
    BY NewFrameFits
  <2>11. Call(f, base, depth, exception)
    BY <1>2 DEF ReadResponse
  <2> HIDE DEF base, f
  <2>12. StackFits(stack', n - 1)
    BY <2>8, <2>9, <2>10, <2>11, FitsCall
  <2> QED BY <2>4, <2>12 DEF ErrorsInv
<1>3. ASSUME NEW h \in Handler, NEW result \in {"done", "error"}, TransferDone(h, result)
      PROVE ErrorsInv'
  <2>1. At = "perform" /\ stack' = stack
    BY <1>3 DEF TransferDone
  <2>2. StackFits(stack, Cardinality(Pending'))
    BY <2>1, PerformFits
  <2> QED BY <2>1, <2>2 DEF ErrorsInv
<1>4. CASE PerformEnd
  <2> DEFINE f == Frame("responsehandler", NoHandler, NoRequest, NoClosure)
  <2>1. stack # <<>> /\ Top.kind = "perform" /\ "perform" \notin CallbackKinds
    BY <1>4, TopKind DEF PerformEnd, CallbackKinds
  <2>2. Pending' = Pending /\ stack' = Append(Below, f)
    BY <1>4 DEF PerformEnd, Pending
  <2>3. f \in Frames
    BY DEF Frame, Frames, Kinds
  <2>4. FrameFits(f, n)
    BY NewFrameFits
  <2> HIDE DEF f
  <2>5. StackFits(stack', n)
    BY <1>below, <2>1, <2>2, <2>3, <2>4, FitsPush
  <2> QED BY <1>goal, <2>2, <2>5
<1>5. CASE ResponsesRead \/ ExecReturn \/ ExecWaitFails
  <2>1. stack # <<>> /\ Pending' = Pending /\ stack' = Below
    BY <1>5, TopKind DEF ResponsesRead, ExecReturn, ExecWaitFails, Pending
  <2> QED BY <1>goal, <1>below, <2>1
<1>6. CASE ExecAgain
  <2>1. stack # <<>> /\ Top.kind = "exec" /\ "exec" \notin CallbackKinds
    BY <1>6, TopKind DEF ExecAgain, CallbackKinds
  <2>2. Pending' = Pending /\ stack' = Append(stack, Perform)
    BY <1>6 DEF ExecAgain, Pending
  <2>3. AllExec(stack)
    <3>1. AllExec(Below) /\ stack = Append(Below, Top) /\ Below \in Seq(Frames) /\ Top \in Frames
      BY <1>0, <1>below, <2>1, SplitStack DEF Below, Top
    <3> QED BY <2>1, <3>1 DEF AllExec
  <2>4. Perform \in Frames /\ FrameFits(Perform, n)
    BY NewFrameFits DEF Perform, Frame, Frames, Kinds
  <2>5. StackFits(stack', n)
    BY <1>0, <2>2, <2>3, <2>4, FitsPush
  <2> QED BY <1>goal, <2>2, <2>5
<1> QED BY <1>1, <1>2, <1>3, <1>4, <1>5, <1>6 DEF Driver

\* The failures of one run of the response handler never exceed the array that
\* was allocated at the first of them, however its callbacks change the queue.
THEOREM ErrorsAlwaysFit == Spec => []ErrorsFit
<1>1. Init => ErrorsInv
  BY DEF Init, ErrorsInv, StackFits
<1>2. Inv /\ Inv' /\ ErrorsInv /\ [Next]_vars => ErrorsInv'
  <2> SUFFICES ASSUME Inv, Inv', ErrorsInv, [Next]_vars PROVE ErrorsInv'
    OBVIOUS
  <2>1. CASE Script \/ Return
    BY <2>1, ScriptFits, ReturnFits, FitsStep
  <2>2. CASE Driver
    BY <2>2, DriverFits
  <2>3. CASE UNCHANGED vars
    BY <2>3 DEF vars, ErrorsInv, Pending
  <2> QED BY <2>1, <2>2, <2>3 DEF Next
<1>3. Inv /\ ErrorsInv => ErrorsFit
  <2> SUFFICES ASSUME Inv, ErrorsInv, NEW i \in DOMAIN stack
               PROVE  stack[i].err_count <= stack[i].cap
    BY DEF ErrorsFit
  <2>1. stack[i].cap \in Nat /\ stack[i].err_count \in Nat
    <3>1. stack[i] \in Frames
      BY DEF Inv, StackOK
    <3> QED BY <3>1 DEF Frames
  <2>2. Cardinality(Pending) \in Nat
    <3>1. Pending \subseteq Handler
      BY DEF Pending
    <3> QED BY <3>1, HandlersFinite
  <2>3. FrameFits(stack[i], Cardinality(Pending))
    BY DEF ErrorsInv, StackFits
  <2> QED BY <2>1, <2>2, <2>3 DEF FrameFits
<1> QED BY <1>1, <1>2, <1>3, Invariance, PTL DEF Spec

-----------------------------------------------------------------------------
(* The references on request objects.  Every step gains or releases on an   *)
(* object what it adds to or removes from the queue; only enqueueing that   *)
(* curl_multi_add_handle() refuses gains one for an entry that is not made. *)

Held(r) == IF Enqueued(r) THEN 1 ELSE 0

\* No step changes the references that are held beyond the entries.
SurplusKept == \A r \in Request : refs'[r] - Held(r)' = refs[r] - Held(r)

\* libcurl refuses the handle: it is inside a callback, or has no memory.
Leaks(r) ==
  /\ At = "prepare" \/ UserCode("requeue")
  /\ InLibcurl \/ AddMayFail
  /\ refs' = [refs EXCEPT ![r] = @ + 1]
  /\ UNCHANGED <<requests, request>>

\* Steps that leave the entries and the references alone.
LEMMA SurplusUnchanged ==
  ASSUME UNCHANGED <<requests, request, refs>>
  PROVE  SurplusKept
BY DEF SurplusKept, Held, Enqueued

\* An entry that is destroyed releases the one reference it holds.
LEMMA SurplusDestroyed ==
  ASSUME QueueOK, NEW hs, Destroy(hs)
  PROVE  SurplusKept
<1> SUFFICES ASSUME NEW r \in Request
             PROVE  refs'[r] - Held(r)' = refs[r] - Held(r)
  BY DEF SurplusKept
<1> DEFINE S == {h \in hs \cap requests : request[h] = r}
<1>1. /\ refs'[r] = refs[r] - Cardinality(S) /\ refs[r] \in Int
      /\ requests' = requests \ hs
      /\ \A h \in requests' : request'[h] = request[h]
      /\ UniqueRequests
  BY DEF Destroy, Released, QueueOK
<1>2. CASE S = {}
  <2>1. Enqueued(r)' <=> Enqueued(r)
    BY <1>1, <1>2 DEF Enqueued
  <2>2. Cardinality(S) = 0
    BY <1>2, FS_EmptySet
  <2> QED BY <1>1, <2>1, <2>2 DEF Held
<1>3. CASE S # {}
  <2>1. PICK g \in S : TRUE
    BY <1>3
  <2>2. S = {g} /\ Enqueued(r)
    BY <1>1, <2>1 DEF UniqueRequests, Enqueued
  <2>3. ~Enqueued(r)'
    BY <1>1, <2>1 DEF UniqueRequests, Enqueued
  <2>4. Cardinality(S) = 1
    BY <2>2, FS_Singleton
  <2> HIDE DEF S
  <2> QED BY <1>1, <2>2, <2>3, <2>4 DEF Held
<1> QED BY <1>2, <1>3

\* The tail of enqueue takes a reference with the entry it adds, or leaks it.
LEMMA SurplusTail ==
  ASSUME QueueOK, At = "prepare" \/ UserCode("requeue"),
         NEW q \in Request, NEW c, NEW base, NEW d, NEW exc, EnqueueTail(q, c, base, d, exc)
  PROVE  SurplusKept \/ Leaks(q)
<1>1. CASE EnqueueFails(q, base, d, exc)
  BY <1>1, SurplusUnchanged, ReferenceGivenBack DEF EnqueueFails, queue
<1>2. CASE EnqueueAddFails(q, base, d)
  BY <1>2 DEF EnqueueAddFails, Taken, Leaks, queue
<1>3. ASSUME NEW h \in Handler, EnqueueAdds(q, c, h, base, d, exc) PROVE SurplusKept
  <2> SUFFICES ASSUME NEW r \in Request
               PROVE  refs'[r] - Held(r)' = refs[r] - Held(r)
    BY DEF SurplusKept
  <2>1. /\ ~Enqueued(q) /\ h \notin requests /\ requests' = requests \cup {h}
        /\ request' = [request EXCEPT ![h] = q]
        /\ refs' = [refs EXCEPT ![q] = @ + 1]
        /\ refs \in [Request -> Int] /\ request \in [Handler -> Request \cup {NoRequest}]
        /\ requests \subseteq Handler
    BY <1>3 DEF EnqueueAdds, Taken, SecondCheck, QueueOK
  <2>2. CASE r = q
    <3>1. Enqueued(q)' /\ refs'[q] = refs[q] + 1 /\ refs[q] \in Int
      BY <2>1 DEF Enqueued
    <3> QED BY <2>1, <2>2, <3>1 DEF Held
  <2>3. CASE r # q
    <3>1. (Enqueued(r)' <=> Enqueued(r)) /\ refs'[r] = refs[r]
      BY <2>1, <2>3 DEF Enqueued
    <3> QED BY <3>1 DEF Held
  <2> QED BY <2>2, <2>3
<1> QED BY <1>1, <1>2, <1>3 DEF EnqueueTail

\* Every step keeps the surplus, or leaks one reference.
LEMMA SurplusStep ==
  ASSUME Inv, [Next]_vars
  PROVE  SurplusKept \/ \E r \in Request : Leaks(r)
<1> USE DEF Inv
<1>1. CASE UNCHANGED vars
  BY <1>1, SurplusUnchanged DEF vars
<1>2. ASSUME NEW r \in Request, NEW c \in Closure \cup {NoClosure}, RequeueNew(r, c)
      PROVE  SurplusKept \/ Leaks(r)
  BY <1>2, SurplusTail DEF RequeueNew
<1>3. ASSUME NEW r \in Request, RequeueAddFails(r) \/ Dequeue(r) PROVE SurplusKept
  BY <1>3, SurplusDestroyed DEF RequeueAddFails, Dequeue
<1>4. CASE Reset
  BY <1>4, SurplusDestroyed DEF Reset
<1>5. ASSUME NEW r \in Request, NEW c \in Closure \cup {NoClosure},
             Enqueue(r, c) \/ Requeue(r, c)
      PROVE  SurplusKept
  <2>1. UNCHANGED <<requests, request, refs>>
    BY <1>5 DEF Enqueue, Requeue, queue
  <2> QED BY <2>1, SurplusUnchanged
<1>6. CASE GetResponse \/ Once \/ Exec \/ Catch
  <2>1. UNCHANGED <<requests, request, refs>>
    BY <1>6 DEF GetResponse, Once, Exec, Catch, queue
  <2> QED BY <2>1, SurplusUnchanged
<1>7. ASSUME NEW r \in Request, Refused(r) PROVE SurplusKept
  BY <1>7, SurplusUnchanged DEF Refused, queue
<1>8. CASE Script
  BY <1>2, <1>3, <1>4, <1>5, <1>6, <1>7, <1>8 DEF Script
<1>9. CASE Driver
  <2>1. UNCHANGED <<requests, request, refs>>
    BY <1>9 DEF Driver, Xfer, ReadResponse, TransferDone, PerformEnd, ResponsesRead,
       ExecAgain, ExecReturn, ExecWaitFails, queue
  <2> QED BY <2>1, SurplusUnchanged
<1>10. ASSUME NEW throw \in BOOLEAN, PrepareReturn(throw)
       PROVE  SurplusKept \/ \E r \in Request : Leaks(r)
  <2>1. stack # <<>> /\ Top.kind = "prepare"
    BY <1>10, TopKind DEF PrepareReturn
  <2>2. Top.r \in Request
    BY <2>1, Pop DEF FrameOK
  <2>3. EnqueueTail(Top.r, Top.c, Below, depth - 1, throw) /\ At = "prepare"
    BY <1>10 DEF PrepareReturn
  <2> QED BY <2>2, <2>3, SurplusTail
<1>11. ASSUME NEW throw \in BOOLEAN,
              StartReturn(throw) \/ RestartReturn(throw) \/ XferReturn(throw)
       PROVE  SurplusKept
  <2>1. UNCHANGED <<requests, request, refs>>
    BY <1>11 DEF StartReturn, RestartReturn, XferReturn, queue
  <2> QED BY <2>1, SurplusUnchanged
<1>12. ASSUME NEW throw \in BOOLEAN, FinishedReturn(throw) PROVE SurplusKept
  <2>1. Destroy({Top.h}) \/ UNCHANGED <<requests, request, refs>>
    BY <1>12 DEF FinishedReturn, queue
  <2> QED BY <2>1, SurplusUnchanged, SurplusDestroyed
<1>13. ASSUME NEW retval \in BOOLEAN, NEW throw \in BOOLEAN, ClosureReturn(retval, throw)
       PROVE  SurplusKept
  <2>1. UNCHANGED <<requests, request, refs>>
    BY <1>13 DEF ClosureReturn, queue
  <2> QED BY <2>1, SurplusUnchanged
<1>14. CASE Return
  BY <1>10, <1>11, <1>12, <1>13, <1>14 DEF Return
<1> QED BY <1>1, <1>8, <1>9, <1>14 DEF Next

\* A queued request object is referenced: the queue never points at a freed
\* request, whatever fails on the way.
EntriesHoldRequests == \A h \in requests : refs[request[h]] >= 1

\* The request object of a queue entry is never freed under the entry.
THEOREM RequestsHeld == Spec => []EntriesHoldRequests
<1> DEFINE Covered == \A r \in Request : refs[r] >= Held(r)
<1>1. Init => Covered
  BY DEF Init, Held, Enqueued
<1>2. Inv /\ Inv' /\ Covered /\ [Next]_vars => Covered'
  <2> SUFFICES ASSUME Inv, Inv', Covered, [Next]_vars, NEW r \in Request
               PROVE  refs'[r] >= Held(r)'
    OBVIOUS
  <2>1. refs[r] \in Int /\ refs'[r] \in Int /\ refs[r] >= Held(r)
    BY DEF Inv, QueueOK
  <2>2. Held(r) \in Int /\ Held(r)' \in Int
    BY DEF Held
  <2>3. CASE SurplusKept
    BY <2>1, <2>2, <2>3 DEF SurplusKept
  <2>4. ASSUME NEW q \in Request, Leaks(q) PROVE refs'[r] >= Held(r)'
    <3>1. Held(r)' = Held(r)
      BY <2>4 DEF Leaks, Held, Enqueued
    <3>2. refs'[r] >= refs[r]
      BY <2>1, <2>4 DEF Leaks, Inv, QueueOK
    <3> QED BY <2>1, <2>2, <3>1, <3>2
  <2> QED BY <2>3, <2>4, SurplusStep
<1>3. Inv /\ Covered => EntriesHoldRequests
  BY DEF Inv, QueueOK, EntriesOK, EntriesHoldRequests, Held, Enqueued
<1> QED BY <1>1, <1>2, <1>3, Invariance, PTL DEF Spec

\* Observers that libcurl notifies do not enqueue, and libcurl finds memory.
Unrefused == XferOps \cap {"enqueue", "requeue"} = {} /\ ~AddMayFail

NoXfer(s) == \A i \in DOMAIN s : s[i].kind # "xfer"

\* Nothing is entered on top of a notification from inside libcurl.
XferInv == stack # <<>> => NoXfer(Below)

\* A frame pushed on a stack without such a notification.
LEMMA XferPush ==
  ASSUME NEW s \in Seq(Frames), NEW f \in Frames, NoXfer(s)
  PROVE  /\ Append(s, f) \in Seq(Frames)
         /\ NoXfer(SubSeq(Append(s, f), 1, Len(Append(s, f)) - 1))
         /\ f.kind # "xfer" => NoXfer(Append(s, f))
<1> DEFINE t == Append(s, f)
           k == Len(s) + 1
<1>1. /\ t \in Seq(Frames) /\ Len(t) = k /\ Len(s) \in Nat
      /\ DOMAIN s = 1 .. Len(s) /\ DOMAIN t = 1 .. k
      /\ t[k] = f /\ \A i \in 1 .. Len(s) : t[i] = s[i]
  OBVIOUS
<1> HIDE DEF t
<1>2. /\ DOMAIN SubSeq(t, 1, Len(t) - 1) = 1 .. Len(s)
      /\ \A i \in 1 .. Len(s) : SubSeq(t, 1, Len(t) - 1)[i] = t[i]
  BY <1>1
<1>3. f.kind # "xfer" => NoXfer(t)
  BY <1>1 DEF NoXfer
<1>4. NoXfer(SubSeq(t, 1, Len(t) - 1))
  BY <1>1, <1>2 DEF NoXfer
<1> QED BY <1>1, <1>3, <1>4 DEF t

\* Returning to a stack without such a notification.
LEMMA XferPop ==
  ASSUME stack' \in Seq(Frames), NoXfer(stack')
  PROVE  XferInv'
<1> SUFFICES ASSUME stack' # <<>> PROVE NoXfer(Below')
  BY DEF XferInv
<1>1. \A i \in DOMAIN Below' : i \in DOMAIN stack' /\ Below'[i] = stack'[i]
  BY SplitStack DEF Below
<1> QED BY <1>1 DEF NoXfer

\* Outside of libcurl's notifications the stack has none.
LEMMA XferElsewhere ==
  ASSUME Inv, XferInv, At # "xfer"
  PROVE  NoXfer(stack) /\ ~InLibcurl
<1>1. stack \in Seq(Frames)
  BY DEF Inv, StackOK
<1>2. CASE stack = <<>>
  BY <1>2 DEF NoXfer, InLibcurl, Active
<1>3. CASE stack # <<>>
  <2>1. /\ Below \in Seq(Frames) /\ Top \in Frames /\ stack = Append(Below, Top)
        /\ NoXfer(Below) /\ Top.kind # "xfer"
    BY <1>1, <1>3, SplitStack DEF XferInv, Below, Top, At
  <2>2. NoXfer(stack)
    BY <2>1, XferPush
  <2> QED BY <2>2 DEF NoXfer, InLibcurl, Active
<1> QED BY <1>2, <1>3

\* Entering a callback outside of libcurl's notifications.
LEMMA XferCall ==
  ASSUME NEW base \in Seq(Frames), NEW f \in Frames, NEW d, NEW exc, NoXfer(base),
         Call(f, base, d, exc)
  PROVE  XferInv'
<1>1. CASE exc
  <2>1. stack' = base
    BY <1>1 DEF Call
  <2> QED BY <2>1, XferPop
<1>2. CASE ~exc
  <2>1. stack' = Append(base, f)
    BY <1>2 DEF Call
  <2> QED BY <2>1, XferPush DEF XferInv, Below
<1> QED BY <1>1, <1>2

\* The tail of enqueue.
LEMMA XferTail ==
  ASSUME NEW r, NEW c, NEW base \in Seq(Frames), NEW d, NEW exc, NoXfer(base),
         EnqueueTail(r, c, base, d, exc)
  PROVE  XferInv'
<1>1. CASE EnqueueFails(r, base, d, exc) \/ EnqueueAddFails(r, base, d)
  <2>1. stack' = base
    BY <1>1 DEF EnqueueFails, EnqueueAddFails
  <2> QED BY <2>1, XferPop
<1>2. ASSUME NEW h \in Handler, EnqueueAdds(r, c, h, base, d, exc) PROVE XferInv'
  <2> DEFINE f == Frame("start", h, NoRequest, NoClosure)
  <2>1. Call(f, base, d, exc)
    BY <1>2 DEF EnqueueAdds
  <2>2. f \in Frames
    BY DEF Frame, Frames, Kinds, CallbackKinds
  <2> HIDE DEF f
  <2> QED BY <2>1, <2>2, XferCall
<1> QED BY <1>1, <1>2 DEF EnqueueTail

\* Every step keeps libcurl's notifications at the top.
LEMMA XferStep ==
  ASSUME Unrefused, Inv, XferInv, [Next]_vars
  PROVE  XferInv'
<1> DEFINE Cs == Closure \cup {NoClosure}
<1>0. /\ stack \in Seq(Frames) /\ StackOK(stack, depth) /\ QueueOK
  BY DEF Inv, StackOK
<1>below. ASSUME stack # <<>> PROVE Below \in Seq(Frames) /\ Top \in Frames /\ NoXfer(Below)
  BY <1>0, <1>below, SplitStack DEF Below, Top, XferInv
<1>push. ASSUME NEW s \in Seq(Frames), NEW f \in Frames, NoXfer(s), stack' = Append(s, f)
         PROVE  XferInv'
  BY <1>push, XferPush DEF XferInv, Below
<1>same. ASSUME stack' = stack PROVE XferInv'
  BY <1>same DEF XferInv, Below
<1>perf. Perform \in Frames
  BY DEF Perform, Frame, Frames, Kinds
<1>1. ASSUME NEW r \in Request, NEW c \in Cs, Enqueue(r, c) PROVE XferInv'
  <2> DEFINE f == Frame("prepare", NoHandler, r, c)
  <2>1. At # "xfer" /\ Call(f, stack, depth, exception)
    BY <1>1 DEF Enqueue, UserCode, Unrefused
  <2>2. f \in Frames
    BY DEF Frame, Frames, Kinds, CallbackKinds
  <2> HIDE DEF f
  <2> QED BY <1>0, <2>1, <2>2, XferElsewhere, XferCall
<1>2. ASSUME NEW r \in Request, NEW c \in Cs, RequeueNew(r, c) PROVE XferInv'
  <2>1. At # "xfer" /\ EnqueueTail(r, c, stack, depth, exception)
    BY <1>2 DEF RequeueNew, UserCode, Unrefused
  <2> QED BY <1>0, <2>1, XferElsewhere, XferTail
<1>3. ASSUME NEW r \in Request, NEW c \in Cs, Requeue(r, c) PROVE XferInv'
  <2> DEFINE h == EntryOf(r)
             f == Frame("restart", h, NoRequest, c)
  <2>1. h \in Handler
    BY <1>0, <1>3 DEF Requeue, Enqueued, EntryOf, QueueOK
  <2>2. Call(f, stack, depth, exception) /\ At # "xfer"
    BY <1>3 DEF Requeue, UserCode, Unrefused
  <2> HIDE DEF h
  <2>3. f \in Frames
    BY <2>1 DEF Frame, Frames, Kinds, CallbackKinds
  <2> HIDE DEF f
  <2> QED BY <1>0, <2>2, <2>3, XferElsewhere, XferCall
<1>4. ASSUME NEW r \in Request, RequeueAddFails(r) \/ Dequeue(r) \/ Refused(r) PROVE XferInv'
  BY <1>4, <1>same DEF RequeueAddFails, Dequeue, Refused
<1>5. CASE Reset \/ GetResponse \/ Catch
  BY <1>5, <1>same DEF Reset, GetResponse, Catch
<1>6. CASE Once
  <2>1. stack = <<>> /\ stack' = Append(stack, Perform)
    BY <1>0, <1>6, ShallowScript DEF Once
  <2>2. NoXfer(stack)
    BY <2>1 DEF NoXfer
  <2> QED BY <1>0, <1>push, <1>perf, <2>1, <2>2
<1>7. CASE Exec
  <2> DEFINE f == Frame("exec", NoHandler, NoRequest, NoClosure)
  <2>1. stack = <<>> /\ stack' = Append(Append(stack, f), Perform)
    BY <1>0, <1>7, ShallowScript DEF Exec
  <2>2. f \in Frames /\ f.kind # "xfer"
    BY DEF Frame, Frames, Kinds
  <2>3. NoXfer(stack)
    BY <2>1 DEF NoXfer
  <2> HIDE DEF f
  <2>4. Append(stack, f) \in Seq(Frames) /\ NoXfer(Append(stack, f))
    BY <1>0, <2>2, <2>3, XferPush
  <2> QED BY <1>push, <1>perf, <2>1, <2>4
<1>8. CASE Script
  BY <1>1, <1>2, <1>3, <1>4, <1>5, <1>6, <1>7, <1>8 DEF Script
<1>9. ASSUME NEW throw \in BOOLEAN, PrepareReturn(throw) PROVE XferInv'
  <2>1. stack # <<>> /\ EnqueueTail(Top.r, Top.c, Below, depth - 1, throw)
    BY <1>9, TopKind DEF PrepareReturn
  <2> QED BY <1>below, <2>1, XferTail
<1>10. ASSUME NEW throw \in BOOLEAN,
              \/ StartReturn(throw) \/ RestartReturn(throw)
              \/ XferReturn(throw) \/ FinishedReturn(throw)
       PROVE  XferInv'
  <2>1. stack # <<>> /\ stack' = Below
    BY <1>10, TopKind DEF StartReturn, RestartReturn, XferReturn, FinishedReturn
  <2> QED BY <1>below, <2>1, XferPop
<1>11. ASSUME NEW retval \in BOOLEAN, NEW throw \in BOOLEAN, ClosureReturn(retval, throw)
       PROVE  XferInv'
  <2> DEFINE f == [Frame("finished", Top.h, NoRequest, NoClosure) EXCEPT !.dequeue = retval]
  <2>1. stack # <<>> /\ (Call(f, Below, depth - 1, throw) \/ stack' = Below)
    BY <1>11, TopKind DEF ClosureReturn
  <2>2. f \in Frames
    <3>1. Top.h \in Handler \cup {NoHandler}
      BY <1>below, <2>1 DEF Frames
    <3> QED BY <3>1 DEF Frame, Frames, Kinds, CallbackKinds
  <2> HIDE DEF f
  <2> QED BY <1>below, <2>1, <2>2, XferCall, XferPop
<1>12. CASE Return
  BY <1>9, <1>10, <1>11, <1>12 DEF Return
<1>13. ASSUME NEW h \in Handler, Xfer(h) PROVE XferInv'
  <2> DEFINE f == Frame("xfer", h, NoRequest, NoClosure)
  <2>1. At # "xfer" /\ Call(f, stack, depth, exception)
    BY <1>13 DEF Xfer
  <2>2. f \in Frames
    BY DEF Frame, Frames, Kinds, CallbackKinds
  <2> HIDE DEF f
  <2> QED BY <1>0, <2>1, <2>2, XferElsewhere, XferCall
<1>14. ASSUME NEW h \in Handler, ReadResponse(h) PROVE XferInv'
  <2>1. stack # <<>> /\ Top.kind = "responsehandler" /\ h \in Pending
    BY <1>14, TopKind DEF ReadResponse
  <2>2. ReadFrame(h) \in Frames /\ ReadFrame(h).kind # "xfer"
    BY <1>0, <2>1, Pop, ReadFrameOK
  <2> DEFINE base == Append(Below, ReadFrame(h))
             f == IF called[h] = NoClosure
                  THEN Frame("finished", h, NoRequest, NoClosure)
                  ELSE Frame("closure", h, NoRequest, called[h])
  <2>3. base \in Seq(Frames) /\ NoXfer(base)
    BY <1>below, <2>1, <2>2, XferPush
  <2>4. f \in Frames
    <3>1. called[h] \in Closure \cup {NoClosure}
      BY <1>0 DEF QueueOK
    <3> QED BY <3>1 DEF Frame, Frames, Kinds, CallbackKinds
  <2>5. Call(f, base, depth, exception)
    BY <1>14 DEF ReadResponse
  <2> HIDE DEF base, f
  <2> QED BY <2>3, <2>4, <2>5, XferCall
<1>15. ASSUME NEW h \in Handler, NEW result \in {"done", "error"}, TransferDone(h, result)
       PROVE  XferInv'
  BY <1>15, <1>same DEF TransferDone
<1>16. CASE PerformEnd
  <2> DEFINE f == Frame("responsehandler", NoHandler, NoRequest, NoClosure)
  <2>1. stack # <<>> /\ stack' = Append(Below, f)
    BY <1>16, TopKind DEF PerformEnd
  <2>2. f \in Frames
    BY DEF Frame, Frames, Kinds
  <2> HIDE DEF f
  <2> QED BY <1>below, <1>push, <2>1, <2>2
<1>17. CASE ResponsesRead \/ ExecReturn \/ ExecWaitFails
  <2>1. stack # <<>> /\ stack' = Below
    BY <1>17, TopKind DEF ResponsesRead, ExecReturn, ExecWaitFails
  <2> QED BY <1>below, <2>1, XferPop
<1>18. CASE ExecAgain
  <2>1. At # "xfer" /\ stack' = Append(stack, Perform)
    BY <1>18 DEF ExecAgain
  <2> QED BY <1>0, <1>push, <1>perf, <2>1, XferElsewhere
<1>19. CASE Driver
  BY <1>13, <1>14, <1>15, <1>16, <1>17, <1>18, <1>19 DEF Driver
<1>20. CASE UNCHANGED vars
  BY <1>20, <1>same DEF vars
<1> QED BY <1>8, <1>12, <1>19, <1>20 DEF Next

\* Without refusals by libcurl the queue holds exactly one reference on each
\* queued request object and none on others, on every path.
THEOREM ReferencesBalanced ==
  ASSUME Unrefused
  PROVE  Spec => []RefsBalanced
<1>1. Init => XferInv /\ RefsBalanced
  BY DEF Init, XferInv, RefsBalanced, Enqueued
<1>2. Inv /\ XferInv /\ [Next]_vars => XferInv'
  BY XferStep
<1>3. Inv /\ Inv' /\ XferInv /\ RefsBalanced /\ [Next]_vars => RefsBalanced'
  <2> SUFFICES ASSUME Inv, Inv', XferInv, RefsBalanced, [Next]_vars, NEW r \in Request
               PROVE  refs'[r] = Held(r)'
    BY DEF RefsBalanced, Held
  <2>1. ASSUME NEW q \in Request, Leaks(q) PROVE FALSE
    <3>1. At # "xfer"
      BY <2>1 DEF Leaks, UserCode, Unrefused
    <3> QED BY <2>1, <3>1, XferElsewhere DEF Leaks, Unrefused
  <2>2. refs'[r] - Held(r)' = refs[r] - Held(r)
    BY <2>1, SurplusStep DEF SurplusKept
  <2>3. refs[r] \in Int /\ refs'[r] \in Int /\ Held(r) \in Int /\ Held(r)' \in Int
    BY DEF Inv, QueueOK, Held
  <2>4. refs[r] = Held(r)
    BY DEF RefsBalanced, Held
  <2> QED BY <2>2, <2>3, <2>4
<1> QED BY <1>1, <1>2, <1>3, Invariance, PTL DEF Spec
=============================================================================
