------------------------------- MODULE Client -------------------------------
(***************************************************************************)
(* The request queue of http\Client and its libcurl driver.                *)
(*                                                                         *)
(* PHP runs one thread, so what makes this code hard is re-entrance: the   *)
(* driver calls user code (progress observers, response callbacks) in the  *)
(* middle of its own functions, and that user code calls the client again. *)
(* `stack' holds the C functions and user callbacks that are active;       *)
(* everything between two entries into user code is one step.              *)
(*                                                                         *)
(* A handler is the php_http_client_curl_handler_t of one queue entry; the *)
(* entry owns it, so it is alive exactly while it is in `requests'.        *)
(* libcurl's multi handle is external and modelled by what the driver sees *)
(* of it: `multi' and the rule that it refuses re-entrance.                *)
(***************************************************************************)
EXTENDS Integers, Sequences, FiniteSets

CONSTANTS
  Request,      \* http\Client\Request objects
  Handler,      \* addresses of curl handlers; freed ones may be reused
  Closure,      \* callables passed to enqueue() and requeue()
  NoRequest, NoHandler, NoClosure,
  MaxCalls,     \* bound: enqueue() and requeue() calls of a behaviour
  MaxDepth,     \* bound: nesting of user callbacks that call enqueue/requeue
  CallbackOps,  \* methods that observers and response callbacks call
  XferOps,      \* methods that observers call when notified inside libcurl
  AddMayFail    \* curl_multi_add_handle() may fail (CURLM_OUT_OF_MEMORY)

Ops == {"enqueue", "requeue", "dequeue", "reset", "once", "getResponse"}

ASSUME ClientAssumption ==
  /\ NoRequest \notin Request
  /\ NoHandler \notin Handler
  /\ NoClosure \notin Closure
  /\ IsFiniteSet(Handler)
  /\ MaxCalls \in Nat
  /\ MaxDepth \in Nat
  /\ CallbackOps \subseteq Ops
  /\ XferOps \subseteq Ops
  /\ AddMayFail \in BOOLEAN

VARIABLES
  requests,    \* client->requests: the handlers of the queued entries
  request,     \* request[h]:  handler->queue.request
  closure,     \* closure[h]:  closure of the list element, which owns it
  called,      \* called[h]:   handler->queue.closure, copied at enqueue
  multi,       \* multi[h]:    where libcurl has the easy handle
  unfinished,  \* curl->unfinished
  responses,   \* client->responses, as the requests they answer
  refs,        \* refs[r]:     references the queue holds on object r
  stack,       \* active C functions and user callbacks, the innermost last
  depth,       \* client->callback.depth
  exception,   \* EG(exception) is set
  calls        \* enqueue() and requeue() calls made

vars == <<requests, request, closure, called, multi, unfinished, responses,
          refs, stack, depth, exception, calls>>

queue == <<requests, request, closure, called>>
-----------------------------------------------------------------------------
(* Frames.  User code is running when the stack is empty (the script) or a *)
(* callback frame is on top.                                               *)

CallbackKinds == {"prepare", "start", "restart", "xfer", "closure", "finished"}
Kinds == CallbackKinds \cup {"exec", "perform", "responsehandler"}

\* A frame keeps the C locals that survive a call into user code: the handler
\* whose memory is used afterwards, the arguments, the messages `remaining' (one
\* before the first read, which is unconditional), the capacity and the fill of
\* the array of deferred errors, and the dequeue flag.
Frames ==
  [kind : Kinds, h : Handler \cup {NoHandler}, r : Request \cup {NoRequest},
   c : Closure \cup {NoClosure}, remaining : Nat, cap : Nat, err_count : Nat,
   dequeue : BOOLEAN]

Frame(kind, h, r, c) ==
  [kind |-> kind, h |-> h, r |-> r, c |-> c, remaining |-> 1, cap |-> 0,
   err_count |-> 0, dequeue |-> FALSE]

Top == stack[Len(stack)]
Below == SubSeq(stack, 1, Len(stack) - 1)
At == IF stack = <<>> THEN "script" ELSE Top.kind
Active(kind) == \E i \in DOMAIN stack : stack[i].kind = kind

\* multi->in_callback: libcurl is inside a progress or debug callback.
InLibcurl == Active("xfer")

\* User code is running and may call method op.
UserCode(op) ==
  /\ ~exception
  /\ \/ At = "script"
     \/ At = "xfer" /\ op \in XferOps
     \/ At \in CallbackKinds \ {"xfer"} /\ op \in CallbackOps

\* A notification or a response callback: the depth is counted around the call,
\* and the engine calls nothing while an exception is pending.
Call(f, base, d, exc) ==
  /\ stack' = IF exc THEN base ELSE Append(base, f)
  /\ depth' = IF exc THEN d ELSE d + 1
-----------------------------------------------------------------------------
Running == {h \in Handler : multi[h] = "running"}
Pending == {h \in Handler : multi[h] \in {"done", "error"}}

Enqueued(r) == \E h \in requests : request[h] = r
EntryOf(r) == CHOOSE h \in requests : request[h] = r

\* References to object r that the entries hs own and their destructors release.
NothingReleased(hs, r) == 0
Released(hs, r) == Cardinality({h \in hs \cap requests : request[h] = r})

\* Destroying entries: queue_dtor and msg_queue_dtor drop the reference to the
\* request object, the list element's closure and the handler with its handle.
Destroy(hs) ==
  /\ requests' = requests \ hs
  /\ request' = [h \in Handler |-> IF h \in hs THEN NoRequest ELSE request[h]]
  /\ closure' = [h \in Handler |-> IF h \in hs THEN NoClosure ELSE closure[h]]
  /\ called' = [h \in Handler |-> IF h \in hs THEN NoClosure ELSE called[h]]
  /\ multi' = [h \in Handler |-> IF h \in hs THEN "out" ELSE multi[h]]
  /\ refs' = [r \in Request |-> refs[r] - Released(hs, r)]
-----------------------------------------------------------------------------
(* HttpClient::enqueue, up to the "prepare" notification.                  *)
Enqueue(r, c) ==
  /\ UserCode("enqueue")
  /\ calls < MaxCalls
  /\ depth < MaxDepth
  /\ ~Enqueued(r)
  /\ calls' = calls + 1
  /\ Call(Frame("prepare", NoHandler, r, c), stack, depth, exception)
  /\ UNCHANGED <<queue, multi, unfinished, responses, refs, exception>>

\* The second check, in php_http_client_enqueue, when observers have run.
NoSecondCheck(r) == TRUE
SecondCheck(r) == ~Enqueued(r)

\* ++curl->unfinished, in enqueue and in requeue.
TransferNotCounted == UNCHANGED unfinished
TransferCounted == unfinished' = unfinished + 1

\* Z_ADDREF_P(request), and msg_queue_dtor() where enqueueing fails.
Taken(n, r) == [n EXCEPT ![r] = @ + 1]
GivenBack(n, r) == [n EXCEPT ![r] = @ - 1]

\* php_http_client_enqueue finds the request queued by now, or the handler could
\* not be made or prepared: the reference that was taken is given back.  Most of
\* the failures raise a warning, which php_http_expect turns into an exception.
EnqueueFails(r, base, d, exc) ==
  /\ refs' = GivenBack(Taken(refs, r), r)
  /\ stack' = base
  /\ depth' = d
  /\ exception' \in {exc, TRUE}
  /\ UNCHANGED <<queue, multi, unfinished, responses>>

\* curl_multi_add_handle fails after enqueue->opaque was pointed at the handler:
\* msg_queue_dtor then releases that, and not the request object.
EnqueueAddFails(r, base, d) ==
  /\ SecondCheck(r)
  /\ InLibcurl \/ AddMayFail
  /\ refs' = Taken(refs, r)
  /\ stack' = base
  /\ depth' = d
  /\ exception' = TRUE
  /\ UNCHANGED <<queue, multi, unfinished, responses>>

EnqueueAdds(r, c, h, base, d, exc) ==
  /\ SecondCheck(r)
  /\ ~InLibcurl
  /\ h \in Handler \ requests
  /\ requests' = requests \cup {h}
  /\ request' = [request EXCEPT ![h] = r]
  /\ closure' = [closure EXCEPT ![h] = c]
  /\ called' = [called EXCEPT ![h] = c]
  /\ multi' = [multi EXCEPT ![h] = "running"]
  /\ TransferCounted
  /\ refs' = Taken(refs, r)
  /\ Call(Frame("start", h, NoRequest, NoClosure), base, d, exc)
  /\ exception' = exc
  /\ UNCHANGED responses

\* php_http_client_enqueue and php_http_client_curl_enqueue.
EnqueueTail(r, c, base, d, exc) ==
  \/ EnqueueFails(r, base, d, exc)
  \/ EnqueueAddFails(r, base, d)
  \/ \E h \in Handler : EnqueueAdds(r, c, h, base, d, exc)

\* The rest of HttpClient::enqueue, when the "prepare" notification is over; it
\* does not look at EG(exception).
PrepareReturn(throw) ==
  /\ At = "prepare"
  /\ exception => throw
  /\ EnqueueTail(Top.r, Top.c, Below, depth - 1, throw)
  /\ UNCHANGED calls

\* After the "start" notification only handler->progress.started is set.
StartReturn(throw) ==
  /\ At = "start"
  /\ exception => throw
  /\ exception' = throw
  /\ stack' = Below
  /\ depth' = depth - 1
  /\ UNCHANGED <<queue, multi, unfinished, responses, refs, calls>>
-----------------------------------------------------------------------------
(* HttpClient::requeue.                                                    *)

\* The request is not queued: as enqueue(), without the "prepare" notification.
RequeueNew(r, c) ==
  /\ UserCode("requeue")
  /\ calls < MaxCalls
  /\ depth < MaxDepth
  /\ ~Enqueued(r)
  /\ calls' = calls + 1
  /\ EnqueueTail(r, c, stack, depth, exception)

\* The request is queued: the handler is reset and prepared again, and its easy
\* handle leaves the multi handle, with any completion message, and enters it.
Requeue(r, c) ==
  /\ UserCode("requeue")
  /\ calls < MaxCalls
  /\ depth < MaxDepth
  /\ Enqueued(r)
  /\ ~InLibcurl
  /\ calls' = calls + 1
  /\ LET h == EntryOf(r)
     IN  /\ multi' = [multi EXCEPT ![h] = "running"]
         /\ Call(Frame("restart", h, NoRequest, c), stack, depth, exception)
  /\ TransferCounted
  /\ UNCHANGED <<queue, responses, refs, exception>>

\* The easy handle left the multi handle and cannot enter it again: the entry is
\* deleted from the list and so destroyed.
RequeueAddFails(r) ==
  /\ UserCode("requeue")
  /\ calls < MaxCalls
  /\ Enqueued(r)
  /\ ~InLibcurl
  /\ AddMayFail
  /\ calls' = calls + 1
  /\ Destroy({EntryOf(r)})
  /\ exception' = TRUE
  /\ UNCHANGED <<unfinished, responses, stack, depth>>

\* The rest of HttpClient::requeue: a new callable replaces the one of the list
\* element; handler->queue keeps its copy of the old one.
RestartReturn(throw) ==
  /\ At = "restart"
  /\ exception => throw
  /\ exception' = throw
  /\ closure' = IF Top.c = NoClosure THEN closure
                ELSE [closure EXCEPT ![Top.h] = Top.c]
  /\ stack' = Below
  /\ depth' = depth - 1
  /\ UNCHANGED <<requests, request, called, multi, unfinished, responses,
                 refs, calls>>
-----------------------------------------------------------------------------
(* php_http_client_curl_dequeue refuses while callbacks are executing.     *)
DequeueAlwaysAllowed(d) == TRUE
DequeueAllowed(d) == d = 0

\* HttpClient::dequeue; curl->unfinished is left as it is.
Dequeue(r) ==
  /\ UserCode("dequeue")
  /\ Enqueued(r)
  /\ DequeueAllowed(depth)
  /\ Destroy({EntryOf(r)})
  /\ UNCHANGED <<unfinished, responses, stack, depth, exception, calls>>

\* A method throws and changes nothing: the request is queued already, or is not
\* queued, or may not be dequeued now; a queued request cannot be prepared again,
\* or libcurl refuses to remove its handle inside a callback.
Refused(r) ==
  /\ \/ UserCode("enqueue") /\ Enqueued(r)
     \/ UserCode("dequeue") /\ (Enqueued(r) => ~DequeueAllowed(depth))
     \/ UserCode("requeue") /\ Enqueued(r)
  /\ exception' = TRUE
  /\ UNCHANGED <<queue, multi, unfinished, responses, refs, stack, depth, calls>>

\* HttpClient::reset: what the driver did not dequeue, the cleaning of the list
\* destroys, at any depth.
Reset ==
  /\ UserCode("reset")
  /\ Destroy(requests)
  /\ responses' = <<>>
  /\ UNCHANGED <<unfinished, stack, depth, exception, calls>>

\* HttpClient::getResponse without a request pops the last response.
GetResponse ==
  /\ UserCode("getResponse")
  /\ responses # <<>>
  /\ responses' = SubSeq(responses, 1, Len(responses) - 1)
  /\ UNCHANGED <<queue, multi, unfinished, refs, stack, depth, exception, calls>>
-----------------------------------------------------------------------------
(* HttpClient::once and HttpClient::send do nothing inside a callback.     *)
Perform == Frame("perform", NoHandler, NoRequest, NoClosure)

Once ==
  /\ UserCode("once")
  /\ depth = 0
  /\ stack' = Append(stack, Perform)
  /\ UNCHANGED <<queue, multi, unfinished, responses, refs, depth, exception, calls>>

Exec ==
  /\ UserCode("once")
  /\ depth = 0
  /\ stack' = Append(Append(stack, Frame("exec", NoHandler, NoRequest, NoClosure)),
                     Perform)
  /\ UNCHANGED <<queue, multi, unfinished, responses, refs, depth, exception, calls>>

\* curl_multi_perform: a transfer reports progress or debug data ...
Xfer(h) ==
  /\ At = "perform"
  /\ ~exception
  /\ h \in Running
  /\ Call(Frame("xfer", h, NoRequest, NoClosure), stack, depth, exception)
  /\ UNCHANGED <<queue, multi, unfinished, responses, refs, exception, calls>>

XferReturn(throw) ==
  /\ At = "xfer"
  /\ exception => throw
  /\ exception' = throw
  /\ stack' = Below
  /\ depth' = depth - 1
  /\ UNCHANGED <<queue, multi, unfinished, responses, refs, calls>>

\* ... or ends, which leaves a message to be read ...
TransferDone(h, result) ==
  /\ At = "perform"
  /\ h \in Running
  /\ multi' = [multi EXCEPT ![h] = result]
  /\ UNCHANGED <<queue, unfinished, responses, refs, stack, depth, exception, calls>>

PerformEndUncounted ==
  /\ At = "perform"
  /\ stack' = Append(Below, Frame("responsehandler", NoHandler, NoRequest, NoClosure))
  /\ UNCHANGED <<queue, multi, unfinished, responses, refs, depth, exception, calls>>

\* ... and at last curl_multi_perform returns the number of running transfers.
PerformEnd ==
  /\ At = "perform"
  /\ unfinished' = Cardinality(Running)
  /\ stack' = Append(Below, Frame("responsehandler", NoHandler, NoRequest, NoClosure))
  /\ UNCHANGED <<queue, multi, responses, refs, depth, exception, calls>>
-----------------------------------------------------------------------------
(* php_http_client_curl_responsehandler.                                   *)

ReadFrameShort(h) ==
  LET left == Cardinality(Pending) - 1
      fails == multi[h] = "error"
  IN  [Top EXCEPT !.remaining = left,
                  !.cap = IF fails /\ @ = 0 THEN left ELSE @,
                  !.err_count = IF fails THEN @ + 1 ELSE @]

\* curl_multi_info_read takes message h off the queue.  A failed transfer is
\* noted for a warning, in an array made for the first failure and the messages
\* then remaining.
ReadFrame(h) ==
  LET left == Cardinality(Pending) - 1
      fails == multi[h] = "error"
  IN  [Top EXCEPT !.remaining = left,
                  !.cap = IF fails /\ @ = 0 THEN left + 1 ELSE @,
                  !.err_count = IF fails THEN @ + 1 ELSE @]

\* One round of the loop, and handle_response up to its first callback.
ReadResponse(h) ==
  /\ At = "responsehandler"
  /\ Top.remaining # 0
  /\ h \in Pending
  /\ multi' = [multi EXCEPT ![h] = "idle"]
  /\ responses' = Append(responses, request[h])
  /\ LET base == Append(Below, ReadFrame(h))
         f == IF called[h] = NoClosure
              THEN Frame("finished", h, NoRequest, NoClosure)
              ELSE Frame("closure", h, NoRequest, called[h])
     IN  Call(f, base, depth, exception)
  /\ UNCHANGED <<queue, unfinished, refs, exception, calls>>

\* The response callback returns; TRUE asks for the request to be dequeued.  The
\* "finished" notification follows if the request is still queued.
ClosureReturn(retval, throw) ==
  /\ At = "closure"
  /\ exception => throw
  /\ throw => ~retval
  /\ exception' = throw
  /\ IF Enqueued(request[Top.h])
     THEN Call([Frame("finished", Top.h, NoRequest, NoClosure)
                  EXCEPT !.dequeue = retval], Below, depth - 1, throw)
     ELSE stack' = Below /\ depth' = depth - 1
  /\ UNCHANGED <<queue, multi, unfinished, responses, refs, calls>>

\* The rest of handle_response: the dequeueing the callback asked for.
FinishedReturn(throw) ==
  /\ At = "finished"
  /\ exception => throw
  /\ exception' = throw
  /\ stack' = Below
  /\ depth' = depth - 1
  /\ IF Top.dequeue /\ Top.h \in requests /\ DequeueAllowed(depth - 1)
     THEN Destroy({Top.h})
     ELSE UNCHANGED <<queue, multi, refs>>
  /\ UNCHANGED <<unfinished, responses, calls>>

\* The loop ends when none remained, or curl_multi_info_read finds none.  The
\* deferred warnings are exceptions in send(), which php_http_expect wraps.
ResponsesRead ==
  /\ At = "responsehandler"
  /\ Top.remaining = 0 \/ Pending = {}
  /\ stack' = Below
  /\ exception' = (exception \/ (Top.err_count # 0 /\ Active("exec")))
  /\ UNCHANGED <<queue, multi, unfinished, responses, refs, depth, calls>>
-----------------------------------------------------------------------------
(* php_http_client_curl_exec.                                              *)
ExecAgain ==
  /\ At = "exec"
  /\ unfinished # 0
  /\ ~exception
  /\ stack' = Append(stack, Perform)
  /\ UNCHANGED <<queue, multi, unfinished, responses, refs, depth, exception, calls>>

ExecReturn ==
  /\ At = "exec"
  /\ unfinished = 0 \/ exception
  /\ stack' = Below
  /\ UNCHANGED <<queue, multi, unfinished, responses, refs, depth, exception, calls>>

\* select() fails: send() gives up with an error.
ExecWaitFails ==
  /\ At = "exec"
  /\ unfinished # 0
  /\ ~exception
  /\ stack' = Below
  /\ exception' = TRUE
  /\ UNCHANGED <<queue, multi, unfinished, responses, refs, depth, calls>>

\* User code catches the exception a callback or a call has left.
Catch ==
  /\ exception
  /\ At \in CallbackKinds \cup {"script"}
  /\ exception' = FALSE
  /\ UNCHANGED <<queue, multi, unfinished, responses, refs, stack, depth, calls>>
-----------------------------------------------------------------------------
Init ==
  /\ requests = {}
  /\ request = [h \in Handler |-> NoRequest]
  /\ closure = [h \in Handler |-> NoClosure]
  /\ called = [h \in Handler |-> NoClosure]
  /\ multi = [h \in Handler |-> "out"]
  /\ unfinished = 0
  /\ responses = <<>>
  /\ refs = [r \in Request |-> 0]
  /\ stack = <<>>
  /\ depth = 0
  /\ exception = FALSE
  /\ calls = 0

\* What user code does: it calls methods and catches exceptions.
Script ==
  \/ \E r \in Request, c \in Closure \cup {NoClosure} :
       Enqueue(r, c) \/ RequeueNew(r, c) \/ Requeue(r, c)
  \/ \E r \in Request : RequeueAddFails(r) \/ Dequeue(r) \/ Refused(r)
  \/ Reset
  \/ GetResponse
  \/ Once
  \/ Exec
  \/ Catch

\* User callbacks return or throw; the code that called them goes on.
Return ==
  \/ \E throw \in BOOLEAN :
       PrepareReturn(throw) \/ StartReturn(throw) \/ RestartReturn(throw)
         \/ XferReturn(throw) \/ FinishedReturn(throw)
  \/ \E retval, throw \in BOOLEAN : ClosureReturn(retval, throw)

\* The driver and libcurl.
Driver ==
  \/ \E h \in Handler : Xfer(h) \/ ReadResponse(h)
  \/ \E h \in Handler, result \in {"done", "error"} : TransferDone(h, result)
  \/ PerformEnd
  \/ ResponsesRead
  \/ ExecAgain
  \/ ExecReturn
  \/ ExecWaitFails

Next == Script \/ Return \/ Driver

Spec == Init /\ [][Next]_vars

\* Callbacks return, the driver's loops go on, libcurl makes finitely many
\* callbacks per call of curl_multi_perform, and every transfer ends (the peer
\* answers or the transfer's timeout strikes).
Fairness ==
  /\ WF_vars(Return)
  /\ WF_vars(ResponsesRead \/ (\E h \in Handler : ReadResponse(h)))
  /\ WF_vars(ExecAgain \/ ExecReturn)
  /\ SF_vars(PerformEnd)
  /\ \A h \in Handler : SF_vars(\E result \in {"done", "error"} : TransferDone(h, result))

FairSpec == Spec /\ Fairness
-----------------------------------------------------------------------------
TypeOK ==
  /\ requests \in SUBSET Handler
  /\ request \in [Handler -> Request \cup {NoRequest}]
  /\ closure \in [Handler -> Closure \cup {NoClosure}]
  /\ called \in [Handler -> Closure \cup {NoClosure}]
  /\ multi \in [Handler -> {"out", "running", "done", "error", "idle"}]
  /\ unfinished \in Nat
  /\ responses \in Seq(Request)
  /\ refs \in [Request -> Int]
  /\ stack \in Seq(Frames)
  /\ depth \in Nat
  /\ exception \in BOOLEAN
  /\ calls \in 0 .. MaxCalls

\* A request is queued at most once ("unique", php_http_client.h), although the
\* "prepare" observer runs between the check in HttpClient::enqueue and the
\* insertion, and may enqueue the same request itself.
UniqueRequests ==
  \A g, h \in requests : request[g] = request[h] => g = h

\* A handler whose memory an active C function uses after its callback returns
\* is still alive: what the callback calls has not destroyed it.
FrameHandlersLive ==
  \A i \in DOMAIN stack : stack[i].h # NoHandler => stack[i].h \in requests

\* curl->unfinished, which dequeue and reset leave stale and requeue may count
\* twice, never falls below the number of running transfers: send() would
\* return with transfers left otherwise.
UnfinishedCoversRunning == Cardinality(Running) <= unfinished

\* The array of deferred errors, sized when the first failure is read, holds
\* all failures of one run of the response handler, whatever callbacks do to
\* the queue between two reads.
ErrorsFit == \A i \in DOMAIN stack : stack[i].err_count <= stack[i].cap

\* The queue holds one reference on each queued request object and none on
\* others, on every path through enqueue, requeue, dequeue and reset but that
\* of a failing curl_multi_add_handle.
RefsBalanced ==
  \A r \in Request : refs[r] = IF Enqueued(r) THEN 1 ELSE 0

\* While user callbacks execute nothing is dequeued ("Could not dequeue request
\* while executing callbacks", php_http_client_curl_dequeue).
NoDequeueInCallback == [][depth # 0 /\ depth' # 0 => requests \subseteq requests']_vars

\* send() that returns without error or exception leaves no transfer running,
\* those that callbacks started on the way included.
SendDrains == [][ExecReturn /\ ~exception => Running = {}]_vars

\* The response callback called for a request is the one enqueue() or the last
\* requeue() gave ("Fix http\Client::requeue() not updating response callback",
\* CHANGELOG.md).
LatestCallbackCalled ==
  [][\A h \in Handler : ReadResponse(h) => called[h] = closure[h]]_vars

\* send() returns.
SendReturns == Active("exec") ~> ~Active("exec")
=============================================================================
