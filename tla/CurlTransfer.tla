---------------------------- MODULE CurlTransfer ----------------------------
(***************************************************************************)
(* One request on its way through the curl driver: the options of client   *)
(* and request, the handle that is prepared from them and used again by    *)
(* requeue(), what libcurl reads and writes through the callbacks, and the *)
(* responses that are made of it.  Which callbacks may call what is the    *)
(* business of Client; here the calls follow each other.                   *)
(***************************************************************************)
EXTENDS TransferOptions

CONSTANTS
  ClientOptions,   \* arguments of http\Client::setOptions()
  OptionSets,      \* arguments of http\Client\Request::setOptions()
  SslCalls,        \* arguments of setSslOptions() (TRUE) and addSslOptions() (FALSE)
  CookieCalls,     \* arguments of http\Client::setCookies() and addCookies()
  Requests,        \* contents the user may give to the request
  Interim,         \* header blocks that another one follows: redirects, 100 Continue
  Final,           \* header blocks of responses
  Persistent,      \* the client uses persistent handles
  MaxCalls,        \* bound on the calls of the user
  MaxBlocks,       \* bound on the header blocks of a transfer
  MaxData          \* bound on the pieces of data of a transfer

ASSUME CurlTransferAssumption ==
  /\ \A r \in Requests : r.size \in Nat
  /\ Persistent \in BOOLEAN /\ MaxCalls \in Nat /\ MaxBlocks \in Nat /\ MaxData \in Nat

VARIABLES
  copts,      \* http\Client::$options
  ropts,      \* http\Client\Request::$options
  request,    \* the request message, its body's stream position included
  q,          \* None, or the queue entry with its handler
  response,   \* handler->response, and the error code in the handle's storage
  pool,       \* what idle persistent handles have set
  bodies,     \* message bodies: what they hold, and their refcount
  delivered,  \* the responses that user code holds
  wire,       \* of the transfer: its phase, and what has been sent and received
  calls       \* number of calls so far

vars == <<copts, ropts, request, q, response, pool, bodies, delivered, wire, calls>>

-----------------------------------------------------------------------------
(* The handle.                                                             *)

Settings ==
  {"URL", "METHOD", "CUSTOMREQUEST", "HTTPHEADER", "READDATA", "INFILESIZE", "SHARE", "VERBOSE"}
  \cup {"FOLLOWLOCATION", "MAXREDIRS", "RESUME_FROM", "RANGE", "ACCEPT_ENCODING", "TIMEVALUE",
        "TIMECONDITION", "COOKIE", "COOKIEFILE", "COOKIEJAR", "LOCALPORT", "LOCALPORTRANGE",
        "PROXYHEADER", "HEADEROPT", "RESOLVE", "ALTSVC_CTRL", "SSL_VERIFYHOST"}
  \cup {Registry[i].opt : i \in {j \in DOMAIN Registry : Registry[j].opt # ""}}
  \cup UNION {{SubOptions[n][i].opt : i \in DOMAIN SubOptions[n]} : n \in DOMAIN SubOptions}

NoSettings == [o \in Settings |-> None]

\* How CURLOPT_HTTPGET, _NOBODY, _POST and _UPLOAD decide the method of a handle.
Method(easy, o, on) ==
  [easy EXCEPT !["METHOD"] =
     CASE o = "HTTPGET" -> None
       [] o = "POST"    -> <<"POST">>
       [] o = "UPLOAD"  -> <<"PUT">>
       [] o = "NOBODY" /\ on  -> <<"HEAD">>
       [] o = "NOBODY" /\ ~on -> IF @ = <<"HEAD">> THEN None ELSE @]

NoStorage == [url |-> None, cookiestore |-> None]

\* The settings that a reset makes on the handle.
ResetOthers(easy) ==
  [easy EXCEPT !["URL"] = None, !["CUSTOMREQUEST"] = None, !["AUTOREFERER"] = <<TRUE>>,
               !["USERPWD"] = None, !["SHARE"] = <<TRUE>>, !["VERBOSE"] = <<TRUE>>]
ResetSettings(easy) ==
  ResetOthers(Method(Method(easy, "HTTPGET", TRUE), "NOBODY", FALSE))

\* php_http_client_curl_handler_reset(), but for the response.
handler_reset(h) ==
  [h EXCEPT
    !.st = NoStorage, !.resolve = <<>>, !.retry = [count |-> 0, delay |-> 0],
    !.redirects = 0, !.encode_cookies = TRUE, !.headers = <<>>, !.proxyheaders = <<>>,
    !.cookies = TextReset(@), !.ranges = TextReset(@),
    !.easy = ResetSettings(@)]

\* handler_init() with a handle that has these settings.
handler_init(easy) ==
  handler_reset(
    [easy |-> easy, ok |-> TRUE, st |-> NoStorage, resolve |-> <<>>,
     retry |-> [count |-> 0, delay |-> 0], redirects |-> 0, encode_cookies |-> TRUE,
     range_request |-> FALSE, headers |-> <<>>, proxyheaders |-> <<>>,
     cookies |-> NoText, ranges |-> NoText])

\* The headers that go with the body of a message.
update_headers(msg) ==
  LET hdrs == msg.hdrs
      With(name, v) == Over([n \in {name} |-> v], hdrs)
      Has(name) == name \in DOMAIN hdrs
  IN  [msg EXCEPT !.hdrs =
         CASE Has("Content-Range") -> hdrs
           [] ~Has("Content-Range") /\ msg.size > 0 -> With("Content-Length", msg.size)
           [] ~Has("Content-Range") /\ msg.size = 0 /\ Has("Content-Length") ->
                IF hdrs["Content-Length"] = 0 THEN hdrs
                ELSE [n \in DOMAIN hdrs \ {"Content-Length"} |-> hdrs[n]]
           [] OTHER -> IF ~Has("Transfer-Encoding") /\ msg.method \in {"POST", "PUT", "PATCH"}
                       THEN With("Content-Length", 0) ELSE hdrs]

HeaderLines(hdrs) == [i \in 1 .. Cardinality(DOMAIN hdrs) |->
                        <<SetToSeq(DOMAIN hdrs)[i], hdrs[SetToSeq(DOMAIN hdrs)[i]]>>]

\* A list is given to libcurl as a pointer, NULL if it is empty.
List(l) == IF l = <<>> THEN None ELSE <<l>>

WithBody(easy, size) ==
  IF size > 0
  THEN Method([easy EXCEPT !["READDATA"] = <<"body">>, !["INFILESIZE"] = <<size>>], "POST", TRUE)
  ELSE [easy EXCEPT !["READDATA"] = None, !["INFILESIZE"] = <<0>>]

WithMethod(easy, method) ==
  CASE method = "HEAD" -> Method(easy, "NOBODY", TRUE)
    [] method = "PUT"  -> Method(easy, "UPLOAD", TRUE)
    [] OTHER -> [easy EXCEPT !["CUSTOMREQUEST"] = <<method>>]

\* After the options: headers, body and method.
PrepareMessage(h, msg) ==
  LET list == h.headers \o HeaderLines(msg.hdrs)
      easy == WithBody([h.easy EXCEPT !["HTTPHEADER"] = List(list)], msg.size)
  IN  [h EXCEPT !.headers = list,
                !.easy = IF msg.method = "" THEN easy ELSE WithMethod(easy, msg.method)]

\* The handler with its URL, and with the options applied if a URL is there.
Applied(h, options, msg) ==
  IF msg.url = "" THEN [h EXCEPT !.ok = FALSE]
  ELSE options_apply(options, [h EXCEPT !.ok = TRUE, !.st.url = <<msg.url>>,
                                        !.easy["URL"] = <<msg.url>>])

\* The handler after prepare(), ...
handler_prepare(h, options, msg) ==
  LET a == Applied(h, options, msg)
  IN  IF a.ok THEN PrepareMessage(a, update_headers(msg)) ELSE a

\* ... whether it succeeded: a request without a method fails at last ...
Prepares(h, options, msg) == Applied(h, options, msg).ok /\ msg.method # ""

\* ... and what it made of the request: headers updated, and the body rewound.
NotRewound(msg) == msg.pos
Rewound(msg) == IF msg.size > 0 THEN 0 ELSE msg.pos
PreparedRequest(h, options, msg) ==
  IF Applied(h, options, msg).ok THEN [update_headers(msg) EXCEPT !.pos = Rewound(msg)]
  ELSE msg

-----------------------------------------------------------------------------
(* Bodies with reference counts.                                           *)

Body == 1 .. MaxCalls + 1
NoBody == 0
Free == {b \in Body : bodies[b].refs = 0}
NewBody == CHOOSE b \in Free : TRUE
Fresh == [data |-> <<>>, refs |-> 1]
FreeBody(bs, b) ==
  [bs EXCEPT ![b] = IF @.refs = 1 THEN [data |-> <<>>, refs |-> 0]
                    ELSE [data |-> @.data, refs |-> @.refs - 1]]

\* A response of which nothing has been received.
NoResponse(b) == [blocks |-> <<>>, errorcode |-> "OK", body |-> b]

\* On reset a response body that holds something is replaced.
NeverRenewed(b) == FALSE
Renewed(b) == bodies[b].data # <<>>

-----------------------------------------------------------------------------
(* Calls.                                                                  *)

Call == calls < MaxCalls /\ calls' = calls + 1

setClientOptions(new) ==
  /\ Call
  /\ copts' = options_set(copts, new.set, new.nulls)
  /\ UNCHANGED <<ropts, request, q, response, pool, bodies, delivered, wire>>

setOptions(new) ==
  /\ Call
  /\ ropts' = options_set(ropts, new.set, new.nulls)
  /\ UNCHANGED <<copts, request, q, response, pool, bodies, delivered, wire>>

setSslOptions(sub, overwrite) ==
  /\ Call
  /\ ropts' = options_set_subr(ropts, "ssl", sub, overwrite)
  /\ UNCHANGED <<copts, request, q, response, pool, bodies, delivered, wire>>

setCookies(sub, overwrite) ==
  /\ Call
  /\ copts' = options_set_subr(copts, "cookies", sub, overwrite)
  /\ UNCHANGED <<ropts, request, q, response, pool, bodies, delivered, wire>>

\* The user gives the request another method, URL or body; a new body has a
\* stream of its own.  Not while libcurl reads the body.
ModifyRequest(r) ==
  /\ Call
  /\ wire.phase \notin {"running", "stale"}
  /\ r # [url |-> request.url, method |-> request.method, size |-> request.size]
  /\ request' = [request EXCEPT !.url = r.url, !.method = r.method, !.size = r.size, !.pos = 0]
  /\ UNCHANGED <<copts, ropts, q, response, pool, bodies, delivered, wire>>

NoWire == [phase |-> "idle", blocks |-> <<>>, data |-> <<>>, sent |-> 0]
Started == [NoWire EXCEPT !.phase = "running"]

\* Handles of persistent clients come from the pool, reset by retire_ch().
retire_ch(easy) == NoSettings
Handles == pool \cup {NoSettings}
Retired(h) == IF Persistent THEN pool \cup {retire_ch(h.easy)} ELSE pool

\* php_http_client_curl_enqueue(); create_rf() refuses an empty URL.
enqueue ==
  /\ Call
  /\ q = None
  /\ request.url # ""
  /\ LET options == combined_options(copts, ropts)
     IN  \E easy \in Handles :
           \E h \in {handler_init(easy)} :
             /\ request' = PreparedRequest(h, options, request)
             /\ IF Prepares(h, options, request)
                THEN /\ q' = <<[options |-> options, h |-> handler_prepare(h, options, request),
                               msg |-> request, ready |-> TRUE]>>
                     /\ response' = NoResponse(NewBody)
                     /\ bodies' = [bodies EXCEPT ![NewBody] = Fresh]
                     /\ wire' = Started
                     /\ UNCHANGED pool
                ELSE /\ pool' = Retired(handler_prepare(h, options, request))
                     /\ UNCHANGED <<q, response, bodies, wire>>
  /\ UNCHANGED <<copts, ropts, delivered>>

\* The response part of handler_reset().
ResetResponse ==
  IF Renewed(response.body)
  THEN /\ bodies' = [FreeBody(bodies, response.body) EXCEPT ![NewBody] = Fresh]
       /\ response' = NoResponse(NewBody)
  ELSE /\ response' = NoResponse(response.body)
       /\ UNCHANGED bodies

\* php_http_client_curl_requeue(): the handler is reset and prepared again.  When
\* that fails the transfer stays where it was, with what has been set so far.
requeue ==
  /\ Call
  /\ q # None
  /\ ResetResponse
  /\ LET options == combined_options(copts, ropts)
     IN  \E h \in {handler_reset(q[1].h)} :
           \E ready \in {Prepares(h, options, request)} :
             /\ request' = PreparedRequest(h, options, request)
             /\ q' = <<[options |-> options, h |-> handler_prepare(h, options, request),
                        msg |-> request, ready |-> ready]>>
             /\ wire' = IF ready THEN Started
                        ELSE [wire EXCEPT !.blocks = <<>>, !.data = <<>>,
                                          !.phase = IF @ = "running" THEN "stale" ELSE @]
  /\ UNCHANGED <<copts, ropts, pool, delivered>>

dequeue ==
  /\ Call
  /\ q # None
  /\ q' = None
  /\ response' = NoResponse(NoBody)
  /\ bodies' = FreeBody(bodies, response.body)
  /\ pool' = Retired(q[1].h)
  /\ wire' = NoWire
  /\ UNCHANGED <<copts, ropts, request, delivered>>

\* User code lets go of a response.
Release(i) ==
  /\ Call
  /\ delivered' = RemoveAt(delivered, i)
  /\ bodies' = FreeBody(bodies, delivered[i].body)
  /\ UNCHANGED <<copts, ropts, request, q, response, pool, wire>>

-----------------------------------------------------------------------------
(* The transfer: libcurl calls back, as long as the server says.           *)

\* A transfer goes on, also one that a failed requeue() has left half prepared.
Running == q # None /\ wire.phase \in {"running", "stale"}
Answered == wire.blocks # <<>> /\ Last(wire.blocks) \in Final

\* read_callback: the next part of the request body.
read_callback ==
  /\ Running
  /\ q[1].h.easy["READDATA"] # None
  /\ wire.sent < q[1].h.easy["INFILESIZE"][1]
  /\ request.pos < request.size
  /\ request' = [request EXCEPT !.pos = @ + 1]
  /\ wire' = [wire EXCEPT !.sent = @ + 1]
  /\ UNCHANGED <<copts, ropts, q, response, pool, bodies, delivered, calls>>

\* seek_callback: libcurl sends the request again, after a redirect or 401.
seek_callback ==
  /\ Running
  /\ wire.sent > 0
  /\ wire.data = <<>>
  /\ request' = [request EXCEPT !.pos = 0]
  /\ wire' = [wire EXCEPT !.sent = 0]
  /\ UNCHANGED <<copts, ropts, q, response, pool, bodies, delivered, calls>>

\* header_callback, for a whole block of them: a response, or one before it.
header_callback(b) ==
  /\ Running
  /\ Len(wire.blocks) < MaxBlocks
  /\ ~Answered /\ wire.data = <<>>
  /\ response' = [response EXCEPT !.blocks = Append(@, b)]
  /\ wire' = [wire EXCEPT !.blocks = Append(@, b)]
  /\ UNCHANGED <<copts, ropts, request, q, pool, bodies, delivered, calls>>

\* body_callback: the next piece, which is its number.
body_callback ==
  /\ Running
  /\ Len(wire.data) < MaxData
  /\ Answered \/ wire.phase = "stale"
  /\ bodies' = [bodies EXCEPT ![response.body].data = Append(@, Len(wire.data) + 1)]
  /\ wire' = [wire EXCEPT !.data = Append(@, Len(wire.data) + 1)]
  /\ UNCHANGED <<copts, ropts, request, q, response, pool, delivered, calls>>

-----------------------------------------------------------------------------
(* php_http_curlm_responseparser() makes a response of what has come.      *)

\* Each block starts a message, the first one is the one with the body; then the
\* body is moved to the newest.
Messages ==
  IF response.blocks = <<>> THEN << [code |-> 0, hdrs |-> Empty, body |-> response.body] >>
  ELSE [i \in DOMAIN response.blocks |->
          [code |-> response.blocks[i].code, hdrs |-> response.blocks[i].hdrs,
           body |-> IF i = 1 THEN response.body ELSE NoBody]]
BodyMoved(msgs) == [Last(msgs) EXCEPT !.body = msgs[1].body]

Moved == [n \in {"Transfer-Encoding", "Content-Range", "Content-Encoding"} |->
            CASE n = "Transfer-Encoding" -> "X-Original-Transfer-Encoding"
              [] n = "Content-Range"     -> "X-Original-Content-Range"
              [] n = "Content-Encoding"  -> "X-Original-Content-Encoding"]

\* What was decoded already is renamed; the length is kept, and copied.
Renamed(hdrs) ==
  LET gone == DOMAIN hdrs \cap DOMAIN Moved
      kept == [n \in DOMAIN hdrs \ gone |-> hdrs[n]]
      orig == [n \in {Moved[g] : g \in gone} |-> hdrs[CHOOSE g \in gone : Moved[g] = n]]
      len == [n \in {x \in {"X-Original-Content-Length"} : "Content-Length" \in DOMAIN hdrs} |->
                hdrs["Content-Length"]]
  IN  Over(len, Over(orig, kept))

responseparser ==
  LET m == BodyMoved(Messages)
      u == update_headers([hdrs |-> Renamed(m.hdrs), size |-> Len(bodies[response.body].data),
                           method |-> "", url |-> "", pos |-> 0])
  IN  [m EXCEPT !.hdrs = u.hdrs]

\* The response and the handler each hold the body.
NoAddRef(b) == bodies
AddRef(b) == [bodies EXCEPT ![b].refs = @ + 1]

\* What curl_easy_getinfo() and the storage of the handle tell of a transfer.
get_info(code, error) == [response_code |-> code, curlcode |-> error]

\* responsehandler(): an error is kept with the handle.
ErrorCode(result) == IF result = "OK" THEN response.errorcode ELSE result

\* responsehandler() and handle_response(): the response is detached from what came
\* before it and gets the transfer's info.
Deliver(result) ==
  /\ Running
  /\ result = "OK" => Answered \/ wire.phase = "stale"
  /\ \E d \in {responseparser} :
       delivered' = Append(delivered,
         [code |-> d.code, hdrs |-> d.hdrs, body |-> d.body,
          info |-> get_info(d.code, ErrorCode(result)),
          got |-> [blocks |-> wire.blocks, data |-> wire.data, result |-> result]])
  /\ response' = [response EXCEPT !.blocks = <<>>, !.errorcode = ErrorCode(result)]
  /\ bodies' = AddRef(response.body)
  /\ wire' = [wire EXCEPT !.phase = "done"]
  /\ UNCHANGED <<copts, ropts, request, q, pool, calls>>

-----------------------------------------------------------------------------
Init ==
  /\ copts = Empty
  /\ ropts = Empty
  /\ \E r \in {s \in Requests : s.method = "GET"} :   \* as constructed
       request = [url |-> r.url, method |-> r.method, size |-> r.size, pos |-> 0, hdrs |-> Empty]
  /\ q = None
  /\ response = NoResponse(NoBody)
  /\ pool = {}
  /\ bodies = [b \in Body |-> [data |-> <<>>, refs |-> 0]]
  /\ delivered = <<>>
  /\ wire = NoWire
  /\ calls = 0

Next ==
  \/ \E o \in ClientOptions : setClientOptions(o)
  \/ \E o \in OptionSets : setOptions(o)
  \/ \E c \in SslCalls : setSslOptions(c[1], c[2])
  \/ \E c \in CookieCalls : setCookies(c[1], c[2])
  \/ \E r \in Requests : ModifyRequest(r)
  \/ enqueue
  \/ requeue
  \/ dequeue
  \/ \E i \in DOMAIN delivered : Release(i)
  \/ read_callback
  \/ seek_callback
  \/ \E b \in Interim \cup Final : header_callback(b)
  \/ body_callback
  \/ \E r \in {"OK", "error"} : Deliver(r)

Spec == Init /\ [][Next]_vars

-----------------------------------------------------------------------------
(* Properties.                                                             *)

\* What requeue() does not take back from an earlier use of the handle: settings of
\* options that are only ever set, and what follows from an earlier range request.
Given(e, name) == name \in DOMAIN e.options
LeftBehind(e) ==
  (IF Given(e, "range") /\ RangesText(e.options["range"]) # <<>> THEN {} ELSE {"RANGE"})
  \cup (IF Given(e, "altsvc_ctrl") /\ e.options["altsvc_ctrl"] # 0 THEN {} ELSE {"ALTSVC_CTRL"})
  \cup (IF e.h.range_request THEN {"TIMECONDITION", "HTTPHEADER"} ELSE {})
  \cup UNION {{SubOptions[n][i].opt : i \in DOMAIN SubOptions[n]} :
                 n \in DOMAIN SubOptions \ DOMAIN e.options}

\* A handle that requeue() has reset and prepared, maybe several times and after other
\* options, another method and a failed attempt, is set as a new one for this request
\* would be, apart from what is listed above (handler_reset, handler_prepare).
PreparedAsFresh ==
  q # None /\ q[1].ready =>
    \E e \in {q[1]} :
      \E f \in {handler_prepare(handler_init(NoSettings), e.options, e.msg)} :
        /\ \A o \in Settings \ LeftBehind(e) : e.h.easy[o] = f.easy[o]
        /\ e.h.retry = f.retry /\ e.h.redirects = f.redirects
        /\ e.h.st.cookiestore = f.st.cookiestore /\ e.h.st.url = f.st.url

\* A response body lives exactly as long as the handler or a response refers to it
\* (php_http_message_body_addref in the response parser, _free in reset and dtor).
BodyRefsBalanced ==
  \A b \in Body :
    bodies[b].refs = Cardinality({i \in DOMAIN delivered : delivered[i].body = b})
                     + (IF response.body = b THEN 1 ELSE 0)

\* A response, once delivered, stays what the server sent: the body of its transfer,
\* the status of its last header block and the result of this transfer, whatever
\* is requeued, dequeued or received later.  (A body that was empty is shared with
\* the next transfer of the handle, php_http_client_curl.c:2169, and is not claimed.)
ResponsesAsReceived ==
  \A i \in DOMAIN delivered :
    LET d == delivered[i]
    IN  /\ d.got.data # <<>> => bodies[d.body].data = d.got.data
        /\ d.info.curlcode = d.got.result
        /\ d.code = IF d.got.blocks = <<>> THEN 0 ELSE Last(d.got.blocks).code
        /\ d.got.data # <<>> /\ "Content-Range" \notin DOMAIN d.hdrs =>
             d.hdrs["Content-Length"] = Len(d.got.data)

\* What libcurl has read of the request body is its beginning, also when the request is
\* requeued in the middle of the upload, or sent again after a seek; after a requeue()
\* that fails nothing is claimed.
UploadFromStart == wire.phase = "running" => wire.sent = request.pos
=============================================================================
