# A TLA+ model of ext-http (pecl_http)

ext-http is the HTTP extension of PHP: a client on top of libcurl, incremental
parsers for headers and messages, encoding streams and stream filters, response
and message objects, and value classes (URLs, parameters, cookies, query strings).
The modules here model the parts whose correctness depends on the *order* in which
things happen, check them with TLC on small instances, and prove the most important
of their properties with TLAPS for every instance. Source paths are relative to the
repository; line numbers of every definition are in `PROJECT.json`.

## Inventory

| component | state | operations | hard behaviour |
|---|---|---|---|
| client queue, `php_http_client.c` | lists of requests and responses, callback depth, observers, history | enqueue, requeue, dequeue, reset, once, send, getResponse, notify, options | observers and response callbacks re-enter the client in the middle of its functions; references on request objects; exceptions |
| curl driver, `php_http_client_curl.c` | multi handle, `unfinished`, a handler per request with its easy handle, option storage and what it received | the same, option setters, reset, prepare, response handler | stale counters, deferred errors, failing curl calls; handles that are used again |
| event loops, `php_http_client_curl_event.c`, `_user.c` | event base, timer, socket events | once, wait, exec, socket and timer callbacks | timers against late answers, callbacks that change what is waited for |
| header parser, `php_http_header_parser.c` | state stack, key, value, buffer | parse, stream | input cut anywhere, a peer that writes meanwhile, NULs, folding |
| message parser, `php_http_message_parser.c` | state stack, body length, dechunk and inflate streams | parse, stream | four kinds of body, input cut anywhere, failure and then more input |
| dechunk stream, `php_http_encoding.c` | buffer, size of the current chunk, end seen | update, flush, done, finish | unsigned counter, sizes cut anywhere, flush in mid-chunk |
| zlib and brotli streams, `php_http_encoding_*.c` | external codec state, a buffer of what the codec did not take | init, update, flush, done, finish, copy | output buffers that must grow, dirty streams, raw deflate |
| stream filters, `php_http_filter.c` | a stream or buffer per filter | chunked encode and decode, compression | closing and flushing |
| buffer, `php_http_buffer.c` | data, used, free | append, account, cut, resize, shrink, chunked passthrough | size arithmetic |
| message, `php_http_message.c`; body, `php_http_message_body.c` | chains of messages and of objects; shared, counted bodies | construct, clone, detach, prepend, reverse, iterate, serialize, split, append | aliasing, two chains that must agree |
| response, `php_http_env_response.c`; `php_http_env.c` | options, head, ranges, encoder, output buffer | setters, send, ranges, conditional requests | order of decisions, ranges at the limits, sending again |
| cookies, params, query string | values | parse, merge, format | small state machines over text, quoting |
| URL, negotiation | values | parse, combine, choose | character level parsing |
| module glue | none | registration | none |

How they interact: the client owns a driver and calls it; the driver calls
libcurl, which calls back for progress, headers and body data; an event loop may
stand between the two. The response handler hands parsed messages to the client,
which calls the user's callback and observers, which may call the client. The
message parser runs the header parser and the encoding streams on one shared
buffer; filters and responses use the encoding streams, and everything uses the
buffer. Cookies and query strings are parsed by the parameter parser.

What makes each of them correct: the queue holds a request at most once and
releases it exactly once; nothing that an active function still uses is freed;
send() returns, with nothing left running, whichever loop runs the transfers; a
handle that is used again behaves as a new one and leaves delivered responses
alone; parsers deliver what the document says, however it is cut, and never spin;
decoders return the encoder's input; a response's body is what its head says;
object and message chains agree and their counts are exact; what is written is
read back.

## Modules

**Client** (proofs in `ClientProofs`) models the queue and the curl driver. PHP has
one thread, so concurrency is re-entrance: the variable `stack` holds the C
functions and the user callbacks that are active, and a step is what runs between
two entries into user code. A frame keeps the C locals that survive such an entry
(the handler, `remaining`, the capacity and fill of the error array). `multi` is
libcurl, external, as the driver sees it. Methods are the actions of `Script`,
returning callbacks those of `Return`, the driver's and libcurl's steps those of
`Driver`. The failures of enqueueing after which msg_queue_dtor gives back the reference
that was taken are one action (`EnqueueFails`: `GivenBack(Taken(refs, r), r)`); a failing
`curl_multi_add_handle`, after which it does not, is one of its own.

**EventLoop** (proofs in `EventLoopProofs`) models the two event loops the driver can be configured with, for
libevent and for a loop that the script implements. libcurl is external: a transfer
waits for its socket or its timeout a few times and is then done, and the timer
callback is called when the nearest timeout is not the one told last. libevent is a
timer and a set of watched sockets; a batch of events runs in any order, and
handling one may take another off. The handler of an event, the response handler
and the deletion of the timer behind it are separate steps, because callbacks run
between them. A callback may call wait(): while the loop runs, libevent refuses to be
entered again and only the timer is set (`WaitRefused`); in a callback of send() before
the loop is entered, or of once() after it has returned, a nested loop runs, which calls
back itself, before the callback goes on (`WaitNested`; `outer` is that callback).

**CurlTransfer** (proofs in `CurlTransferProofs`) models what `Client` leaves out of
a handler: the settings of one easy handle, through enqueue, requeue, dequeue, and
persistent handles that come back from a pool (`q`, `pool`); the options of client
and request that are combined for it; what it collects of a response (`response`),
and the response built from that, whose body it shares (`bodies`, `delivered`).
**TransferOptions** holds the option registry and its setters as operators on the
settings; a setting keeps the value it was given, `curl_easy_setopt` is external
and refuses the values in `Rejected`, which the setter of an option then stops at.
libcurl is assumed to take back a range and to take a time condition
(`TransferOptionsAssumption`), as it does.

**HeaderParser** (`HeaderParserProofs`) models `php_http_header_parser_parse`: one
round of its loop is a step, and there is an action for every branch of every
state. Characters are abstracted to the classes the parser tells apart; `H`
stands for the token `HTTP/1.1`. **HeaderFeed** composes it with its callers,
`parse()` with chunks and `stream()` on a non-blocking stream with a peer, and
states what should come out of a given document; in mode `any` it is fed anything.

**Dechunk** (`DechunkProofs`) models the decoder of chunked encoding, again a round
of the loop a step. The base of sizes and the largest unsigned long are
constants. **ChunkedTransfer** (`DechunkProofs`, too) composes it with the encoding
filter and a wire that delivers pieces of any size.

**MessageParser** models `php_http_message_parser_parse`, a round of its loop a
step; the dechunk stream is an instance of `Dechunk` whose rounds are steps of
their own, and the header parser is abstracted to what it makes of whole lines (a
start line or a header is one character, since `HeaderParser` is about their
text). `chain` is the list of messages, the innermost parent first. Its callers
are in **MessageFeed**, parse() with pieces and stream() on a non-blocking stream
(`pc` is the place in `php_http_message_parser_parse_stream`), and in
**MessageSources**, which adds `php_http_message_body_split`: reads of a multipart
body, the search for delimiters, and a parse for each piece. Proofs are in
`MessageProofs`. gzip data is text between two marks, so that the inflate stream
can fail, end and be fed behind its end.

**Buffer** holds the operators of `php_http_buffer_t` on records; memory that was
not written is `Junk`, so that a wrong offset or count shows. **EncodingStream**
has the four compressing streams on top of it: the codecs are external and turn
text into tokens (a header, runs of bytes, a mark where a flush was, a trailer)
with a window, so that they keep input back, run out of output space and fail.
**StreamPipe** composes an encoder and a decoder, each a stream object or a filter,
with a wire between them; it copies, flushes and finishes either at any time.

**EnvResponse** (proofs in `EnvResponseProofs`) models `http\Env\Response`: setters, `send()` in its steps (ranges,
the head with its conditions, the body in pieces through encoder and buffer, the
end) and the two sets of output operations, SAPI and stream. The reader of a Range header
skips blanks (`Gap`), so one that ends behind "bytes=" is, to it, a blank. Negotiated type and
encoding, the validators of a condition and the text of dates are inputs. Positions in
a Range header are integers of any size; that the code adds up their digits in a
`long`, which longer ones exceed, is not modelled.

**ParamStrings**, **Params**, **QueryString** and **CookieList** hold the value
classes' algorithms as operators on texts of a few characters: the parameter
parser is a fold over the text with the state of `php_http_params_state_t`.
**Values** is the objects: a constructor, the setters, and writing and reading back.

**MessageObjects** models `http\Message` and `http\Message\Body` objects in two
variables, with a heap of objects, messages, bodies and body objects that have
reference counts; freed ones are marked, and touching one sets `fault`. Copying and
zipping chains walk the pointers as the code does (`copy_ex`, `message_zip`), with one
copy of a body at a time, and `http\Client`'s history is built from both. Texts are
sequences of lines and pieces of a body. Writing brings Content-Length up to date
(`update_headers`) and writes what the message then has; reading (`parser_parse`) skips
empty lines, starts a message at a start line, and takes as its body what Content-Length
says, or all that follows, so that a chain need not come back as it was. Three variables
are there for the properties only: `kin`, with whom a call of the script made a variable
share something; `recorded`, the messages as they were when the history recorded them;
and `handed`, whether the script has had the history to change.

## Runs

| run | states | what it shows |
|---|---|---|
| `MCClient` | 368 000 | Three requests, four calls of enqueue or requeue, callbacks nested twice. No request twice in the queue, no handler freed under an active function, `unfinished` never below what runs, the error array large enough, references balanced. |
| `MCClientSend` | 90 000 | send() returns, also when `curl_multi_add_handle` fails. |
| `MCClientRequeue` | 7 700 | *violated*: `requeue()` with a new callable calls the old one (see `findings` in `PROJECT.json`). |
| `MCEvents` | 81 000 | A blocked loop can be woken by every transfer it runs, also one that wait() runs in a callback; wait(), once() and send() return, the latter with everything transferred or an exception. |
| `MCTransfer` | 204 000 | A handle prepared again is set as a new one would be; bodies are counted exactly and delivered responses do not change; uploads start at the beginning. |
| `MCHeaderFeed` | 304 000 | All inputs of five characters in all cuts: clean headers, nothing carried over from header to header, parse() and stream() return, also while a peer writes. Documents come out as they went in, completely, if no piece ends inside a CRLF or in a start line and stream() need not fall back to a single character. |
| `MCChunkedTransfer` | 88 000 | What was encoded is decoded, completely, and what follows is kept. On all inputs of five characters the counter never wraps and update() returns. |
| `MCMessages` | 24 000 | Pipelined messages with bodies of known length, of a range, in chunks, compressed, empty and of unknown length come out as sent, in all pieces, by parse() and by stream(), and so do the parts of a multipart body in reads of any size. Malformed ones fail; parse() always returns, in a state stream() can go on from, with the data the failure is about. |
| `MCStreams` | 10 000 | What was decoded is always a prefix of what was encoded, all of it at the end, and all that was written once a flush came through. |
| `MCResponse` | 335 000 | The bytes sent are the whole body, the ranges asked for in their order, or none, as the status says; what follows the head is framed as the head says. |
| `MCValues` | 76 000 | Parameter texts mean what they say, written values are read back, a query update is a merge. |
| `MCObjects` | 408 000 | Four calls on two variables: counts exact, both chains agree, nothing freed is used. Variables share objects and bodies only where the script made them; the history shows messages as they were when they were recorded; what serialize() wrote is read back as it was, in its order and with its bodies, wherever the text tells messages apart. |

### Bounds

`MaxCalls` (calls of enqueue and requeue) and `MaxDepth` (nesting of callbacks
that call them) bound `Client`; three requests and four calls make room for a
requeue of a queue that is full, two failures and a success in one run of the
response handler, and a callback within a callback. Requests, handlers and callables
are interchangeable, so the safety runs of `Client` use symmetry; liveness runs do not.

`EventLoop`: two transfers that wait up to twice (`MaxRounds`), for up to two ticks
(`MaxDue`), and three calls of enqueue and requeue, or of wait() in a callback; so two events are in one batch,
a timer is pending that is later than the next, and a callback starts a transfer
when the last one is over.

`CurlTransfer`: four calls, five requests and five sets of options, each exercising
other setters and resets; two header blocks (`MaxBlocks`, an interim response and a
final one) and one piece of data.

`MaxFed` bounds the input of the header parser and the decoder: five characters are a name, a
colon, a value, a line end and the first character of the next line, and in chunks
of at most two they meet every cut. Documents of `HeaderFeed` are longer, but
well-formed. Sizes of chunks are binary (`Base = 2`) with `ULONG_MAX = 3`, so that
two digits and saturation occur within five characters; buckets hold text that
looks like sizes and line ends. Documents of `MCMessages` have up to three
messages, so that each kind of body is followed by another message; bodies contain
digits and line ends, and `ULONG_MAX = 3` makes a range wrap to a length of zero. A
body of unknown length arrives in one piece there (field `whole`), which is what
the code requires of it; `room`, 4 KiB in the code, is every size up to the longest
part's for multipart bodies.

Sizes of `MCStreams` are small so that every limit is met: buffers grow in steps of
four (`DefaultSize`) in a size type of 64 values (`SizeMod`), the output of a flush
has seven bytes (`DeflateBuffer`), decompressed output needs two rounds
(`InflateRounds`), the window is four bytes (`ZWindow`) and runs three (`MaxRun`),
brotli's output ring has four (`Ring`), brotli gives up after four rounds of encoding (`EnbrotliRounds`),
and a message comes in two buckets. In `MCResponse` bodies have four bytes, read two at a time and sent
through a buffer of three, so that each of the loops runs several times and a
buffer is sent in the middle of a read; three calls (`MaxCalls`) change a response
and send it again. `MCValues` has texts of four characters (`MaxText`) over quotes,
escapes, all separators and letters, arrays nested twice (`MaxNesting`) with two
nodes (`Budget`), and longer texts that are listed. `MCObjects` allows four calls
and six objects of each sort: enough for a chain of three, its clone and a history. Its
messages are made of no text, of a response with a body and its request, and of a
response with a length of zero, so that chains are written which texts can and which
they cannot tell apart.

`CHECK_DEADLOCK FALSE` stands where behaviours end with the last call.

### Fairness

The C code of the parsers runs on by itself: weak fairness of its rounds. A peer
that has more to write writes it, and a caller that wants headers feeds the rest
of its document. User callbacks return, `curl_multi_perform` returns after
finitely many callbacks and every transfer ends (libcurl's timeouts see to it):
strong fairness, since other steps of libcurl may come in between. In `EventLoop`
loops run on and time passes (weak fairness), and the socket of each transfer
becomes ready again and again while it is polled (strong fairness). Nothing is
assumed about user code but that its callbacks return.

## Proofs

All invariants are proved by induction; what is proved holds for every value of
the constants that satisfies the named assumptions.

*Client.* `TypeOK` and `UniqueRequests` need each other's help: a handler in use is
in `requests`, and one that runs in libcurl is too, so the inductive invariant
adds what relates `multi`, `request` and the frames to `requests`. That
`unfinished` covers the running transfers follows from cardinalities of finite
sets (`Handler` is finite): a step that adds a handle counts it, and
`curl_multi_perform` stores the exact number. `SendDrainsAll`, that send() leaves nothing running
unless an exception ended it, follows from it and is not checked by a run of its own.
`HandlersLive` and `DequeueDeferred` are proved under `Quiet`: callbacks do not
call `reset()`, and libcurl does not fail. The first condition is needed (see
below).

`ErrorsAlwaysFit` is about the array that the response handler allocates at the
first failure. Its size is what was left to read then, so the invariant says of
every frame of the response handler that what it has stored and what is still
pending fit the array (`ErrorsInv`); it holds because whatever a callback enqueues
cannot end before libcurl performs again.

`RequestsHeld` is unconditional: `refs` is at least one for every queued request.
The exact count (`ReferencesBalanced`) is proved under `Unrefused`, which excludes
what makes the code lose a reference: a failing `curl_multi_add_handle`, and an
observer that enqueues while libcurl notifies it from inside a transfer, where
libcurl refuses to add a handle. Then nothing is ever entered on top of such a
notification (`XferInv`), and no step changes a count without the entry.

*EventLoop.* `LoopInv` adds to the types that the sockets watched are those waited
for, that a transfer that is over has no timeout, that `unfinished` covers what runs,
and, because libcurl tells a timeout only when it changes, that the last one told
is the nearest of all and libevent's timer is pending for it (`TimerSet`).
`Transfer` is any finite set.

*CurlTransfer.* Of the counts of bodies (`BodyInv`) the least obvious part is that a
free body is there when one is needed: each call makes at most one, so no more are
in use than calls were made (`UsedFew`). `ReceivedInv` says of a running transfer
that the handler has what the wire has and that no response with data shares the
body that is being written to (`InTransfer`); this is where `handler_reset()` must
replace a body that holds something. For the upload, a request that is queued has
been prepared, and so rewound (`UploadInv`).

That a handle which is used again is prepared as a new one (`PreparedAsFresh`) compares
the result of resetting and preparing a handle with that of preparing a fresh one. In
the proof the two go through the registry side by side: `Both` says that they are
alike in what the setters build upon (the headers, the text of cookies, retry counts)
and in a set of settings, and each option of the registry adds its own to the set, until
it holds all but `LeftBehind`. Where the used handle
gets through, the new one does (libcurl refuses by option and value), so nothing has to be
known of `Rejected` beyond the assumption. What the proof has to find its way
around is the state that one use leaves for the next: the buffers of cookies and
ranges, which keep stale text behind `used = 0`, and `range_request`, which changes what
later setters do. The inductive invariant (`PrepareInv`) adds that the handler in use
has its shape and that idle handles have nothing set, so that it does not matter which
of them a request gets.

*HeaderParser.* `HeadersClean` needs to know that the name kept consists of name
characters and that the value kept has no line end, which are the invariants
`KeyOK` and `ValOK`; a NUL is caught when the header is stored. `NothingCarriedOver`
is inductive as it stands: every way into the state that looks for a name has
stored and released the header before.

*Dechunk.* `HexlenNeverWraps` holds between calls only; inside one, the invariant
is that a round that returns has less buffered than the chunk needs.

*ChunkedTransfer.* `DecodedAlwaysSent` and `FollowingAlwaysKept` follow from
`TransferInv`, whose core, `Coding`, relates four pieces of state: the buffer and the
wire together are the rest of an encoding, that is `hexlen` bytes of a chunk, what
is left of its line end, further chunks, and the last one once the filter is closed;
and what was sent is what is out, those bytes and these chunks. The buffer may end
anywhere in it but inside a size line's CRLF, which is one unit of the wire. Two more parts are
needed: between two calls that wait for a size there is no line end in the buffer
(or the stream would not be done when all has arrived), and behind the last size
line the rest is the transfer's own line end, as far as it was not cut yet, and then
what follows. Each round is then shown to take from the front of the encoding
(`CodingData`, `CodingStart`, `CodingSize`); the filter adds at its end and the wire
only moves it. That the size read is the size written (`HexText`, `StrtoulReads`) is
shown for the operators as the model defines them, as is what `FlattenSeq` does to
concatenations; these are inductions over numbers, from a least counterexample
(`Induction`). The theorems are proved under `Uncut`: `~CutAnywhere`, without which
they are false (see below), and `Base = 2`, since the model writes digits as "0" and "1"
and no others; buckets, the text that follows, what is
fed otherwise and the width of unsigned long are any, within the assumptions that a
length is an unsigned long and that what follows begins with no line end.

*MessageParser.* The three theorems share one inductive invariant. The stack holds
one state, and BODY or FAILURE above it (`StackOK`), from which it follows what
parse() can return (`Returns`); what BODY is to write comes from data that is still
in the buffer (`DataKept`), hence a failure keeps it. `CutNeverWraps` is the hard
one: the dechunk stream keeps what earlier calls gave it, so it may hold more than
the buffer, and `Len(buffer) - Len(dbuffer)` would wrap if any of that were left
at the end. The invariant `Chunks` says that the surplus contains no line end
while a size is awaited, or is shorter than the chunk awaited; so the round that
ends the line or the chunk cuts past it, and from then on the stream's data is the
end of the buffer.

*EnvResponse.* `HeadAlwaysFrames` follows from `StreamInv`: what is out to a stream
is the head of the context as it is now, if and only if the context is started, then
data framed as the context says, and the end only when send() has returned. So
nothing may change header, status or framing of a context that is started, and the
invariant has to know that nothing is out before the head is made. That what is
written is a sequence of chunks at all rests on types (`ResponseTypes`): the ranges
read from the header are pairs of integers, which is shown for the function that
reads it character by character (`RangesTypes`), and a buffer keeps its shape
through appending and cutting. The assumptions on requests and settings are that a
Range header consists of digits, dashes, commas and blanks and a throttle size is a number.

`BodyAlwaysAnnounced` says that the bytes behind that head are the right ones, through
everything that lies between a request and them. Its inductive invariant,
`AnnouncedInv`, has four parts. What the request asked for does not change while it is
answered, and what `CheckRanges` found is what the header spells (`SentInv`). The status
follows from what was decided (`StatusInv`). While the body is read (`Going`), what is
out, what the buffer and the encoder hold, what is left of the part that is being read
and the parts to come are, one after the other and encoded, all there is to send; and at
the end all of it went out (`Carried`). The lemmas follow the bytes: the digits of a
position are read as that position (`DigitsRead`, an induction over numbers), a header
made of ranges as those ranges (`RangesRead`), and a range that lies within the body is
the one asked for (`ServedAsAsked`); a round of reading takes the first bytes of what is
left and is the last one only if nothing is (`ReadLeft`); the buffer lets out and keeps,
together and in order, what it was given (`OutputData`), whatever the encoder holds back
(`SendDataBytes`). `ReadLeft` needs that a read asks for at least as much as the size it
is compared with, which is that of a pointer (`PtrSize <= ReadSize`). The theorem has two
hypotheses, which TLC checks of the instance (`MCAnnounced`). Requests are made of
the ranges that they ask for (`RangesSpelled`): numbers of any length, but without leading
zeros or blanks; two requests with blanks, in `Spaced`, are checked by the run alone. And no script sets 206, 304, 412 or 416 itself (`OwnStatus`), since the status
would then announce what send() did not do.

`SeqLemmas` has what several of these proofs cite: induction over numbers from a least
counterexample, what `FlattenSeq` returns, and sequences of anything, put together and cut.

Only model-checked: all liveness (`SendReturns`, `CallsReturn`, `ParseReturns`,
`UpdateReturns`, `AllParsed`), since it is out of the prover's reach; what the composed
modules say about whole documents (`RoundTrip`, `MessagesAsSent`), which is induction
over the document, with invariants that would restate the parser; `DecodedIsPrefix`,
`FinishedIsComplete` and `FlushDelivers` of `StreamPipe`, `ParsedAsWritten`,
`WrittenIsReadBack` and `UpdateIsMerge` of `Values`, and all of `MessageObjects`: these
modules reach recursive operators. An
induction over data is possible by hand only for a function with a number as its
argument, from a least counterexample, as in `RangesTypes` and `DigitsRead`; the
induction theorems of the library cannot be instantiated.

## Known deviations

The code does not do what a reader would expect in the following places. The
models do as the code does, and the properties leave these cases out by name, a
bound or a constant.

- Client: `reset()` in a callback destroys entries that `dequeue()` refuses to touch
  (`php_http_client.c:324`); runs leave "reset" out of `CallbackOps`. After a
  failing `curl_multi_add_handle` the request object is not released
  (`php_http_client_curl.c:2505`).
- Event loops: `send()` on libevent spins when a callback requeues its request and
  asks for dequeueing: the transfer is gone but counted, and no event is left
  (`Spins`). A pending timer is never brought forward, so a new transfer may start
  late. The first wait() with a new loop ignores its timeout. A second
  configure() leaks the loop before it, and disabling one while transfers are
  queued uses freed events.
- Header parser: a chunk that ends between CR and LF, or in a start line, changes
  what is parsed (`php_http_header_parser.c:135`, `:139`; with `CutAnywhere = TRUE`
  `RoundTrip` fails). A byte that arrives between the two reads of stream() is
  counted twice (`:306`; `raced`).
- Dechunk stream: a size line cut between CR and LF gives the LF to the chunk
  (`php_http_encoding.c:353`; `CutAnywhere`).
- Message parser: a part of a multipart body without a Content-Length that a read
  cuts loses its rest (`php_http_message_parser.c:426`). The inflate stream of a
  message swallows the body of a later one that is not compressed (`:388`).
- Encoding streams: raw deflate data whose first byte arrives alone is not
  recognised on a retry; a copied or reset inflate stream stays raw. Output that
  needs more than the fixed number of rounds stays behind. `fflush()` twice on a
  deflate filter is an error.
- Transfers: open-ended ranges lose a character where "ditch last comma" finds none
  (`php_http_client_curl.c:1126`); a `range` option without a single valid range passes
  on the text of an earlier use; what requeue() does not take back is listed in
  `LeftBehind`; an empty body is shared with the next transfer of the handle.
- Responses: a range of more bytes than the body has gives a negative begin, and a
  length of zero is not validated (`RangesInBody`); a validator that was computed is
  kept as an option when the body changes; a second send() on a SAPI, behind one
  without output, keeps its status (`former`).
- Values: two backslashes escape again, leading separators are part of the first
  name (`Clear`); a value that is a single quote is
  taken for both ends of a quoted one, with a length of minus one
  (`php_http_params.c:55`), so such texts are not read (`Survives`);
  setting a query parameter to the value it has deletes it
  (`php_http_querystring.c:299`); allowed extras of a cookie are matched as prefixes
  (`php_http_cookie.c:149`); names of cookies are encoded but not decoded. What a
  writer has no text for is left out by `Faithful`.
- Message objects: unserialize() leaves parent, children and body object as they
  were, with children that point to a freed message, and addBody() follows a null
  stream of a body object never used. Behaviours end there (`odd`), so no property
  speaks of what follows. prepending below the top loses the parents of what is
  prepended (`lost`). An object that was made its own iterator is a cycle which the
  garbage collector is not told of (`php_http_message.c:1015`); its count is exact all the
  same. A text does not tell all chains apart (`ToldApart`): an empty message without a
  type is written as an empty line and skipped by the reader
  (`php_http_message_parser.c:214`), one with headers behind another message is read as part
  of that or fails, and a response without a body and without Content-Length takes all
  that follows for its body.
- Header and message parser: after a failure the next call looks up states[-1] if its
  buffer is empty (`php_http_header_parser.c:105`); whatever is there, it fails
  (`Failure`).
- Options: "portrange" with one port reads the second from an uninitialised variable
  (`php_http_client_curl.c:1193`); options of the model have none or two.

## What is not modelled

Progress and debug callbacks that libcurl may fire from within adding and removing
handles; observers that throw away the client itself; overridden `getOptions()`;
the text of warnings. `strtoul`'s `0x` prefix. Of the message parser: UPDATE_CL,
which cannot be reached as long as the dechunk stream has no finish operation;
several headers of one name; the single character that stream() falls back to (see
`HeaderFeed`); headers that end before any was stored. Of the driver: the multi
handle's options, shared cookies, most of `getinfo`. Of event loops: reconfiguration
while requests are queued, and errors of libevent. Of responses: throttling, cookies
other than as a header, and negotiation itself. Of message objects: property
handlers that subclasses may reach, bodies made of files and forms, a second call
of the constructor. URLs and negotiation are character-level parsing and sorting
without interaction; class registration holds no behaviour.

## Further work

1. Proofs: the counts of `MessageObjects`, with its recursive operators written as
   functions; that the operators of `Buffer` keep `used` and `free` within the
   allocation; `StreamPipe`, with invariants like `Coding`.
2. URL combination and negotiation, as operators against reference definitions.
