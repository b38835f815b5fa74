--------------------------- MODULE MessageObjects ---------------------------
(***************************************************************************)
(* http\Message and http\Message\Body objects on PHP's heap: message       *)
(* chains that objects share, bodies that messages and body objects share, *)
(* and the reference counts that decide when each of them is freed         *)
(* (php_http_message.c, php_http_message_body.c, and handle_history() of   *)
(* php_http_client.c).                                                     *)
(*                                                                         *)
(* An object owns one message.  The chain exists twice: message->parent    *)
(* points to the parent's message without a count, object->parent holds    *)
(* the parent's object.  Ids are addresses; a message that was freed keeps *)
(* its id while something still points to it.  Of headers a message has    *)
(* Content-Length and the X-Original-Content-Length that reading adds; a   *)
(* request's method is one that needs no body.                             *)
(***************************************************************************)
EXTENDS Integers, Sequences, SequencesExt, FiniteSets, FiniteSetsExt

CONSTANTS
  Slots,        \* variables of the script that hold messages
  Texts,        \* texts a message is constructed from: sequences of lines
  Parts,        \* what is appended to a body
  MaxObjects,   \* objects, and messages and bodies, at one time
  MaxCalls      \* calls after the messages are constructed

ASSUME ObjectsAssumption == MaxObjects \in Nat \ {0} /\ MaxCalls \in Nat

VARIABLES
  heap,         \* the heap and the variables, see Init
  calls,
  \* What only the properties look at:
  kin,          \* for each variable, those the script made it share with
  recorded,     \* what the history was given to show, the newest first
  handed        \* getHistory() has handed the history out

ghosts == <<recorded, handed>>
vars == <<heap, calls, kin, recorded, handed>>

Ids == 1..MaxObjects
None == 0
NoLength == -1

\* What holds references: the variables, the one for bodies, the history.
BodyVar == 0
History == -1
Holding == Slots \cup {BodyVar, History}

FreeObject  == [refs |-> 0, msg |-> None, parent |-> None, body |-> None, iterator |-> None]
FreeMessage == [live |-> FALSE, head |-> "freed", length |-> NoLength, original |-> FALSE,
                parent |-> None, body |-> None]
FreeBody    == [refs |-> 0, data |-> <<>>]
FreeBodyObj == [refs |-> 0, body |-> None]

\* lost: a reference was dropped without a release.  odd: unserialize() has
\* torn a message from its object's parent or body, or addBody() was given a
\* body object without a body and follows a null pointer; calls end there.
Init ==
  /\ heap = [obj |-> [o \in Ids |-> FreeObject], msg |-> [m \in Ids |-> FreeMessage],
             body |-> [b \in Ids |-> FreeBody], bobj |-> [b \in Ids |-> FreeBodyObj],
             var |-> [s \in Slots |-> None], bvar |-> None, history |-> None,
             fault |-> FALSE, lost |-> FALSE, odd |-> FALSE]
  /\ calls = 0
  /\ kin = [x \in Holding |-> {x}] /\ recorded = <<>> /\ handed = FALSE
-----------------------------------------------------------------------------
(* Allocation and release. *)

NewObjectId(h)  == Min({o \in Ids : h.obj[o].refs = 0 /\ \A p \in Ids : h.obj[p].parent # o})
NewMessageId(h) == Min({m \in Ids : ~h.msg[m].live /\ \A p \in Ids : h.msg[p].parent # m})
NewBodyId(h)    == Min({b \in Ids : h.body[b].refs = 0})
NewBodyObjId(h) == Min({b \in Ids : h.bobj[b].refs = 0})

\* There is room for n more messages with their objects and bodies.
Room(h, n) ==
  /\ Cardinality({o \in Ids : h.obj[o].refs = 0 /\ \A p \in Ids : h.obj[p].parent # o}) >= n
  /\ Cardinality({m \in Ids : ~h.msg[m].live /\ \A p \in Ids : h.msg[p].parent # m}) >= n
  /\ Cardinality({b \in Ids : h.body[b].refs = 0}) >= n
  /\ Cardinality({b \in Ids : h.bobj[b].refs = 0}) >= n

\* php_http_message_body_addref(), php_http_message_body_free()
body_addref(h, b) == [h EXCEPT !.body[b].refs = @ + 1, !.fault = @ \/ h.body[b].refs = 0]
body_free(h, b) ==
  CASE b = None -> h
    [] b # None /\ h.body[b].refs = 0 -> [h EXCEPT !.fault = TRUE]
    [] b # None /\ h.body[b].refs = 1 -> [h EXCEPT !.body[b] = FreeBody]
    [] OTHER -> [h EXCEPT !.body[b].refs = @ - 1]

\* zend_object_release() of a body object, php_http_message_body_object_free().
bobj_release(h, b) ==
  CASE b = None -> h
    [] b # None /\ h.bobj[b].refs = 0 -> [h EXCEPT !.fault = TRUE]
    [] b # None /\ h.bobj[b].refs = 1 -> body_free([h EXCEPT !.bobj[b] = FreeBodyObj], h.bobj[b].body)
    [] OTHER -> [h EXCEPT !.bobj[b].refs = @ - 1]

\* php_http_message_dtor() and efree(): not the parents.
message_dtor(h, m) ==
  IF ~h.msg[m].live THEN [h EXCEPT !.fault = TRUE]
  ELSE body_free([h EXCEPT !.msg[m] = FreeMessage], h.msg[m].body)

\* zend_object_release() and, with the last reference,
\* php_http_message_object_free(): iterator, message, parent, body.
RECURSIVE release(_, _)
object_free(h, o) ==
  bobj_release(release(message_dtor(release([h EXCEPT !.obj[o] = FreeObject], h.obj[o].iterator),
                                    h.obj[o].msg),
                       h.obj[o].parent),
               h.obj[o].body)
release(h, o) ==
  CASE o = None -> h
    [] o # None /\ h.obj[o].refs = 0 -> [h EXCEPT !.fault = TRUE]
    [] o # None /\ h.obj[o].refs = 1 -> object_free(h, o)
    [] OTHER -> [h EXCEPT !.obj[o].refs = @ - 1]
addref(h, o) == [h EXCEPT !.obj[o].refs = @ + 1, !.fault = @ \/ h.obj[o].refs = 0]

\* A variable of the script is assigned a reference.
Assigned(h, s, o) == release([h EXCEPT !.var[s] = o], h.var[s])
BodyAssigned(h, b) == bobj_release([h EXCEPT !.bvar = b], h.bvar)
-----------------------------------------------------------------------------
(* Chains. *)

\* The messages from m on, as message->parent links them.
RECURSIVE Messages(_, _)
Messages(h, m) == IF m = None THEN <<>> ELSE <<m>> \o (IF h.msg[m].live THEN Messages(h, h.msg[m].parent) ELSE <<>>)
\* The objects from o on, as object->parent links them.
RECURSIVE Objects(_, _)
Objects(h, o) == IF o = None THEN <<>> ELSE <<o>> \o Objects(h, h.obj[o].parent)

\* Following a chain touches every message in it.
Touched(h, m) == [h EXCEPT !.fault = @ \/ \E i \in DOMAIN Messages(h, m) : ~h.msg[Messages(h, m)[i]].live]

\* What a reader of the chain sees.
View(h, o) ==
  IF o = None THEN <<>>
  ELSE [i \in DOMAIN Messages(h, h.obj[o].msg) |->
          LET m == h.msg[Messages(h, h.obj[o].msg)[i]]
          IN [head |-> m.head, data |-> IF m.live THEN h.body[m.body].data ELSE <<>>]]

\* php_http_message_body_init(), and a message with that body on top of the
\* messages from parent on, php_http_message_init().
BodyAt(h, b, data) == [h EXCEPT !.body[b] = [refs |-> 1, data |-> data]]
MessageAt(h, m, b, x, parent) ==
  [h EXCEPT !.msg[m] = [live |-> TRUE, head |-> x.head, length |-> x.length, original |-> x.original,
                        parent |-> parent, body |-> b]]
message_init(h, b, x, parent) == [h |-> MessageAt(h, NewMessageId(h), b, x, parent), top |-> NewMessageId(h)]

\* A chain of new messages, the first of xs on top: the last is made first.
RECURSIVE MakeChain(_, _)
MakeChain(h, xs) ==
  IF xs = <<>> THEN [h |-> h, top |-> None]
  ELSE LET below == MakeChain(h, Tail(xs))
           b == NewBodyId(below.h)
       IN message_init(BodyAt(below.h, b, Head(xs).data), b, Head(xs), below.top)

\* Mutant: the copy is another user of the body.
body_copy_shared(h, b) == [h |-> body_addref(h, b), body |-> b]

\* php_http_message_body_copy(), and php_http_message_copy_ex() of the
\* messages ms of a chain: heads, headers and bodies.
body_copy(h, b) == [h |-> BodyAt(h, NewBodyId(h), h.body[b].data), body |-> NewBodyId(h)]
RECURSIVE copy_ex(_, _)
copy_ex(h, ms) ==
  IF ms = <<>> THEN [h |-> h, top |-> None]
  ELSE LET below == copy_ex(h, Tail(ms))
           copy == body_copy(below.h, h.msg[Head(ms)].body)
       IN message_init(copy.h, copy.body, h.msg[Head(ms)], below.top)

\* Mutant: the body object does not count as a user of the body.
BodyObjectNoRef(h, o, b) ==
  [h EXCEPT !.bobj[b] = [refs |-> 1, body |-> h.msg[h.obj[o].msg].body], !.obj[o].body = b]

\* php_http_message_object_init_body_object(), and new_ex()'s body object.
BodyObjectAt(h, o, b) ==
  body_addref([h EXCEPT !.bobj[b] = [refs |-> 1, body |-> h.msg[h.obj[o].msg].body], !.obj[o].body = b],
              h.msg[h.obj[o].msg].body)
init_body_object(h, o) == BodyObjectAt(h, o, NewBodyObjId(h))

\* php_http_message_object_new_ex(): objects for m and all its parents.
RECURSIVE object_new_ex(_, _)
ObjectAt(h, o, m) ==
  LET own == [h EXCEPT !.obj[o] = [FreeObject EXCEPT !.refs = 1, !.msg = m]]
      up  == object_new_ex(own, h.msg[m].parent)
  IN [h |-> init_body_object([up.h EXCEPT !.obj[o].parent = up.top], o), top |-> o]
object_new_ex(h, m) == IF m = None THEN [h |-> h, top |-> None] ELSE ObjectAt(h, NewObjectId(h), m)

\* PHP_HTTP_MESSAGE_OBJECT_INIT(): a message with a body gets a body object.
OBJECT_INIT(h, o) ==
  IF h.obj[o].body = None /\ h.body[h.msg[h.obj[o].msg].body].data # <<>> THEN init_body_object(h, o) ELSE h
-----------------------------------------------------------------------------
(* Texts: sequences of lines and of units of data, each a record with its   *)
(* kind: "request", "response", "length", "original", "blank" or "data".    *)

\* Mutant: only a message without a Content-Length is given one.
update_headers_once(m, data) == IF m.length = NoLength /\ data # <<>> THEN [m EXCEPT !.length = Len(data)] ELSE m

\* php_http_message_update_headers()
update_headers(m, data) ==
  [m EXCEPT !.length = IF data # <<>> THEN Len(data) ELSE IF @ = 0 THEN 0 ELSE NoLength]

\* php_http_message_to_callback() and the line end that serialize() adds.
Written(m, data) ==
  (IF m.head = "none" THEN <<>> ELSE <<[kind |-> m.head]>>)
    \o (IF m.length = NoLength THEN <<>> ELSE <<[kind |-> "length", n |-> m.length]>>)
    \o (IF m.original THEN <<[kind |-> "original"]>> ELSE <<>>)
    \o (IF data = <<>> THEN <<>>
        ELSE <<[kind |-> "blank"]>> \o [i \in DOMAIN data |-> [kind |-> "data", unit |-> data[i]]])
    \o <<[kind |-> "blank"]>>

\* php_http_message_reverse(): the chain is turned around in place.
message_reverse(h, m) ==
  LET arr == Messages(h, m)
      At(x) == CHOOSE i \in DOMAIN arr : arr[i] = x
  IN [h |-> [h EXCEPT !.msg = [x \in Ids |->
               IF x \notin Range(arr) THEN h.msg[x]
               ELSE [h.msg[x] EXCEPT !.parent = IF At(x) = 1 THEN None ELSE arr[At(x) - 1]]]],
      top |-> Last(arr)]

\* php_http_message_serialize(): turned around, every message updated and
\* written, the oldest first, and turned back.
message_serialize(h, m) ==
  LET turned == message_reverse(h, m)
      ms == Messages(turned.h, turned.top)
      Data(x) == h.body[h.msg[x].body].data
      updated == [turned.h EXCEPT !.msg = [x \in Ids |->
                    IF x \in Range(ms) THEN update_headers(turned.h.msg[x], Data(x)) ELSE turned.h.msg[x]]]
  IN [h |-> message_reverse(updated, turned.top).h,
      text |-> FlattenSeq([i \in DOMAIN ms |-> Written(updated.msg[ms[i]], Data(ms[i]))])]

EmptyMessage == [head |-> "none", length |-> NoLength, original |-> FALSE, data |-> <<>>]
Lines(text, kind) == {i \in DOMAIN text : text[i].kind = kind}

\* php_http_message_info_callback(): a message of its own, unless the newest
\* is untyped and without headers.
info_callback(ms, head) ==
  IF Head(ms).head # "none" \/ Head(ms).length # NoLength \/ Head(ms).original
  THEN <<[EmptyMessage EXCEPT !.head = head]>> \o ms
  ELSE <<[Head(ms) EXCEPT !.head = head]>> \o Tail(ms)

\* A header is added to the newest message; as a number, a Content-Length
\* that came twice is an array, which counts as one.
WithHeaders(m, block) ==
  LET length == IF Lines(block, "length") = {} THEN m.length
                ELSE IF m.length # NoLength THEN 1 ELSE block[Min(Lines(block, "length"))].n
  IN [m EXCEPT !.length = length, !.original = @ \/ length # NoLength \/ Lines(block, "original") # {}]

\* The length of the body, of those that are left, in HEADER_DONE: given, none
\* for a request, and all there is for others, BODY_DUMB.
BodyLength(m, left) ==
  IF m.length # NoLength THEN Min({m.length, left}) ELSE IF m.head = "request" THEN 0 ELSE left
Units(lines) == [i \in DOMAIN lines |-> IF lines[i].kind = "data" THEN lines[i].unit ELSE "line"]

\* php_http_message_parser_parse() of a whole text, with CLEANUP and GREEDY:
\* the messages, the newest first; none, after data where a header should be.
RECURSIVE parser_parse(_, _)
parser_parse(ms, text) ==
  LET from  == SelectInSeq(text, LAMBDA line : line.kind # "blank")
      start == SubSeq(text, from, Len(text))
      info  == start[1].kind \in {"request", "response"}
      top   == IF info THEN info_callback(ms, start[1].kind) ELSE ms
      ends  == SelectInSeq(start, LAMBDA line : line.kind = "blank")
      block == SubSeq(start, 1, ends - 1)
      rest  == SubSeq(start, ends + 1, Len(start))
      m     == WithHeaders(Head(top), block)
      n     == BodyLength(m, Len(rest))
  IN IF from = 0 THEN ms
     ELSE IF Lines(block, "data") # {} THEN <<>>
     ELSE parser_parse(<<[m EXCEPT !.data = @ \o Units(SubSeq(rest, 1, n))]>> \o Tail(top),
                       SubSeq(rest, n + 1, Len(rest)))

\* php_http_message_parse(): into a message that is empty at first.
message_parse(text) == parser_parse(<<EmptyMessage>>, text)
-----------------------------------------------------------------------------
(* Calls.  k is who may share with whom afterwards. *)

Call(k, new) == calls' = calls + 1 /\ kin' = k /\ heap' = new
Held(s) == heap.var[s] # None
It(s) == heap.var[s]
Body(s) == heap.msg[heap.obj[It(s)].msg].body

\* x is given something new; x and y are made to share; x is given part of y.
Alone(x) == [y \in Holding |-> IF y = x THEN {x} ELSE kin[y] \ {x}]
Joined(k, x, y) == [z \in Holding |-> IF z \in k[x] \cup k[y] THEN k[x] \cup k[y] ELSE k[z]]
PartOf(x, y) == IF x = y THEN kin ELSE Joined(Alone(x), x, y)

\* __construct() of a text: the last message is on top.  Without a text the
\* message is empty, as with an empty text.
Constructed(h, o, made) ==
  LET own == [made.h EXCEPT !.obj[o] = [FreeObject EXCEPT !.refs = 1, !.msg = made.top]]
      up  == object_new_ex(own, made.h.msg[made.top].parent)
  IN OBJECT_INIT([up.h EXCEPT !.obj[o].parent = up.top], o)
construct ==
  /\ calls = 0
  /\ \E s \in Slots, text \in Texts : \E xs \in {message_parse(text)} :
       /\ ~Held(s) /\ Room(heap, Len(xs))
       /\ \A t \in Slots : t < s => Held(t)
       /\ heap' = [Constructed(heap, NewObjectId(heap), MakeChain(heap, xs)) EXCEPT !.var[s] = NewObjectId(heap)]
  /\ UNCHANGED <<calls, kin, ghosts>>

\* A variable is assigned to another, or unset.
assign ==
  \E s, t \in Slots : s # t /\ It(s) # It(t) /\ Held(s)
    /\ Call(PartOf(t, s), Assigned(addref(heap, It(s)), t, It(s))) /\ UNCHANGED ghosts
unset ==
  /\ \/ \E s \in Slots : Held(s) /\ Call(Alone(s), Assigned(heap, s, None))
     \/ heap.bvar # None /\ Call(Alone(BodyVar), BodyAssigned(heap, None))
  /\ UNCHANGED ghosts

\* clone: a copy of the whole chain.  detach(): of the first message only.
Copied(h, t, ms) ==
  \E made \in {copy_ex(h, ms)} : \E new \in {object_new_ex(made.h, made.top)} :
    Call(Alone(t), Assigned(Touched(new.h, ms[1]), t, new.top))
clone ==
  \E s, t \in Slots :
    /\ Held(s) /\ Room(heap, Len(View(heap, It(s))))
    /\ Copied(heap, t, Messages(heap, heap.obj[It(s)].msg)) /\ UNCHANGED ghosts
detach ==
  \E s, t \in Slots :
    /\ Held(s) /\ Room(heap, 2)
    /\ Copied(OBJECT_INIT(heap, It(s)), t, <<heap.obj[It(s)].msg>>) /\ UNCHANGED ghosts

\* getParentMessage() throws without a parent.
getParentMessage ==
  \E s, t \in Slots :
    /\ Held(s) /\ Room(heap, 1) /\ heap.msg[heap.obj[It(s)].msg].parent # None
    /\ Call(PartOf(t, s),
            Assigned(addref(OBJECT_INIT(heap, It(s)), heap.obj[It(s)].parent), t, heap.obj[It(s)].parent))
    /\ UNCHANGED ghosts

\* Mutant: below the top, only the objects of the saved parents are linked.
PrependedObjects(h, o, p, top) ==
  LET at == IF top THEN Last(Objects(h, o)) ELSE o
      up == [addref(h, p) EXCEPT !.obj[at].parent = p, !.msg[h.obj[at].msg].parent = h.obj[p].msg]
  IN IF top THEN up
     ELSE [up EXCEPT !.obj[p].parent = h.obj[o].parent, !.lost = @ \/ h.obj[p].parent # None]

\* php_http_message_object_prepend(): at the top of the chain, or between
\* the object and its parent; then the parents of what is prepended go.
Prepended(h, o, p, top) ==
  LET at == IF top THEN Last(Objects(h, o)) ELSE o
      saved == h.obj[o].parent
      up == [addref(h, p) EXCEPT !.obj[at].parent = p, !.msg[h.obj[at].msg].parent = h.obj[p].msg]
  IN IF top THEN up
     ELSE [up EXCEPT !.obj[p].parent = saved, !.msg[h.obj[p].msg].parent = h.msg[h.obj[o].msg].parent,
                     !.lost = @ \/ h.obj[p].parent # None]
\* prepend(): refused when the two chains share a message.
Searched(h, o, p) == Touched(Touched(h, h.obj[o].msg), h.obj[p].msg)
prepend ==
  \E s, t \in Slots, top \in BOOLEAN :
    /\ Held(s) /\ Held(t) /\ Room(heap, 2)
    /\ Range(Messages(heap, heap.obj[It(s)].msg)) \cap Range(Messages(heap, heap.obj[It(t)].msg)) = {}
    /\ Call(Joined(kin, s, t),
            Prepended(Searched(OBJECT_INIT(OBJECT_INIT(heap, It(s)), It(t)), It(s), It(t)), It(s), It(t), top))
    /\ UNCHANGED ghosts

\* php_http_message_object_reverse(): the first object gains a reference, the
\* last gives its own to the variable that gets the result.
Reversed(h, os) ==
  [h EXCEPT !.obj = [o \in Ids |-> IF o \notin Range(os) THEN h.obj[o]
                                   ELSE [h.obj[o] EXCEPT
                                           !.parent = LET i == CHOOSE i \in DOMAIN os : os[i] = o
                                                      IN IF i = 1 THEN None ELSE os[i - 1]]],
            !.msg = [m \in Ids |-> IF \A i \in DOMAIN os : h.obj[os[i]].msg # m THEN h.msg[m]
                                   ELSE [h.msg[m] EXCEPT
                                           !.parent = LET i == CHOOSE i \in DOMAIN os : h.obj[os[i]].msg = m
                                                      IN IF i = 1 THEN None ELSE h.obj[os[i - 1]].msg]]]
\* Mutant: the first object, now a parent, gains no reference.
ReversedNoRef(h, t, os) == Assigned(Reversed(h, os), t, Last(os))
ReversedInto(h, t, os) == Assigned(addref(Reversed(h, os), os[1]), t, Last(os))
reverse ==
  \E s, t \in Slots :
    /\ Held(s) /\ Room(heap, 1)
    /\ Call(PartOf(t, s),
            ReversedInto(OBJECT_INIT(Touched(heap, heap.obj[It(s)].msg), It(s)), t, Objects(heap, It(s))))
    /\ UNCHANGED ghosts

\* rewind(), and next(), which goes on to the parent of where it is.
rewind ==
  \E s \in Slots :
    /\ Held(s)
    /\ Call(kin, [release(addref(heap, It(s)), heap.obj[It(s)].iterator) EXCEPT !.obj[It(s)].iterator = It(s)])
    /\ UNCHANGED ghosts
next ==
  \E s \in Slots :
    /\ Held(s) /\ heap.obj[It(s)].iterator # None
    /\ \E up \in {heap.obj[heap.obj[It(s)].iterator].parent} :
         Call(kin, release([(IF up = None THEN heap ELSE addref(heap, up)) EXCEPT !.obj[It(s)].iterator = up],
                           heap.obj[It(s)].iterator))
    /\ UNCHANGED ghosts
-----------------------------------------------------------------------------
(* Bodies. *)

\* new http\Message\Body, in the variable for bodies: the body itself is made
\* when it is first needed, PHP_HTTP_MESSAGE_BODY_OBJECT_INIT().
newBody ==
  /\ Room(heap, 1)
  /\ \E o \in {NewBodyObjId(heap)} :
       Call(Alone(BodyVar), BodyAssigned([heap EXCEPT !.bobj[o] = [refs |-> 1, body |-> None]], o))
  /\ UNCHANGED ghosts
BodyMade(h, o, b) == [h EXCEPT !.body[b] = [refs |-> 1, data |-> <<>>], !.bobj[o].body = b]
BODY_OBJECT_INIT(h, o) == IF h.bobj[o].body = None THEN BodyMade(h, o, NewBodyId(h)) ELSE h

\* getBody()
WithBodyObject(h, o) == IF h.obj[o].body = None THEN init_body_object(h, o) ELSE h
GotBody(h, o) == BodyAssigned([h EXCEPT !.bobj[h.obj[o].body].refs = @ + 1], h.obj[o].body)
getBody ==
  \E s \in Slots :
    /\ Held(s) /\ Room(heap, 1)
    /\ Call(PartOf(BodyVar, s), GotBody(WithBodyObject(heap, It(s)), It(s))) /\ UNCHANGED ghosts

\* php_http_message_object_set_body()
BodySet(h, o, b) ==
  body_addref([body_free(bobj_release([h EXCEPT !.bobj[b].refs = @ + 1], h.obj[o].body),
                         h.msg[h.obj[o].msg].body)
               EXCEPT !.msg[h.obj[o].msg].body = h.bobj[b].body, !.obj[o].body = b], h.bobj[b].body)
setBody ==
  \E s \in Slots :
    /\ Held(s) /\ heap.bvar # None /\ Room(heap, 1)
    /\ Call(Joined(kin, s, BodyVar),
            BodySet(BODY_OBJECT_INIT(OBJECT_INIT(heap, It(s)), heap.bvar), It(s), heap.bvar))
    /\ UNCHANGED ghosts

\* addBody(): what the other body holds, at most a block, is appended.
addBody ==
  \E s \in Slots :
    /\ Held(s) /\ heap.bvar # None /\ Room(heap, 1)
    /\ \E b \in {Body(s)}, c \in {heap.bobj[heap.bvar].body} :
         /\ Len(heap.body[b].data) <= 1
         /\ Call(kin,
                 IF c = None THEN [OBJECT_INIT(heap, It(s)) EXCEPT !.odd = TRUE]
                 ELSE [OBJECT_INIT(heap, It(s)) EXCEPT !.body[b].data = @ \o heap.body[c].data])
    /\ UNCHANGED ghosts

\* append() to the body of the body variable.
Added(h, o, p) == [h EXCEPT !.body[h.bobj[o].body].data = Append(@, p)]
append ==
  /\ heap.bvar # None /\ Room(heap, 1)
  /\ \E h \in {BODY_OBJECT_INIT(heap, heap.bvar)}, p \in Parts :
       /\ Len(h.body[h.bobj[heap.bvar].body].data) <= 1
       /\ Call(kin, Added(h, heap.bvar, p))
  /\ UNCHANGED ghosts
-----------------------------------------------------------------------------
(* Serialized chains.  What reads a text is given what serialize() has just *)
(* given: a text does not change while a script keeps it.                   *)

Text(s) == message_serialize(OBJECT_INIT(heap, It(s)), heap.obj[It(s)].msg)

\* serialize()
serialize ==
  \E s \in Slots :
    Held(s) /\ Room(heap, 1) /\ Call(kin, Touched(Text(s).h, heap.obj[It(s)].msg)) /\ UNCHANGED ghosts

\* unserialize(): the message is replaced, parent and body object are not.
Replaced(h, o, made) ==
  [made.h EXCEPT !.obj[o].msg = made.top,
                 !.odd = \/ h.msg[h.obj[o].msg].parent # None \/ made.h.msg[made.top].parent # None
                         \/ h.obj[o].body # None
                         \/ \E m \in Ids : h.msg[m].parent = h.obj[o].msg]
unserialize ==
  \E s, t \in Slots :
    /\ Held(s) /\ Held(t)
    /\ \E given \in {Text(s)} : \E xs \in {message_parse(given.text)} :
         /\ Room(heap, Len(xs) + 1)
         /\ Call(kin, Replaced(given.h, It(t),
                              MakeChain(message_dtor(given.h, given.h.obj[It(t)].msg),
                                        IF xs = <<>> THEN <<EmptyMessage>> ELSE xs)))
    /\ UNCHANGED ghosts

\* A message constructed from what serialize() gave, or an exception.
reconstruct ==
  \E s, t \in Slots :
    /\ Held(s)
    /\ \E given \in {Text(s)} : \E xs \in {message_parse(given.text)} :
         /\ Room(heap, Len(xs) + 1)
         /\ IF xs = <<>> THEN Call(kin, given.h)
            ELSE Call(Alone(t), Assigned(Constructed(given.h, NewObjectId(given.h), MakeChain(given.h, xs)),
                                         t, NewObjectId(given.h)))
    /\ UNCHANGED ghosts
-----------------------------------------------------------------------------
(* The client's history. *)

\* Mutant: the parent of src is replaced even if dst has none.
RECURSIVE zip_always(_, _, _)
zip_always(h, dst, src) ==
  IF dst = None \/ src = None THEN h
  ELSE zip_always([h EXCEPT !.msg[dst].parent = src, !.msg[src].parent = h.msg[dst].parent],
                  h.msg[dst].parent, h.msg[src].parent)

\* php_http_message_zip(): messages of dst and src take turns, linked in place.
RECURSIVE message_zip(_, _, _)
message_zip(h, dst, src) ==
  IF dst = None \/ src = None THEN h
  ELSE message_zip([h EXCEPT !.msg[dst].parent = src,
                             !.msg[src].parent = IF h.msg[dst].parent = None THEN @ ELSE h.msg[dst].parent],
                   h.msg[dst].parent, h.msg[src].parent)

\* Two sequences taking turns, and what is left of either.
Alternating(xs, ys) ==
  LET n == Min({Len(xs), Len(ys)})
  IN [i \in 1..(2 * n) |-> IF i % 2 = 1 THEN xs[(i + 1) \div 2] ELSE ys[i \div 2]]
       \o SubSeq(xs, n + 1, Len(xs)) \o SubSeq(ys, n + 1, Len(ys))

\* handle_history(): copies of the request's and the response's chain, on top
\* of the history so far.
HistoryOn(h, new) ==
  IF h.history = None THEN [new.h EXCEPT !.history = new.top]
  ELSE release([Prepended(new.h, new.top, h.history, TRUE) EXCEPT !.history = new.top], h.history)
handle_history ==
  \E s, t \in Slots :
    /\ Held(s) /\ Held(t) /\ s # t
    /\ Room(heap, Len(View(heap, It(s))) + Len(View(heap, It(t))))
    /\ \E req \in {copy_ex(heap, Messages(heap, heap.obj[It(s)].msg))} :
       \E res \in {copy_ex(req.h, Messages(heap, heap.obj[It(t)].msg))} :
         Call(kin, HistoryOn(heap, object_new_ex(message_zip(res.h, res.top, req.top), res.top)))
    /\ recorded' = Alternating(View(heap, It(t)), View(heap, It(s))) \o recorded
    /\ UNCHANGED handed

\* getHistory()
getHistory ==
  \E t \in Slots :
    /\ heap.history # None
    /\ Call(PartOf(t, History), Assigned(addref(heap, heap.history), t, heap.history))
    /\ handed' = TRUE /\ UNCHANGED recorded

Next ==
  \/ construct
  \/ /\ calls < MaxCalls /\ ~heap.odd
     /\ \/ assign \/ unset \/ clone \/ detach \/ getParentMessage \/ prepend \/ reverse
        \/ rewind \/ next \/ newBody \/ getBody \/ setBody \/ addBody \/ append
        \/ serialize \/ unserialize \/ reconstruct \/ handle_history \/ getHistory

Spec == Init /\ [][Next]_vars
-----------------------------------------------------------------------------
(* Properties *)

Live(h) == {o \in Ids : h.obj[o].refs > 0}

\* Nothing that was freed is touched, and no count goes below zero: however
\* messages and bodies are shared by calls, none goes while something still
\* uses it (php_http_message_object_free, php_http_message_body_free).  What
\* follows an unserialize() that tears a message out is not covered (odd).
NothingFreedIsUsed == ~heap.fault

\* The chain of messages and the chain of objects are the same, and an
\* object's body object shows the body of its message: count() follows the
\* one, reverse() and getParentMessage() the other.
ChainsAgree ==
  ~heap.odd => \A o \in Live(heap) : LET m == heap.msg[heap.obj[o].msg] IN
     /\ m.parent = IF heap.obj[o].parent = None THEN None ELSE heap.obj[heap.obj[o].parent].msg
     /\ heap.obj[o].body # None => heap.bobj[heap.obj[o].body].body = m.body

\* Every count is the number of references there are: no reference was
\* forgotten, none will be released twice.  A cycle is counted like any other
\* reference, the one of an object that rewind() made its own iterator too.
\* prepend() below the top drops the parents of what it prepends (lost).
Holders(o) ==
  Cardinality({s \in Slots : heap.var[s] = o}) + Cardinality({p \in Ids : heap.obj[p].parent = o})
    + Cardinality({p \in Ids : heap.obj[p].iterator = o}) + (IF heap.history = o THEN 1 ELSE 0)
BodyHolders(b) ==
  Cardinality({m \in Ids : heap.msg[m].body = b}) + Cardinality({o \in Ids : heap.bobj[o].body = b})
BodyObjHolders(b) ==
  Cardinality({o \in Ids : heap.obj[o].body = b}) + (IF heap.bvar = b THEN 1 ELSE 0)
CountsExact ==
  /\ \A o \in Ids : IF heap.lost THEN heap.obj[o].refs >= Holders(o) ELSE heap.obj[o].refs = Holders(o)
  /\ \A b \in Ids : heap.body[b].refs = BodyHolders(b) /\ heap.bobj[b].refs = BodyObjHolders(b)

\* Objects, body objects and bodies that a variable reaches.
Reached(x) ==
  LET top == IF x = History THEN heap.history ELSE IF x = BodyVar THEN None ELSE heap.var[x]
      os  == Range(Objects(heap, top))
      bs  == ({heap.obj[o].body : o \in os} \cup IF x = BodyVar THEN {heap.bvar} ELSE {}) \ {None}
  IN {<<"object", o>> : o \in os} \cup {<<"body object", b>> : b \in bs}
       \cup {<<"body", b>> : b \in ({heap.msg[heap.obj[o].msg].body : o \in os}
                                        \cup {heap.bobj[b].body : b \in bs}) \ {None}}

\* Only what a script made to share is shared: by assigning, by taking a
\* parent, a body or the history out, by setting a body, by prepending.
\* Copies, the history and what is read from a text have objects and bodies
\* of their own, all the way down their chains, so that no change of one is
\* seen in the other (php_http_message_copy_ex, handle_history).
SharedOnlyByKin ==
  ~heap.odd => \A x, y \in Holding : y \notin kin[x] => Reached(x) \cap Reached(y) = {}

\* Until it is handed out, the history shows every request and response as it
\* was when it was recorded, each response before its request, the newest
\* first, whatever has been done to the originals since (handle_history,
\* php_http_message_zip).
HistoryAsRecorded == ~handed => View(heap, heap.history) = recorded

\* What a text tells apart: only the oldest message may be untyped, and then
\* has a body if it is not alone, and only the newest response may do without
\* a body or a Content-Length.
ToldApart(ms) ==
  LET m(i) == heap.msg[ms[i]]
      Bare(i) == heap.body[m(i).body].data = <<>>
  IN \A i \in DOMAIN ms :
       /\ m(i).head = "none" => i = Len(ms) /\ (i > 1 => ~Bare(i))
       /\ m(i).head = "response" => i = 1 \/ ~Bare(i) \/ m(i).length = 0

\* Reading a serialized chain gives that chain, whatever was done to it, in
\* its order and with its bodies, if the text tells its messages apart: no
\* body is cut or runs into the next message, since Content-Length follows the
\* body (php_http_message_serialize, php_http_message_update_headers,
\* php_http_message_parse).
ReadBackAsWritten ==
  ~heap.odd => \A s \in Slots : Held(s) /\ ToldApart(Messages(heap, heap.obj[It(s)].msg)) =>
    LET xs == message_parse(message_serialize(heap, heap.obj[It(s)].msg).text)
    IN [i \in DOMAIN xs |-> [head |-> xs[i].head, data |-> xs[i].data]] = View(heap, It(s))
=============================================================================
