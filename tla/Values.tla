------------------------------- MODULE Values -------------------------------
(***************************************************************************)
(* The value objects: http\Params (kind "params", and "link" with the      *)
(* flags for Link headers), http\QueryString ("query") and http\Cookie     *)
(* ("cookie"), each under a sequence of calls.                             *)
(*                                                                         *)
(* obj is the object's array or list.  The last call, the argument of the  *)
(* last set() and obj before it are kept for the properties.               *)
(***************************************************************************)
EXTENDS QueryString, CookieList, FiniteSets

CONSTANTS
  Kinds,        \* the kinds of objects
  Texts,        \* Texts[kind]: strings to construct an object from
  Arrays,       \* Arrays[kind]: arrays to construct one from
  Names,        \* Names[kind]: names used by calls
  Operands,     \* Operands[kind]: arrays or values used by calls
  Allowed,      \* the allowed extras of a cookie
  Budget        \* calls after construction, plus the characters of the text

VARIABLES kind, obj, text, last, arg, prior, spent

vars == <<kind, obj, text, last, arg, prior, spent>>

ModeOf(k) == IF k = "link" THEN Link ELSE Default

\* The array or list a string stands for, and the string for one.
FromString(k, t) ==
  CASE k = "query"  -> querystring_set(<<>>, querystring_parse(t), FALSE)
    [] k = "cookie" -> cookie_list_parse(t, FALSE, Allowed)
    [] OTHER        -> params_parse(ModeOf(k), t).table.arr
AsString(k, o) ==
  CASE k = "query"  -> querystring_str(o)
    [] k = "cookie" -> cookie_list_to_string(o)
    [] OTHER        -> params_to_string(ModeOf(k), o)

\* Strings the parser does not survive are not read: see Params.
Survives(k, t) == ~params_parse(CASE k = "query" -> Query [] k = "cookie" -> Cookies
                                  [] OTHER -> ModeOf(k), t).fatal

Call(name, a, new) ==
  /\ spent < Budget
  /\ spent' = spent + 1
  /\ last' = name /\ arg' = (IF name = "set" THEN a ELSE <<>>) /\ prior' = obj /\ obj' = new
  /\ UNCHANGED <<kind, text>>

Init ==
  /\ kind \in Kinds
  /\ obj = IF kind = "cookie" THEN NoCookies ELSE <<>>
  /\ text = <<>> /\ last = "new" /\ arg = <<>> /\ prior = obj /\ spent = 0

\* __construct() from a string.
construct ==
  /\ last = "new"
  /\ \E t \in Texts[kind] :
       /\ Survives(kind, t)
       /\ obj' = FromString(kind, t) /\ text' = t /\ spent' = Len(t)
  /\ last' = "construct" /\ arg' = <<>> /\ prior' = obj
  /\ UNCHANGED kind

\* __construct() from an array.
constructArray ==
  /\ last = "new"
  /\ \E a \in Arrays[kind] :
       obj' = CASE kind = "query"  -> querystring_set(<<>>, a, FALSE)
                [] kind = "cookie" -> cookie_list_from_struct(a)
                [] OTHER           -> a
  /\ last' = "array" /\ arg' = <<>> /\ prior' = obj
  /\ UNCHANGED <<kind, text, spent>>

\* toString(), and a new object constructed from that string; for a query
\* also serialize() and unserialize().
reparse ==
  /\ last \notin {"new", "reparse"}
  /\ \E t \in {AsString(kind, obj)} :
       /\ Survives(kind, t)
       /\ text' = t /\ obj' = FromString(kind, t)
  /\ last' = "reparse" /\ arg' = <<>> /\ prior' = obj
  /\ UNCHANGED <<kind, spent>>

-----------------------------------------------------------------------------
(* http\Params *)

\* offsetSet() of a value, which keeps the arguments, and of an array, which
\* is joined to the parameter; without a name the value is the name.
WithValue(n, v) ==
  Put(obj, n, Arr(Put(IF Has(obj, n) THEN Find(obj, n).arr ELSE <<>>, VALUE, v)))
Joined(n, v) ==
  IF Has(obj, n) THEN Put(obj, n, Arr(FoldLeft(LAMBDA x, e : Put(x, e.k, e.v), Find(obj, n).arr, v.arr)))
  ELSE Put(obj, n, v)
paramsOffsetSet ==
  /\ kind \in {"params", "link"}
  /\ \E n \in Names[kind] \cup {<<>>}, v \in Operands[kind] :
       /\ n = <<>> => ~IsArr(v)
       /\ Call("offsetSet", v, CASE n = <<>> -> Put(obj, Text(v), Arr(<<[k |-> VALUE, v |-> True]>>))
                                 [] n # <<>> /\ IsArr(v)  -> Joined(n, v)
                                 [] n # <<>> /\ ~IsArr(v) -> WithValue(n, v))

\* offsetUnset()
paramsOffsetUnset ==
  /\ kind \in {"params", "link"}
  /\ \E n \in Names[kind] : Call("offsetUnset", n, Del(obj, n))

-----------------------------------------------------------------------------
(* http\QueryString *)

\* set(), and mod(), which does the same to a clone.
set ==
  /\ kind = "query"
  /\ \E p \in Operands[kind] : Call("set", p, querystring_set(obj, p, TRUE))

\* offsetSet(): unset first, else QS_MERGE would merge arrays.
queryOffsetSet ==
  /\ kind = "query"
  /\ \E n \in Names[kind], v \in {p[1].v : p \in Operands[kind]} :
       Call("offsetSet", v, querystring_set(querystring_set(obj, <<[k |-> n, v |-> Null]>>, TRUE),
                                            <<[k |-> n, v |-> v]>>, TRUE))

\* offsetUnset(), and get() with $delete.
queryOffsetUnset ==
  /\ kind = "query"
  /\ \E n \in Names[kind] : Call("offsetUnset", n, querystring_set(obj, <<[k |-> n, v |-> Null]>>, TRUE))

\* toString() of a query changes the query it writes.
queryToString == kind = "query" /\ Call("toString", <<>>, querystring_written(obj))

-----------------------------------------------------------------------------
(* http\Cookie *)

\* setCookie(), addCookie(): NULL deletes.  setExtra(), addExtra().
setCookie ==
  /\ kind = "cookie"
  /\ \E n \in Names[kind], v \in Operands[kind] :
       Call("setCookie", v, [obj EXCEPT !.cookies = IF v = Null THEN Del(@, n) ELSE Put(@, n, v)])
setExtra ==
  /\ kind = "cookie"
  /\ \E n \in Range(Allowed), v \in Operands[kind] :
       Call("setExtra", v, [obj EXCEPT !.extras = IF v = Null THEN Del(@, n) ELSE Put(@, n, v)])

\* setCookies(), setExtras() replace all; addCookies(), addExtras() skip an
\* index and append to a value that is there, which becomes an array.
Appended(entries, e) ==
  Put(entries, e.k,
      IF ~Has(entries, e.k) THEN e.v
      ELSE LET old == Find(entries, e.k)
               arr == IF IsArr(old) THEN old.arr ELSE <<[k |-> <<"0">>, v |-> old]>>
           IN Arr(Append(arr, [k |-> NextIndex(arr), v |-> e.v])))
SetAll(f) ==
  /\ kind = "cookie"
  /\ \E n \in Names[kind] \cup {<<>>}, join \in BOOLEAN :
       LET new == IF n = <<>> THEN <<>> ELSE <<[k |-> n, v |-> Str(n)]>>
       IN Call("setCookies", new, [obj EXCEPT ![f] =
                 IF join THEN FoldLeft(Appended, @, SelectSeq(new, LAMBDA e : IndexOf(e.k) = -1)) ELSE new])
setCookies == SetAll("cookies")
setExtras  == SetAll("extras")

SetAttribute(f, values) ==
  /\ kind = "cookie"
  /\ \E v \in values : Call("setAttribute", v, [obj EXCEPT ![f] = v])
setDomain  == SetAttribute("domain", {v.str : v \in Operands[kind] \ {Null}})
setPath    == SetAttribute("path", {v.str : v \in Operands[kind] \ {Null}})
setExpires == SetAttribute("expires", {-1, 0, 1})
setMaxAge  == SetAttribute("maxage", {-1, 0, 9})
setFlags   == SetAttribute("flags", SUBSET {"secure", "httpOnly"})

Next == \/ construct \/ constructArray \/ reparse
        \/ paramsOffsetSet \/ paramsOffsetUnset
        \/ set \/ queryOffsetSet \/ queryOffsetUnset \/ queryToString
        \/ setCookie \/ setExtra \/ setCookies \/ setExtras
        \/ setDomain \/ setPath \/ setExpires \/ setMaxAge \/ setFlags

Spec == Init /\ [][Next]_vars
-----------------------------------------------------------------------------
(* What a parameter text says, piece by piece, without a parser. *)

\* A character separates unless a quote is open before it; a quote behind a
\* backslash neither opens nor closes.
Quotes(s, i) == {j \in 1..(i - 1) : s[j] = Quote /\ (j = 1 \/ s[j - 1] # Backslash)}
Separates(s, i, seps) == s[i] \in seps /\ Cardinality(Quotes(s, i)) % 2 = 0
Split(s, seps) ==
  LET cuts == SetToSortSeq({0, Len(s) + 1} \cup {i \in DOMAIN s : Separates(s, i, seps)}, LAMBDA a, b : a < b)
  IN SelectSeq([n \in 1..(Len(cuts) - 1) |-> SubSeq(s, cuts[n] + 1, cuts[n + 1] - 1)], LAMBDA x : x # <<>>)
StripLeft(s, seps) ==
  LET kept == {i \in DOMAIN s : s[i] \notin seps} IN IF kept = {} THEN <<>> ELSE SubSeq(s, Min(kept), Len(s))

\* Name and value of one piece.
NameOf(s) == sanitize_key(Default, LET e == {i \in DOMAIN s : Separates(s, i, {"="})}
                                   IN IF e = {} THEN s ELSE SubSeq(s, 1, Min(e) - 1))
ValueOf(s) ==
  LET e == {i \in DOMAIN s : Separates(s, i, {"="})}
      v == StripLeft(SubSeq(s, Min(e), Len(s)), {"="})
  IN IF e = {} THEN True ELSE IF v = <<>> THEN Str(<<>>) ELSE sanitize_value(Default, v, NameOf(s).star).v

\* The pieces of a text, and of a parameter: itself and its arguments.
ParamsIn(t) == SelectSeq([i \in DOMAIN Split(t, {","}) |-> StripLeft(Split(t, {","})[i], {";", "="})],
                         LAMBDA x : x # <<>>)
PiecesIn(p) == SelectSeq([i \in DOMAIN Split(p, {";"}) |-> StripLeft(Split(p, {";"})[i], {"="})],
                         LAMBDA x : x # <<>>)

ArgumentsIn(pieces) ==
  FoldLeft(LAMBDA args, s :
             IF NameOf(s).star
             THEN Put(args, RFC5987, Arr(Put(IF Has(args, RFC5987) THEN Find(args, RFC5987).arr ELSE <<>>,
                                             NameOf(s).name, ValueOf(s))))
             ELSE Put(args, NameOf(s).name, ValueOf(s)), <<>>, Tail(pieces))
Meaning(t) ==
  FoldLeft(LAMBDA table, p :
             LET pieces == PiecesIn(p)
             IN Put(table, NameOf(pieces[1]).name,
                    Arr(<<[k |-> IF NameOf(pieces[1]).star THEN RFC5987 ELSE VALUE, v |-> ValueOf(pieces[1])],
                          [k |-> ARGUMENTS, v |-> Arr(ArgumentsIn(pieces))]>>)), <<>>, ParamsIn(t))

\* Texts whose meaning is not in doubt: every piece has a name, no two
\* backslashes meet, and the text does not start with a separator.
Clear(t) ==
  /\ \A i \in 2..Len(t) : t[i - 1] = Backslash => t[i] # Backslash
  /\ t # <<>> => t[1] \notin {",", ";", "="}
  /\ \A p \in Range(ParamsIn(t)) : \A s \in Range(PiecesIn(p)) : NameOf(s).name # <<>>

-----------------------------------------------------------------------------
(* Properties *)

\* http\Params reads from a text what the text says: separators inside quotes
\* do not separate, an escaped quote does not end them, runs of separators
\* count once, every value belongs to the name before it
\* (php_http_params_parse, push_param, skip_sep).
ParsedAsWritten == (kind = "params" /\ last = "construct" /\ Clear(text)) => obj = Meaning(text)

\* Arrays the writer has a text for.  In a query, a nested array uses none of
\* the parser's own names and has index 0 before any other index.
RECURSIVE Strings(_)
Strings(v) == CASE IsStr(v) -> {v.str}
                [] IsArr(v) -> UNION {{v.arr[i].k} \cup Strings(v.arr[i].v) : i \in DOMAIN v.arr}
                [] OTHER -> {}
RECURSIVE Writable(_)
Writable(v) ==
  IsArr(v) => \A i \in DOMAIN v.arr :
     /\ v.arr[i].k \notin {VALUE, ARGUMENTS, RFC5987} /\ Writable(v.arr[i].v)
     /\ v.arr[i].k = <<"0">> => \A j \in 1..(i - 1) : IndexOf(v.arr[j].k) = -1
TrailingBackslash(s) == s # <<>> /\ Last(s) = Backslash
\* A parameter as the parser makes them, whose value was read as what its
\* name announced.
Parsed(p) ==
  /\ Len(p.arr) = 2 /\ p.arr[1].k \in {VALUE, RFC5987} /\ p.arr[2].k = ARGUMENTS
  /\ (p.arr[1].k = RFC5987) = IsArr(p.arr[1].v)
  /\ \A i \in DOMAIN p.arr[2].v.arr :
       LET a == p.arr[2].v.arr[i] IN IF a.k = RFC5987 THEN \A j \in DOMAIN a.v.arr : IsArr(a.v.arr[j].v)
                                     ELSE ~IsArr(a.v)
Faithful(k, o) ==
  CASE k = "query" -> \A i \in DOMAIN Visible(o) : Writable(Visible(o)[i].v)
    [] k = "cookie" ->
         /\ o.cookies = <<>> => o.extras = <<>> \/ o.domain # <<>> \/ o.path # <<>> \/ o.expires >= 0 \/ o.maxage >= 0
         /\ \A i \in DOMAIN o.cookies : ~IsExtra(o.cookies[i].k, Allowed) /\ ~IsArr(o.cookies[i].v)
         /\ \A i \in DOMAIN o.extras : o.extras[i].k \in Range(Allowed) /\ ~IsArr(o.extras[i].v)
         /\ \A s \in {o.path, o.domain} : Range(s) \cap ({";"} \cup Blank) = {}
    [] OTHER -> /\ \A s \in Strings(Arr(o)) : ~TrailingBackslash(s) /\ (s # <<>> => Last(s) # "*")
                /\ \A i \in DOMAIN o : Parsed(o[i].v) /\ (k = "link" => o[i].v.arr[1].v = True)

\* Writing an object to a string and reading that string gives the object
\* back: quoting, escaping, encoding, languages, dimensions and attributes
\* survive (php_http_params_to_string, php_http_querystring_update,
\* php_http_cookie_list_to_string and the parsers).
WrittenIsReadBack ==
  (last = "reparse" /\ Faithful(kind, prior)) =>
    obj = IF kind = "query" THEN Filtered(Visible(prior)) ELSE prior

\* The leaves of a nested array, by path.
RECURSIVE Leaves(_, _)
Leaves(entries, path) ==
  UNION {IF IsArr(e.v) THEN Leaves(e.v.arr, Append(path, e.k)) ELSE {<<Append(path, e.k), e.v>>} :
         e \in Range(entries)}
\* The leaves of q as p finds them: a value that becomes an array is its
\* first entry.  And the leaves after p is merged into q: those of p, and
\* those of q that p says nothing about.
FoundLeaves(q, p) ==
  {<<IF \E n \in Leaves(p, <<>>) : IsStrictPrefix(l[1], n[1]) THEN Append(l[1], <<"0">>) ELSE l[1], l[2]>> :
     l \in Leaves(q, <<>>)}
MergedLeaves(q, p) ==
  {l \in Leaves(p, <<>>) : l[2] # Null} \cup
  {l \in FoundLeaves(q, p) : ~\E n \in Leaves(p, <<>>) : IsPrefix(n[1], l[1])}

\* Setting parameters of a query merges them: what is set is read back, NULL
\* deletes, nothing else changes (php_http_querystring_update).  Setting what
\* is set already is left out: the code deletes it.
UpdateIsMerge ==
  (kind = "query" /\ last = "set" /\ Leaves(arg, <<>>) \cap FoundLeaves(Visible(prior), arg) = {}) =>
    Leaves(Visible(obj), <<>>) = MergedLeaves(Visible(prior), arg)
=============================================================================
