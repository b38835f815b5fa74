------------------------------- MODULE Params -------------------------------
(***************************************************************************)
(* http\Params (php_http_params.c): the parser of "name=value;arg=value,   *)
(* name" texts, the writer that turns the array of parameters back into a  *)
(* text, and the object that holds that array.                             *)
(*                                                                         *)
(* The array maps a name to its "value" (or, for a name that ends in "*",  *)
(* its "*rfc5987*") and its "arguments".  The parser holds pointers into   *)
(* the array, to the value being read (cur) and to the current arguments   *)
(* (args); here they are paths of keys.                                    *)
(***************************************************************************)
EXTENDS ParamStrings

CONSTANT MaxNesting     \* max_input_nesting_level

\* Separators and flags of http\Params, of a query string, of a cookie
\* header and of a Link header.
Default == [param |-> <<",">>, arg |-> <<";">>, val |-> <<"=">>, flags |-> {"ESCAPED", "RFC5987"}]
Query   == [param |-> <<"&">>, arg |-> <<>>, val |-> <<"=">>, flags |-> {"URLENCODED", "DIMENSION"}]
Cookies == [Default EXCEPT !.param = <<>>]
Link    == [Default EXCEPT !.flags = {"ESCAPED", "RFC5988"}]

-----------------------------------------------------------------------------
(* Names and values. *)

\* sanitize_dimension(): a[x][] names a path of keys; [] is the next index of
\* an array that is still empty.  Text that is not closed is dropped, a name
\* without brackets or nested too deep stays a name: no path.
Dimensions(name) ==
  LET close(x, i) == [x EXCEPT !.from = 0,
                               !.path = Append(@, IF i = x.from THEN <<"0">>
                                                  ELSE SubSeq(name, x.from, i - 1))]
      next(y, i) ==
        LET x == IF y.from = 0 THEN [y EXCEPT !.from = i] ELSE y
        IN CASE name[i] = "[" /\ i = x.from -> [x EXCEPT !.from = i + 1, !.level = @ + 1]
             [] name[i] = "[" /\ i # x.from -> [close(x, i) EXCEPT !.level = @ + 1]
             [] name[i] = "]"               -> close(x, i)
             [] OTHER                       -> x
      end == FoldLeft(next, [from |-> 0, path |-> <<>>, level |-> 0], [i \in DOMAIN name |-> i])
  IN IF end.level > MaxNesting THEN <<>> ELSE end.path

\* sanitize_key(): trimmed, unescaped, without the star, decoded.
Unescaped(m, s) == IF "ESCAPED" \in m.flags THEN sanitize_escaped(s) ELSE s
Decoded(m, s) == IF "URLENCODED" \in m.flags THEN UrlDecode(s) ELSE s
Fatal(m, s) == "ESCAPED" \in m.flags /\ LoneQuote(s)
KeyOf(m, k, fatal) ==
  IF k # <<>> /\ "RFC5987" \in m.flags /\ Last(k) = "*"
  THEN [name |-> Decoded(m, Front(k)), star |-> TRUE, fatal |-> fatal]
  ELSE [name |-> Decoded(m, k), star |-> FALSE, fatal |-> fatal]
sanitize_key(m, s) == KeyOf(m, Unescaped(m, Trim(s)), Fatal(m, Trim(s)))

\* sanitize_rfc5988(): the target of a link, without its angle brackets.
sanitize_rfc5988(s) == [name |-> TrimOf(s, {" ", "<", ">"}), star |-> FALSE, fatal |-> FALSE]

\* sanitize_value()
ValueFrom(m, r, e) ==
  LET d == IF r.lang # <<>> THEN UrlDecode(e) ELSE Decoded(m, e)
      u == IF r.latin1 THEN utf8encode(d) ELSE d
  IN [v |-> IF r.lang # <<>> THEN Arr(<<[k |-> r.lang[1], v |-> Str(u)]>>) ELSE Str(u),
      fatal |-> Fatal(m, r.rest)]
Extracted(m, r) == ValueFrom(m, r, Unescaped(m, r.rest))
sanitize_value(m, s, star) ==
  Extracted(m, IF star THEN sanitize_rfc5987(Trim(s)) ELSE [lang |-> <<>>, rest |-> Trim(s), latin1 |-> FALSE])

-----------------------------------------------------------------------------
(* php_http_params_parse() *)

Start(text) ==
  [text |-> text, pos |-> 1, param |-> 0, arg |-> 0, val |-> 0, quotes |-> FALSE, escape |-> FALSE,
   star |-> FALSE, cur |-> <<>>, args |-> <<>>, table |-> Arr(<<>>), fatal |-> FALSE]

\* The loop of merge_param() over the keys of a name that the table has
\* already: down the arrays that exist, then a new entry.  Index 0 is
\* appended, because [] and [0] look the same.
RECURSIVE Merge(_, _, _)
Merge(table, at, rest) ==
  LET old == At(table, at)
      k   == Head(rest)
      arr == IF IsArr(old) THEN old.arr ELSE <<>>
      new == IF k = <<"0">> THEN NextIndex(arr) ELSE k
  IN CASE rest = <<>> -> [table |-> table, at |-> at]
       [] rest # <<>> /\ Len(rest) > 1 /\ IsArr(old) /\ Has(arr, k) -> Merge(table, Append(at, k), Tail(rest))
       [] OTHER -> [table |-> Replaced(table, at, Arr(Put(arr, new, Nest(Tail(rest))))),
                    at |-> Append(at, new)]

merge_param(st, path) ==
  LET k == path[1]
      m == IF Has(st.table.arr, k) THEN Merge(st.table, <<k, VALUE>>, Tail(path))
           ELSE [table |-> Replaced(st.table, <<k>>, Arr(<<[k |-> VALUE, v |-> Nest(Tail(path))],
                                                           [k |-> ARGUMENTS, v |-> Arr(<<>>)]>>)),
                 at |-> <<k>>]
  IN [st EXCEPT !.table = m.table, !.cur = FirstLeaf(At(m.table, m.at), m.at),
                !.args = IF Has(st.table.arr, k) THEN @ ELSE <<k, ARGUMENTS>>]

\* push_param() for a value: it goes where the last name was filed.
push_value(st, m, s) ==
  IF st.cur = <<>> THEN st
  ELSE IF s = <<>> THEN [st EXCEPT !.table = Replaced(@, st.cur, Str(<<>>)), !.star = FALSE]
  ELSE LET v == sanitize_value(m, s, st.star)
       IN [st EXCEPT !.table = Replaced(@, st.cur, v.v), !.star = FALSE, !.fatal = @ \/ v.fatal]

\* push_param() for an argument.  A blank name files nothing; the arguments
\* of a parameter that was never filed do not exist.
FileArg(st, path, star) ==
  [st EXCEPT !.cur = path, !.star = star,
             !.table = Replaced(IF star /\ ~Has(At(@, st.args).arr, RFC5987)
                                THEN Replaced(@, Append(st.args, RFC5987), Arr(<<>>)) ELSE @, path, True)]
ArgNamed(st, m, key) ==
  IF \/ key.name = <<>> \/ key.fatal
     \/ "DIMENSION" \in m.flags /\ Dimensions(key.name) # <<>>
  THEN [st EXCEPT !.star = key.star, !.fatal = @ \/ key.fatal]
  ELSE IF st.args = <<>> THEN [st EXCEPT !.fatal = TRUE]
  ELSE FileArg(st, st.args \o (IF key.star THEN <<RFC5987, key.name>> ELSE <<key.name>>), key.star)
push_arg(st, m, s) == IF s = <<>> THEN st ELSE ArgNamed(st, m, sanitize_key(m, s))

\* push_param() for a parameter: it replaces one of the same name.
FileParam(st, name, at) ==
  [st EXCEPT !.table = Replaced(@, <<name>>, Arr(<<[k |-> at, v |-> True], [k |-> ARGUMENTS, v |-> Arr(<<>>)]>>)),
             !.cur = <<name, at>>, !.args = <<name, ARGUMENTS>>]
Filed(st, key, dim) ==
  CASE dim # <<>>                      -> merge_param(st, dim)
    [] dim = <<>> /\ key.name = <<>>   -> st
    [] OTHER -> FileParam(st, key.name, IF key.star THEN RFC5987 ELSE VALUE)
ParamNamed(st, m, key) ==
  Filed([st EXCEPT !.star = IF "RFC5988" \in m.flags THEN @ ELSE key.star, !.fatal = @ \/ key.fatal], key,
        IF "DIMENSION" \in m.flags THEN Dimensions(key.name) ELSE <<>>)
push_name(st, m, s) ==
  IF s = <<>> THEN st
  ELSE ParamNamed(st, m, IF "RFC5988" \in m.flags THEN sanitize_rfc5988(s) ELSE sanitize_key(m, s))

push_param(st, m) ==
  CASE st.val # 0                              -> push_value(st, m, SubSeq(st.text, st.val, st.pos - 1))
    [] st.val = 0 /\ st.arg # 0                -> push_arg(st, m, SubSeq(st.text, st.arg, st.pos - 1))
    [] st.val = 0 /\ st.arg = 0 /\ st.param # 0 -> push_name(st, m, SubSeq(st.text, st.param, st.pos - 1))
    [] OTHER                                   -> st

\* check_sep() and skip_sep(): nothing separates inside quotes.
check_sep(st, seps) ==
  ~st.quotes /\ ~st.escape /\ st.pos <= Len(st.text) /\ st.text[st.pos] \in Range(seps)
skip_sep(st, skip, seps) ==
  LET from == st.pos + skip
      stop == {i \in from..Len(st.text) : st.quotes \/ st.escape \/ st.text[i] \notin Range(seps)}
  IN IF stop = {} THEN Len(st.text) + 1 ELSE Min(stop)

\* Variant: a quote behind a backslash closes too.
QuotingDeaf(st, m) ==
  IF "RFC5988" \in m.flags /\ st.arg = 0
  THEN [st EXCEPT !.quotes = CASE st.text[st.pos] = "<" -> TRUE [] st.text[st.pos] = ">" -> FALSE [] OTHER -> @]
  ELSE [st EXCEPT !.quotes = @ # (st.text[st.pos] = Quote)]

\* What the current character says of quotes and escapes.
Quoting(st, m) ==
  LET c == st.text[st.pos]
  IN CASE "RFC5988" \in m.flags /\ st.arg = 0 ->
            [st EXCEPT !.quotes = IF c = "<" THEN TRUE ELSE IF c = ">" THEN FALSE ELSE @]
       [] ~("RFC5988" \in m.flags /\ st.arg = 0) /\ c = Quote /\ ~st.escape -> [st EXCEPT !.quotes = ~@]
       [] OTHER -> [st EXCEPT !.escape = c = Backslash]

\* The steps of the loop.  The first name starts behind the separators the
\* text starts with, and its first character is passed over unseen.
AllSeps(m) == m.param \o m.arg \o m.val
FirstName(st, p) == [st EXCEPT !.param = p, !.pos = Min({p, Len(st.text)}) + 1]
NewParam(st, p) == [st EXCEPT !.pos = p, !.param = p, !.arg = 0, !.val = 0]
NewArg(st, p) == [st EXCEPT !.pos = p, !.arg = p, !.val = 0]
NewValue(st, p) == [st EXCEPT !.pos = p, !.val = p]
Separator(st, m) == CASE check_sep(st, m.param) -> "param"
                      [] ~check_sep(st, m.param) /\ check_sep(st, m.arg) -> "arg"
                      [] ~check_sep(st, m.param \o m.arg) /\ check_sep(st, m.val) /\ st.val = 0 -> "val"
                      [] OTHER -> "none"
Pushed(st, new, m, sep) ==
  CASE sep = "param" -> NewParam(new, skip_sep(st, 1, AllSeps(m)))
    [] sep = "arg"   -> NewArg(new, skip_sep(st, 1, m.arg \o m.val))
    [] sep = "val"   -> NewValue(new, skip_sep(st, 1, m.val))
Seen(st, m, sep) ==
  CASE st.param = 0 -> FirstName(st, skip_sep(st, 0, AllSeps(m)))
    [] st.param # 0 /\ sep # "none" -> Pushed(st, push_param(st, m), m, sep)
    [] OTHER -> [st EXCEPT !.pos = @ + 1]
Looked(st, m) == Seen(st, m, Separator(st, m))
Round(st, m) == Looked(Quoting(st, m), m)

params_parse(m, text) ==
  push_param(FoldLeft(LAMBDA st, i : IF st.pos <= Len(text) /\ ~st.fatal THEN Round(st, m) ELSE st,
                      Start(text), [i \in DOMAIN text |-> i]), m)
-----------------------------------------------------------------------------
(* php_http_params_to_string() *)

\* prepare_key() and prepare_value()
prepare_key(flags, k) ==
  LET u == IF "URLENCODED" \in flags THEN UrlEncode(k) ELSE k
  IN IF "ESCAPED" \in flags /\ "RFC5988" \notin flags THEN quote_string(u, FALSE) ELSE u
prepare_value(flags, s) ==
  LET u == IF "URLENCODED" \in flags THEN UrlEncode(s) ELSE s
  IN IF "ESCAPED" \in flags THEN quote_string(u, FALSE) ELSE u

\* The separator the writer uses is the first of those the parser knows.
First(seps) == IF seps = <<>> THEN <<>> ELSE <<seps[1]>>

\* shift_key(), shift_rfc5988(): a separator goes before all but the first.
Separated(buf, sep) == IF buf = <<>> THEN buf ELSE buf \o sep
shift_key(buf, k, sep, m) == Separated(buf, sep) \o prepare_key(m.flags, k)
shift_rfc5988(buf, k, sep, m) == Separated(buf, sep) \o <<"<">> \o prepare_key(m.flags, k) \o <<">">>

\* shift_rfc5987(): the first language, always as UTF-8.
shift_rfc5987(buf, v, m) ==
  IF v.arr = <<>> THEN buf
  ELSE buf \o <<"*">> \o First(m.val) \o <<"UTF-8", "'">> \o v.arr[1].k \o <<"'">>
           \o prepare_value(m.flags \cup {"URLENCODED"}, Text(v.arr[1].v))

\* shift_val(): a value that is TRUE is not written, FALSE is 0.
shift_val(buf, v, m) ==
  CASE v = True  -> buf
    [] v = False -> buf \o First(m.val) \o <<"0">>
    [] OTHER     -> buf \o First(m.val) \o prepare_value(m.flags, Text(v))

\* shift_rfc5988_val(): some arguments of a link are always quoted.
MustQuote == {<<"rel">>, <<"title">>, <<"anchor">>}
shift_rfc5988_val(buf, v, m) == buf \o First(m.val) \o quote_string(Text(v), TRUE)

\* shift_arg(): an array is a list of arguments of its own, under its key
\* unless it is the *rfc5987* group.
RECURSIVE shift_arg(_, _, _, _)
shift_arg(buf, k, v, m) ==
  LET sep == First(m.arg)
      sub(b, e) == IF k = RFC5987 /\ IsArr(e.v) THEN shift_rfc5987(shift_key(b, e.k, sep, m), e.v, m)
                   ELSE shift_arg(b, e.k, e.v, m)
      head == IF IsArr(v) /\ k = RFC5987 THEN buf ELSE shift_key(buf, k, sep, m)
  IN CASE IsArr(v) -> FoldLeft(sub, head, v.arr)
       [] ~IsArr(v) /\ "RFC5988" \in m.flags /\ k \in MustQuote -> shift_rfc5988_val(head, v, m)
       [] OTHER -> shift_val(head, v, m)

\* prepare_dimension(): an array as k[x][y]=v.
RECURSIVE prepare_dimension(_, _, _, _)
prepare_dimension(buf, k, v, m) ==
  FoldLeft(LAMBDA b, e :
             LET key == k \o <<"[">> \o e.k \o <<"]">>
             IN IF IsArr(e.v) THEN prepare_dimension(b, key, e.v, m)
                ELSE shift_val(shift_key(b, key, First(m.param), m), Str(Text(e.v)), m),
           buf, v.arr)

\* shift_param()
shift_param(buf, k, v, m, rfc5987) ==
  CASE IsArr(v) /\ "DIMENSION" \in m.flags -> prepare_dimension(buf, k, v, m)
    [] IsArr(v) /\ "DIMENSION" \notin m.flags /\ rfc5987 ->
         shift_rfc5987(shift_key(buf, k, First(m.param), m), v, m)
    [] IsArr(v) /\ "DIMENSION" \notin m.flags /\ ~rfc5987 -> shift_arg(buf, k, v, m)
    [] ~IsArr(v) /\ "RFC5988" \in m.flags -> shift_val(shift_rfc5988(buf, k, First(m.param), m), v, m)
    [] OTHER -> shift_val(shift_key(buf, k, First(m.param), m), v, m)

\* One parameter.  Once an *rfc5987* value was met, rfc5987 stays set.
WriteParam(x, e, m) ==
  LET z     == e.v
      has(k) == IsArr(z) /\ Has(z.arr, k)
      rfc   == x.rfc5987 \/ (has(RFC5987) /\ ~has(VALUE))
      v     == IF has(VALUE) THEN Find(z.arr, VALUE) ELSE IF has(RFC5987) THEN Find(z.arr, RFC5987) ELSE z
      args  == IF has(ARGUMENTS) THEN Find(z.arr, ARGUMENTS)
               ELSE IF has(VALUE) \/ has(RFC5987) THEN Arr(Del(z.arr, VALUE)) ELSE Arr(<<>>)
      buf   == shift_param(x.buf, e.k, v, m, rfc)
  IN [rfc5987 |-> rfc,
      buf |-> IF IsArr(z) /\ IsArr(args)
              THEN FoldLeft(LAMBDA b, a : shift_arg(b, a.k, a.v, m), buf, args.arr) ELSE buf]

params_to_string(m, entries) ==
  FoldLeft(LAMBDA x, e : WriteParam(x, e, m), [buf |-> <<>>, rfc5987 |-> FALSE], entries).buf
=============================================================================
