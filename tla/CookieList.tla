----------------------------- MODULE CookieList -----------------------------
(***************************************************************************)
(* The list behind http\Cookie (php_http_cookie.c): cookies and extra      *)
(* attributes by name, and the standard attributes.                        *)
(***************************************************************************)
EXTENDS Params

\* php_http_cookie_list_init()
NoCookies == [cookies |-> <<>>, extras |-> <<>>, path |-> <<>>, domain |-> <<>>,
              expires |-> -1, maxage |-> -1, flags |-> {}]

\* php_format_date(), php_parse_date() and numbers: a time is one character.
Dates == <<"date0", "date1">>
FormatDate(t) == <<Dates[t + 1]>>
ParseDate(s) == IF \E t \in DOMAIN Dates : s = <<Dates[t]>>
                THEN (CHOOSE t \in DOMAIN Dates : s = <<Dates[t]>>) - 1 ELSE -1
Numeric(s) == s # <<>> /\ s[1] \in Range(Digits)
ToLong(s) == IF Numeric(s) THEN IndexOf(<<s[1]>>) ELSE 0

\* add_entry(): an attribute, an allowed extra or a cookie, whatever the case
\* of its name.  The comparison with an allowed extra stops at the end of the
\* name.
Lower == [A |-> "a", B |-> "b", Path |-> "path", Secure |-> "secure", httponly |-> "httpOnly"]
Folded(s) == [i \in DOMAIN s |-> IF s[i] \in DOMAIN Lower THEN Lower[s[i]] ELSE s[i]]
IsExtra(k, allowed) == \E a \in Range(allowed) : IsPrefix(Folded(k), Folded(a))
StringOf(v) == IF IsArr(v) THEN <<"Array">> ELSE Text(v)
add_entry(list, allowed, raw, k, v) ==
  LET s   == StringOf(v)
      arg == IF raw THEN s ELSE RawUrlDecode(s)
      name == Folded(k)
  IN CASE name = <<"path">>     -> [list EXCEPT !.path = arg]
       [] name = <<"domain">>   -> [list EXCEPT !.domain = arg]
       [] name = <<"expires">>  -> [list EXCEPT !.expires = ParseDate(arg)]
       [] name = <<"max-age">>  -> [list EXCEPT !.maxage = ToLong(s)]
       [] name = <<"secure">>   -> [list EXCEPT !.flags = @ \cup {"secure"}]
       [] name = <<"httpOnly">> -> [list EXCEPT !.flags = @ \cup {"httpOnly"}]
       [] OTHER -> IF IsExtra(k, allowed) THEN [list EXCEPT !.extras = Put(@, k, Str(arg))]
                   ELSE [list EXCEPT !.cookies = Put(@, k, Str(arg))]

\* php_http_cookie_list_parse(): there are no parameter separators, so the
\* first cookie is the parameter and all others are its arguments.
cookie_list_parse(text, raw, allowed) ==
  LET t == params_parse(Cookies, text).table.arr
      param(list, e) ==
        LET l == IF Has(e.v.arr, VALUE) THEN add_entry(list, <<>>, raw, e.k, Find(e.v.arr, VALUE)) ELSE list
        IN FoldLeft(LAMBDA x, a : add_entry(x, allowed, raw, a.k, a.v), l, Find(e.v.arr, ARGUMENTS).arr)
  IN FoldLeft(param, NoCookies, t)

\* php_http_cookie_list_to_string().  Names and values are encoded, path and
\* domain are written as they are.
append_encoded(buf, e) == buf \o UrlEncode(e.k) \o <<"=">> \o UrlEncode(StringOf(e.v)) \o <<";", " ">>
Attribute(name, set, s) == IF set THEN <<name, "=">> \o s \o <<";", " ">> ELSE <<>>
Flag(list, f) == IF f \in list.flags THEN <<f, ";", " ">> ELSE <<>>
cookie_list_to_string(list) ==
  FoldLeft(append_encoded,
           FoldLeft(append_encoded, <<>>, list.cookies)
             \o Attribute("domain", list.domain # <<>>, list.domain)
             \o Attribute("path", list.path # <<>>, list.path)
             \o Attribute("expires", list.expires >= 0, FormatDate(Max({0, list.expires})))
             \o Attribute("max-age", list.maxage >= 0, <<Digits[Max({0, list.maxage}) + 1]>>),
           list.extras)
    \o Flag(list, "secure") \o Flag(list, "httpOnly")

\* php_http_cookie_list_from_struct(): the elements a PHP array has; a time
\* that is not a number is a date, an age that is not a number is ignored.
cookie_list_from_struct(s) ==
  [NoCookies EXCEPT !.cookies = IF "cookies" \in DOMAIN s THEN s.cookies ELSE @,
                    !.extras  = IF "extras" \in DOMAIN s THEN s.extras ELSE @,
                    !.flags   = IF "flags" \in DOMAIN s THEN s.flags ELSE @,
                    !.expires = IF "expires" \notin DOMAIN s THEN @
                               ELSE IF Numeric(s.expires) THEN ToLong(s.expires) ELSE ParseDate(s.expires),
                    !.maxage  = IF "maxage" \in DOMAIN s /\ Numeric(s.maxage) THEN ToLong(s.maxage) ELSE @,
                    !.path    = IF "path" \in DOMAIN s THEN s.path ELSE @,
                    !.domain  = IF "domain" \in DOMAIN s THEN s.domain ELSE @]
=============================================================================
