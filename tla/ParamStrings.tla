---------------------------- MODULE ParamStrings ----------------------------
(***************************************************************************)
(* The strings and arrays that http\Params, http\QueryString and           *)
(* http\Cookie work on, and the conversions of php_http_params.c between a *)
(* name or value and the text that stands for it.                          *)
(*                                                                         *)
(* A string is a sequence of characters.  A character is a TLA+ string: a  *)
(* letter, a separator, a quote, a backslash; a word whose letters never   *)
(* matter ("value", "rel", a charset) and a percent-encoded byte are one   *)
(* character each.  A PHP value is TRUE, FALSE, NULL, a string or an       *)
(* array; an array is the sequence of its entries, and a key is a string   *)
(* (an integer key is its digit).                                          *)
(***************************************************************************)
EXTENDS Integers, Sequences, SequencesExt, FiniteSetsExt

Quote     == "\""
Backslash == "\\"
Blank     == {" ", "NL"}
Digits    == <<"0", "1", "2", "3", "4", "5", "6", "7", "8", "9">>

\* The keys under which php_http_params_parse() files what it reads.
VALUE     == <<"value">>
ARGUMENTS == <<"arguments">>
RFC5987   == <<"*rfc5987*">>

-----------------------------------------------------------------------------
(* PHP values and arrays. *)

True  == [bool |-> TRUE]
False == [bool |-> FALSE]
Null  == [null |-> TRUE]
Str(s) == [str |-> s]
Arr(entries) == [arr |-> entries]

IsArr(v) == "arr" \in DOMAIN v
IsStr(v) == "str" \in DOMAIN v

\* zval_get_string() of a value that is no array.
Text(v) == CASE IsStr(v) -> v.str [] v = True -> <<"1">> [] OTHER -> <<>>

\* zend_symtable_find(), zend_symtable_update(), zend_symtable_del(): an entry
\* that is updated keeps its place, a new one goes to the end.
Has(entries, k) == \E i \in DOMAIN entries : entries[i].k = k
Find(entries, k) == entries[CHOOSE i \in DOMAIN entries : entries[i].k = k].v
Put(entries, k, v) ==
  IF Has(entries, k)
  THEN [i \in DOMAIN entries |-> IF entries[i].k = k THEN [k |-> k, v |-> v] ELSE entries[i]]
  ELSE Append(entries, [k |-> k, v |-> v])
Del(entries, k) == SelectSeq(entries, LAMBDA e : e.k # k)

\* An integer key, and the one zend_hash_next_index_insert() uses.
IndexOf(k) == IF Len(k) = 1 /\ k[1] \in Range(Digits)
              THEN (CHOOSE i \in DOMAIN Digits : Digits[i] = k[1]) - 1 ELSE -1
NextIndex(entries) == <<Digits[2 + Max({-1} \cup {IndexOf(entries[i].k) : i \in DOMAIN entries})]>>

\* The value at a path of keys, and the array with the value there replaced.
RECURSIVE At(_, _)
At(v, path) == IF path = <<>> THEN v ELSE At(Find(v.arr, Head(path)), Tail(path))
RECURSIVE Replaced(_, _, _)
Replaced(v, path, new) ==
  IF path = <<>> THEN new
  ELSE Arr(Put(v.arr, Head(path), Replaced(IF Has(v.arr, Head(path)) THEN Find(v.arr, Head(path))
                                           ELSE Null, Tail(path), new)))

\* The path down the first entries of the arrays below path.
RECURSIVE FirstLeaf(_, _)
FirstLeaf(v, path) ==
  IF IsArr(v) /\ v.arr # <<>> THEN FirstLeaf(v.arr[1].v, Append(path, v.arr[1].k)) ELSE path

\* The array that holds NULL at path.
RECURSIVE Nest(_)
Nest(path) == IF path = <<>> THEN Null ELSE Arr(<<[k |-> Head(path), v |-> Nest(Tail(path))]>>)

-----------------------------------------------------------------------------
(* Names and values as text. *)

\* php_trim() of the characters in Chars.
TrimOf(s, Chars) ==
  LET kept == {i \in DOMAIN s : s[i] \notin Chars}
  IN IF kept = {} THEN <<>> ELSE SubSeq(s, Min(kept), Max(kept))
Trim(s) == TrimOf(s, Blank)

\* php_addcslashes() of the control characters, the backslash and the quote,
\* and php_stripcslashes(); a backslash at the very end is kept.
AddSlashes(s) ==
  FlattenSeq([i \in DOMAIN s |-> CASE s[i] = "NL" -> <<Backslash, "n">>
                                   [] s[i] \in {Backslash, Quote} -> <<Backslash, s[i]>>
                                   [] OTHER -> <<s[i]>>])
StripSlashes(s) ==
  LET next(x, c) == IF x.esc THEN [out |-> Append(x.out, IF c = "n" THEN "NL" ELSE c), esc |-> FALSE]
                    ELSE IF c = Backslash THEN [x EXCEPT !.esc = TRUE]
                    ELSE [x EXCEPT !.out = Append(@, c)]
      end == FoldLeft(next, [out |-> <<>>, esc |-> FALSE], s)
  IN IF end.esc THEN Append(end.out, Backslash) ELSE end.out

\* sanitize_escaped(): the two enclosing quotes go.  A lone quote is its own
\* first and last character: the length of what it encloses is minus one.
LoneQuote(s) == s = <<Quote>>
sanitize_escaped(s) ==
  StripSlashes(IF Len(s) > 1 /\ s[1] = Quote /\ Last(s) = Quote THEN SubSeq(s, 2, Len(s) - 1) ELSE s)

\* quote_string(): escaped, and quoted when that changed it, when it holds a
\* separator, or by force.
Separators == {"<", ">", ",", ";", Quote, "[", "]", "=", " "}
\* Variant: only what needs escapes is quoted.
quote_string_escaped(s, force) ==
  IF force \/ Len(AddSlashes(s)) # Len(s) THEN <<Quote>> \o AddSlashes(s) \o <<Quote>> ELSE s
quote_string(s, force) ==
  LET e == AddSlashes(s)
  IN IF force \/ Len(e) # Len(s) \/ \E i \in DOMAIN e : e[i] \in Separators
     THEN <<Quote>> \o e \o <<Quote>> ELSE e

\* php_raw_url_encode() and php_url_decode(), byte by byte.
Percent == [c \in {" ", "NL", Quote, Backslash, ",", ";", "=", "&", "[", "]", "<", ">", "*", "'", "+",
                   "hi", "c3", "b6"} |->
              CASE c = " " -> "%20" [] c = "NL" -> "%0A" [] c = Quote -> "%22" [] c = Backslash -> "%5C"
                [] c = "," -> "%2C" [] c = ";" -> "%3B" [] c = "=" -> "%3D" [] c = "&" -> "%26"
                [] c = "[" -> "%5B" [] c = "]" -> "%5D" [] c = "<" -> "%3C" [] c = ">" -> "%3E"
                [] c = "*" -> "%2A" [] c = "'" -> "%27" [] c = "+" -> "%2B" [] c = "hi" -> "%F6"
                [] c = "c3" -> "%C3" [] OTHER -> "%B6"]
UrlEncode(s) == [i \in DOMAIN s |-> IF s[i] \in DOMAIN Percent THEN Percent[s[i]] ELSE s[i]]
RawUrlDecode(s) ==
  [i \in DOMAIN s |-> IF \E c \in DOMAIN Percent : Percent[c] = s[i]
                      THEN CHOOSE c \in DOMAIN Percent : Percent[c] = s[i] ELSE s[i]]
UrlDecode(s) == RawUrlDecode([i \in DOMAIN s |-> IF s[i] = "+" THEN " " ELSE s[i]])

\* utf8encode() of a latin-1 string: a byte from 0x80 on becomes two.
utf8encode(s) == FlattenSeq([i \in DOMAIN s |-> IF s[i] = "hi" THEN <<"c3", "b6">> ELSE <<s[i]>>])

\* sanitize_rfc5987(): charset'language'text.  There is no language unless
\* the charset is known and both apostrophes are there.
sanitize_rfc5987(s) ==
  LET known == s # <<>> /\ s[1] \in {"UTF-8", "ISO-8859-1"} /\ Len(s) > 1 /\ s[2] = "'"
      ends  == {i \in 3..Len(s) : s[i] = "'"}
  IN IF known /\ ends # {}
     THEN [lang |-> <<SubSeq(s, 3, Min(ends) - 1)>>, rest |-> SubSeq(s, Min(ends) + 1, Len(s)),
           latin1 |-> s[1] = "ISO-8859-1"]
     ELSE [lang |-> <<>>, rest |-> s, latin1 |-> FALSE]
=============================================================================
