------------------------------ MODULE MCValues ------------------------------
(***************************************************************************)
(* Small instances of Values: every parameter text up to MaxText           *)
(* characters, and a few arrays, queries and cookies under calls.          *)
(***************************************************************************)
EXTENDS Values

CONSTANT MaxText

MCAllowed == <<<<"b", "b">>>>

S(s) == Str(s)
E(k, v) == [k |-> k, v |-> v]
Param(v, args) == Arr(<<E(VALUE, v), E(ARGUMENTS, Arr(args))>>)
Lang(l, s) == Arr(<<E(l, S(s))>>)

Characters == {"a", " ", Quote, Backslash, ",", ";", "="}
ParamTexts == SeqOf(Characters, MaxText) \cup {<<"a", "=", Quote>> \o s \o <<";", "a">> : s \in SeqOf(Characters, MaxText - 1)}
StarTexts == {<<"a", "*", "=">> \o <<c, "'">> \o l \o <<"'">> \o v : c \in {"UTF-8", "ISO-8859-1", "a"},
                l \in {<<>>, <<"d">>}, v \in {<<"%F6">>, <<"a", "%20">>}}
LinkTexts == {<<"<", "a", ",", "b", ">", ";", "rel", "=", Quote, "n", Quote>> \o s :
                s \in {<<>>, <<",", "<", "b", ">">>, <<";", "a", ",", "b">>}}
Bracketed == {<<"a", "[", "b", "]">>, <<"a", "[", "]">>, <<"a", "[", "0", "]">>, <<"a", "[", "b", "]", "[", "1", "]">>,
              <<"a", "[", "b", "]", "[", "]">>, <<"a">>, <<"b">>, <<"b", "]">>, <<"a", "[", "b">>,
              <<"a", "[", "b", "]", "[", "b", "]", "[", "b", "]">>}
QueryTexts == {k \o <<"=", "a">> \o <<"&">> \o l \o s : k \in Bracketed, l \in Bracketed,
                 s \in {<<>>, <<"=">>, <<"=", "+", "%3D">>}}
CookieTexts == {<<"a", "=", "a", ";", " ">> \o s : s \in
                 {<<"path", "=", "%3B">>, <<"b", "b", "=", "a">>, <<"b", "=", "%20">>, <<"secure">>, <<"Secure">>,
                  <<"Path", "=", "a">>, <<"B", "=", "a">>, <<"b", "B", "=", "%20">>, <<"A", "=", "b">>,
                  <<"max-age", "=", "9", ";", "expires", "=", "date1">>, <<"expires", "=", "a">>}}

Values1 == {True, S(<<>>), S(<<"a", Quote>>), S(<<"a", ",", Backslash, "n">>), S(<<" ", "NL">>),
            S(<<Backslash, Quote, ";">>), S(<<Backslash>>)}
ParamArrays ==
  {<<E(<<"a">>, Param(v, <<E(n, w)>>)), E(<<"b", " ">>, Param(w, <<>>))>> :
     v \in Values1, w \in {True, S(<<>>), S(<<Backslash, Quote, ";">>)}, n \in {<<"b">>, <<";">>}} \cup
  {<<E(<<"a">>, Arr(<<E(RFC5987, Lang(l, s)), E(ARGUMENTS, Arr(<<E(RFC5987, Arr(<<E(<<"a">>, Lang(l, s)), E(<<"b">>, Lang(<<>>, s))>>))>>))>>)),
     E(<<"b">>, Param(True, <<>>))>> : l \in {<<"d">>, <<>>}, s \in {<<"c3", "b6">>, <<Quote, "'">>}}
LinkArrays == {<<E(<<"a", ",">>, Param(True, <<E(<<"rel">>, v), E(<<"b">>, w)>>)), E(<<"b">>, Param(True, <<>>))>> :
                 v \in Values1 \ {True}, w \in {True, S(<<"a", Quote>>)}}
QueryArrays == {<<E(<<"a">>, Arr(<<E(k, S(<<"a">>)), E(l, Arr(<<E(m, S(<<"&">>))>>))>>)), E(<<"b", "=">>, v)>> :
                  k \in {<<"0">>, <<"b">>, VALUE}, l \in {<<"1">>, <<"a">>}, m \in {<<"0">>, <<"b">>},
                  v \in {True, S(<<"+">>), Null}}
CookieArrays == {[cookies |-> <<E(<<"a">>, S(<<";">>))>>, flags |-> {"secure"}, maxage |-> <<"9">>, expires |-> <<"date1">>],
                 [extras |-> <<E(<<"b", "b">>, S(<<"=">>))>>, path |-> <<"a">>, expires |-> <<"a">>],
                 [extras |-> <<E(<<"b", "b">>, S(<<"=">>))>>, domain |-> <<"a">>]}

MCTexts == [k \in Kinds |-> CASE k = "params" -> ParamTexts \cup StarTexts [] k = "link" -> LinkTexts
                              [] k = "query" -> QueryTexts [] OTHER -> CookieTexts]
MCArrays == [k \in Kinds |-> CASE k = "params" -> ParamArrays [] k = "link" -> LinkArrays
                               [] k = "query" -> QueryArrays [] OTHER -> CookieArrays]
MCNames == [k \in Kinds |-> IF k = "cookie" THEN {<<"a">>, <<"b">>, <<"0">>} ELSE {<<"a">>, <<"n">>}]

QueryOperands == {<<E(<<"a">>, v)>> : v \in {Null, S(<<"a">>), S(<<"b">>), Arr(<<E(<<"b">>, S(<<"b">>))>>),
                                             Arr(<<E(<<"0">>, S(<<"b">>))>>), Arr(<<E(<<"b">>, Null)>>),
                                             Arr(<<E(<<"a">>, Arr(<<E(<<"b">>, S(<<"n">>))>>)), E(<<"1">>, Null)>>)}}
MCOperands == [k \in Kinds |->
  CASE k \in {"params", "link"} -> {True, S(<<"a", ",">>), Arr(<<E(ARGUMENTS, Arr(<<E(<<"b">>, S(<<>>))>>))>>),
                                    Arr(<<E(VALUE, S(<<"n">>)), E(ARGUMENTS, Arr(<<>>))>>)}
    [] k = "query" -> QueryOperands
    [] OTHER -> {Null, S(<<"a">>), S(<<";", " ">>)}]
=============================================================================
