---------------------------- MODULE MCHeaderFeed ----------------------------
(* The documents of the HeaderFeed runs: an optional response or request    *)
(* line and one or two headers, whose values may be padded, empty, folded   *)
(* over two lines or contain a colon, with either line end, and then an     *)
(* empty line and a body, or the end of the input.  Any text of up to       *)
(* MaxFed characters is fed too.                                            *)
EXTENDS HeaderFeed

CONSTANT MCModes

Crlf == <<"CR", "LF">>

\* A header line: its text up to the last line end nl, and what it delivers.
Lines(nl) ==
  {[text |-> <<"n", ":">> \o v[1], value |-> v[2]] :
     v \in {<< <<"n">>, <<"n">> >>,
            << <<" ", "n", " ", ":", " ">>, <<"n", " ", ":">> >>,
            << <<>>, <<>> >>,
            << <<"n">> \o nl \o <<" ", "d">>, <<"n", " ", "d">> >>,
            << <<" ">> \o nl \o <<" ", " ", "d">>, <<"d">> >>,
            << <<"n">> \o nl \o <<" ">>, <<"n">> >>}}

Item(l) ==
  IF l.value = <<>> THEN <<>>
  ELSE << [type |-> "header", name |-> <<"n">>, value |-> l.value] >>

Starts(nl) ==
  {[text |-> <<>>, items |-> <<>>],
   [text |-> <<"H", " ", "d", " ", "n">> \o nl, items |-> << [type |-> "info"] >>],
   [text |-> <<"n", " ", "n", " ", "H">> \o nl, items |-> << [type |-> "info"] >>]}

Ends(nl) ==
  {[text |-> nl \o nl, body |-> <<"LF", "n">>],
   [text |-> nl, body |-> <<>>], [text |-> <<>>, body |-> <<>>]}

One(nl) == {[text |-> l.text, items |-> Item(l)] : l \in Lines(nl)}
Two(nl) == {[text |-> l.text \o nl \o m.text, items |-> Item(l) \o Item(m)] :
              l \in Lines(nl), m \in {x \in Lines(nl) : x.value # <<"n">> /\ x.value # <<"d">>}}

Documents(nl, blocks) ==
  {[text |-> s.text \o b.text \o e.text \o e.body,
    items |-> s.items \o b.items, body |-> e.body] :
     s \in Starts(nl), b \in blocks, e \in Ends(nl)}

\* For the race of reader and writer: a short document and a folded one.
Short ==
  {d \in Documents(<<"LF">>, One(<<"LF">>)) :
     d.text \in {<<"n", ":", "n", "LF">>, <<"n", ":", "n", "LF", " ", "d", "LF">>}}

\* Text of any kind comes in chunks of at most two characters.
MCChunk == {<<>>} \cup {<<a>> : a \in Char} \cup {<<a, b>> : a, b \in Char}

MCDocument ==
  [m \in MCModes |->
     CASE m = "parse" -> Documents(Crlf, One(Crlf) \cup Two(Crlf))
       [] m = "stream" -> Documents(Crlf, One(Crlf))
       [] m = "race" -> Short
       [] m = "any" -> {[text |-> <<>>, items |-> <<>>, body |-> <<>>]}]
=============================================================================
