------------------------------ MODULE MCMessages ------------------------------
\* Documents of up to three messages for MessageSources: every kind of body, two
\* messages behind each other, parts of a multipart body, and malformed ones.
EXTENDS MessageSources

MCContentLength == [l \in {"CL0", "CL1", "CL2", "CL3", "CLneg"} |->
  CASE l = "CL0" -> 0 [] l = "CL1" -> 1 [] l = "CL2" -> 2 [] l = "CL3" -> 3 [] OTHER -> -1]

MCContentRange == [l \in {"CR12", "CR21", "CRmax"} |->
  CASE l = "CR12" -> [start |-> 1, end |-> 2, total |-> 3]
    [] l = "CR21" -> [start |-> 2, end |-> 1, total |-> 3]
    [] OTHER -> [start |-> 0, end |-> ULONG_MAX, total |-> 0]]

Doc(text, messages, options, room) ==
  [text |-> text, messages |-> messages, flags |-> options, room |-> room, whole |-> Len(text)]
\* Behind n characters the text arrives in one piece.
Whole(d, n) == [d EXCEPT !.whole = n]
M(type, body) == [type |-> type, body |-> body]

Pipelined == Doc(
  <<"GET", "CL2", "LF", "x", "LF", "200", "TE", "LF",
    "1", "LF", "x", "LF", "1", "0", "LF", "LF", "1", "LF", "0", "LF", "LF">>,
  <<M("GET", <<"x", "LF">>), M("200", <<"x", "LF", "1">>)>>, {}, 9)
ChunkedThenMore == Doc(
  <<"200", "TE", "CL3", "LF", "1", "LF", "0", "LF", "0", "LF", "LF", "GET", "CL1", "LF", "x">>,
  <<M("200", <<"0">>), M("GET", <<"x">>)>>, {}, 9)
Ranges == Doc(
  <<"200", "CR12", "CL1", "LF", "x", "0", "200", "CR21", "CL1", "LF", "x",
    "GET", "CRmax", "CL1", "LF">>,
  <<M("200", <<"x", "0">>), M("200", <<"x">>), M("GET", <<>>)>>, {}, 9)
Redirects == Doc(
  <<"GET", "LF", "302", "LOC", "CLOSE", "TE", "LF", "GET", "CLneg", "LF">>,
  <<M("GET", <<>>), M("302", <<>>), M("GET", <<>>)>>, {"EMPTY_REDIRECTS"}, 9)
Greedy(d) == [d EXCEPT !.flags = @ \cup {"GREEDY"}]
Compressed == Doc(
  <<"200", "CE", "CL3", "LF", "Z", "x", "E", "200", "CE", "TE", "LF",
    "1", "1", "LF", "Z", "1", "E", "LF", "0", "LF">>,
  <<M("200", <<"x">>), M("200", <<"1">>)>>, {}, 9)
Dumb == Whole(Doc(<<"GET", "LF", "200", "LF", "x", "1", "x">>,
  <<M("GET", <<>>), M("200", <<"x", "1", "x">>)>>, {}, 9), 4)
Coded == Whole(Doc(<<"GET", "TEX", "CL1", "LF", "200", "TEX", "CL1", "LF", "x", "1">>,
  <<M("GET", <<>>), M("200", <<"x", "1">>)>>, {}, 9), 8)
DumbFlag == Whole(Doc(<<"GET", "TE", "CL1", "LF", "x", "1">>,
  <<M("GET", <<"x", "1">>)>>, {"DUMB_BODIES"}, 9), 4)

Malformed == {
  Doc(<<"GET", "CL1", "x", "LF", "x", "LF">>, <<>>, {}, 9),
  Doc(<<"200", "x", "TE", "CL2", "LF", "x", "x", "x", "200", "LF">>, <<>>, {"GREEDY"}, 9),
  Doc(<<"200", "TE", "LF", "1", "LF", "x", "LF", "x", "LF", "GET", "LF">>, <<>>, {}, 9),
  Doc(<<"200", "CE", "CL2", "LF", "x", "Z">>, <<>>, {}, 9)}

\* Parts with a length, in reads of any size, and parts without one, in one read.
Parts(room) == Doc(
  <<"B", "LF", "CL2", "LF", "x", "1", "LF", "B", "LF", "CL1", "LF", "x", "LF", "B", "-", "LF">>,
  <<M("none", <<"x", "1">>), M("none", <<"x">>)>>, {}, room)
DumbParts(room) == Doc(
  <<"B", "LF", "LOC", "LF", "x", "1", "LF", "B", "LF", "LOC", "LF", "x", "LF", "B", "-", "LF">>,
  <<M("none", <<"x", "1", "LF">>), M("none", <<"x", "LF">>)>>, {}, room)
MalformedParts == Doc(<<"B", "LF", "CL1", "LF", "x", "LF", "B", "x">>, <<>>, {}, 5)

MCDocument == [m \in Modes |->
  CASE m = "parse" ->
         {Pipelined, ChunkedThenMore, Ranges, Redirects, Compressed, Dumb, Coded, DumbFlag}
         \cup {Greedy(d) : d \in {ChunkedThenMore, Redirects}} \cup Malformed
    [] m = "stream" -> {Pipelined, ChunkedThenMore, Ranges, Redirects, Compressed, Dumb, Coded} \cup Malformed
    [] OTHER -> {Parts(room) : room \in 1 .. 9} \cup {DumbParts(16), MalformedParts}]

\* Parts without a length, in several reads.
MCSplitDocument == [m \in {"split"} |-> {DumbParts(room) : room \in 4 .. 8}]
=============================================================================
