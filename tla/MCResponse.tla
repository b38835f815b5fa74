----------------------------- MODULE MCResponse -----------------------------
(* A response of four bytes to requests for ranges of it, conditional ones  *)
(* and plain ones, sent with a buffer of three bytes from reads of two.     *)
EXTENDS EnvResponse

JunkByte == <<"junk">>
NulByte == <<"nul">>

Get == [method |-> "GET", minor |-> 1, auth |-> FALSE, gzip |-> FALSE,
        specs |-> <<>>, range |-> NoHeader,
        ifRange |-> NoHeader, ifMatch |-> NoHeader, ifUnmodified |-> NoHeader,
        ifNoneMatch |-> NoHeader, ifModified |-> NoHeader]
Ranged(q, specs) == [q EXCEPT !.specs = specs, !.range = RangeHeader(specs)]

FirstTag == <<"tag", TagOf([bytes |-> [i \in 1 .. FirstBody |-> <<"b", i>>]])>>
Singles == {<<<<b, e>>>> : b \in 0 .. 5, e \in -1 .. 5} \cup {<<<<-1, n>>>> : n \in 0 .. FirstBody}
Doubles == {<<<<0, 1>>, <<2, 3>>>>, <<<<2, 3>>, <<0, 0>>>>, <<<<1, -1>>, <<-1, 2>>>>,
            <<<<1, 2>>, <<5, 5>>>>}
\* Headers with blanks, and one of nothing behind "bytes=", which is read as "-" is.
Spaced ==
  {[Get EXCEPT !.specs = <<<<1, 2>>>>, !.range = <<Gap, 1, Gap, Dash, 2, Gap>>],
   [Get EXCEPT !.specs = <<<<-1, -1>>>>, !.range = <<Gap>>]}
MCRequests ==
  {Ranged(Get, s) : s \in Singles \cup Doubles} \cup Spaced
    \cup {Get, [Get EXCEPT !.minor = 0], [Get EXCEPT !.gzip = TRUE],
          [Get EXCEPT !.method = "CONNECT"], [Get EXCEPT !.auth = TRUE],
          [Get EXCEPT !.ifNoneMatch = FirstTag],
          [Get EXCEPT !.ifNoneMatch = <<"tag", <<"other">>>>, !.ifModified = <<"date", 2>>],
          [Get EXCEPT !.ifModified = <<"date", 1>>],
          [Ranged(Get, <<<<1, 2>>>>) EXCEPT !.ifRange = FirstTag],
          [Ranged(Get, <<<<1, 2>>>>) EXCEPT !.ifMatch = FirstTag],
          [Ranged(Get, <<<<1, 2>>>>) EXCEPT !.ifMatch = <<"tag", <<"other">>>>],
          [Ranged(Get, <<<<1, 2>>>>) EXCEPT !.ifUnmodified = <<"date", 1>>],
          [Ranged(Get, <<<<6, 2>>>>) EXCEPT !.ifRange = <<"date", 1>>]}

Fresh == [headers |-> <<>>, code |-> 0, minor |-> -1, cookies |-> <<>>, type |-> "",
          cache |-> "", disposition |-> "", gzip |-> FALSE, etag |-> NoTag, lm |-> 0,
          chunk |-> 0, request |-> Get]
MCSettings ==
  {[Fresh EXCEPT !.request = q] : q \in MCRequests}
    \cup {[Fresh EXCEPT !.gzip = TRUE, !.request = [Get EXCEPT !.gzip = TRUE]],
          [Fresh EXCEPT !.headers = Emit("Content-Length", FirstBody), !.code = 201],
          [Fresh EXCEPT !.code = 204], [Fresh EXCEPT !.minor = 0]}
MCSome == {Get, Ranged(Get, <<<<1, 2>>>>), [Get EXCEPT !.ifNoneMatch = FirstTag]}

\* The conditions under which BodyAlwaysAnnounced is proved hold for all requests
\* but those, which the run checks as well.
ASSUME MCAnnounced == OwnStatus /\ \A q \in MCRequests \ Spaced : Asks(q)
=============================================================================
