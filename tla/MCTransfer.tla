----------------------------- MODULE MCTransfer -----------------------------
(* A request whose options, method and body change between the uses of one *)
(* handle.  Each option set exercises other setters of the registry;       *)
(* libcurl refuses protocol 7.                                             *)
EXTENDS CurlTransfer, TLC

Set(options) == [set |-> options, nulls |-> {}]

MCOptionSets ==
  { [set |-> "range" :> << <<0, 5>> >> @@ "lastmodified" :> -2 @@ "etag" :> "e",
     nulls |-> {"protocol"}] } \cup
  { Set(o) : o \in {
    Empty,
    "resume" :> 3 @@ "redirect" :> 2 @@ "timeout" :> 1 @@ "retrycount" :> 4 @@ "retrydelay" :> 1
      @@ "cookies" :> ("a" :> "1" @@ "b" :> "2") @@ "encodecookies" :> FALSE @@ "cookiestore" :> "jar"
      @@ "ssl" :> ("verifypeer" :> FALSE @@ "cert" :> "inside")
      @@ "proxy_ssl" :> ("verifypeer" :> FALSE) @@ "altsvc_ctrl" :> 0,
    "compress" :> TRUE @@ "portrange" :> <<9, 8>> @@ "resolve" :> <<"h">> @@ "altsvc_ctrl" :> 1
      @@ "proxyheader" :> << <<"P", "v">> >> @@ "unix_socket_path" :> "outside"
      @@ "range" :> << <<-1, 0>> >>,
    "protocol" :> 7 } }

MCClientOptions == {Set("cookies" :> ("a" :> "0") @@ "httpauth" :> "u:p")}
MCSslCalls == {<<Empty, TRUE>>, <<"verifyhost" :> FALSE, FALSE>>}
MCCookieCalls == {<<"c" :> "3", FALSE>>}
MCRejected == {<<"HTTP_VERSION", <<7>> >>}
MCOutsideBase == {"outside"}

MCRequests ==
  { [url |-> "u", method |-> "GET", size |-> 0], [url |-> "u", method |-> "PUT", size |-> 1],
    [url |-> "v", method |-> "HEAD", size |-> 0], [url |-> "", method |-> "POST", size |-> 1],
    [url |-> "u", method |-> "", size |-> 0] }

MCInterim == { [code |-> 302, hdrs |-> "Content-Length" :> 9 @@ "Content-Encoding" :> "gzip"] }
MCFinal == { [code |-> 206, hdrs |-> "Content-Length" :> 3 @@ "Transfer-Encoding" :> "chunked"] }
=============================================================================
