-------------------------- MODULE TransferOptions --------------------------
(***************************************************************************)
(* The options of a transfer: how http\Client and http\Client\Request keep *)
(* them, the registry that walks over them in its own order, and the       *)
(* setters that turn them into settings of a CURL handle.  Of the many     *)
(* options one stands for each setter and for each way a type is handled.  *)
(*                                                                         *)
(* A setting of the handle is <<>> (unset) or <<value>>.  The state that a *)
(* setter works on is php_http_client_curl_handler_t.options together with *)
(* the settings of the handle, here `easy'.                                *)
(***************************************************************************)
EXTENDS Integers, Sequences, FiniteSets, SequencesExt, Functions

CONSTANTS
  Rejected,     \* pairs of a CURLOPT and a value that libcurl refuses
  OutsideBase,  \* paths outside of open_basedir
  RequestTime   \* sapi_get_request_time()

None == <<>>

\* curl_easy_setopt() takes back a range, and takes each of the time conditions.
ASSUME TransferOptionsAssumption ==
  /\ <<"RANGE", None>> \notin Rejected
  /\ <<"TIMECONDITION", <<"IFMODSINCE">> >> \notin Rejected

-----------------------------------------------------------------------------
(* Options of a client or a request: a function from names to values.      *)

Over(new, old) == [n \in DOMAIN new \cup DOMAIN old |->
                     IF n \in DOMAIN new THEN new[n] ELSE old[n]]
Empty == [n \in {} |-> None]

\* setSslOptions(), setCookies() overwrite; addSslOptions(), addCookies() join.
options_set_subr(opts, key, sub, overwrite) ==
  CASE sub = Empty /\ ~overwrite -> opts
    [] sub = Empty /\ overwrite  -> Restrict(opts, DOMAIN opts \ {key})
    [] sub # Empty /\ ~overwrite /\ key \in DOMAIN opts ->
         [opts EXCEPT ![key] = Over(sub, @)]
    [] OTHER -> Over([n \in {key} |-> sub], opts)

Joined == {"ssl", "cookies"}

\* setOptions() with options and the names of those that are NULL: NULL deletes,
\* arrays of ssl options and cookies are joined, unless they are empty; no options at
\* all reset everything.
options_set(opts, new, nulls) ==
  LET joined == DOMAIN new \cap Joined
      subs == [n \in {j \in joined : new[j] # Empty} |->
                 IF n \in DOMAIN opts THEN Over(new[n], opts[n]) ELSE new[n]]
  IN  IF DOMAIN new \cup nulls = {} THEN Empty
      ELSE Over(Restrict(new, DOMAIN new \ joined),
                Over(subs, Restrict(opts, DOMAIN opts \ nulls)))

\* A request's options replace those of its client, one by one.
combined_options(client, request) == Over(request, client)

-----------------------------------------------------------------------------
(* Texts that setters build, php_http_buffer_t: resetting one leaves the   *)
(* characters where they are.                                              *)

NoText == [used |-> 0, data |-> <<>>]
TextReset(t) == [t EXCEPT !.used = 0]
TextAppend(t, s) == [used |-> t.used + Len(s), data |-> SubSeq(t.data, 1, t.used) \o s]
Pointer(t) == IF t.data = <<>> THEN None ELSE <<t.data>>

-----------------------------------------------------------------------------
(* Setters.                                                                *)

\* curl_easy_setopt(): the handle, and whether it took the value.  A setter with
\* several calls stops at the first that fails.
setopt(s, o, v) ==
  CASE ~s.ok -> s
    [] s.ok /\ <<o, v>> \in Rejected    -> [s EXCEPT !.ok = FALSE]
    [] s.ok /\ <<o, v>> \notin Rejected -> [s EXCEPT !.easy[o] = v]

set_redirect(s, v) ==
  [setopt(setopt(s, "FOLLOWLOCATION", <<v # 0>>), "MAXREDIRS", <<v>>) EXCEPT !.redirects = v]

set_retrycount(s, v) == [s EXCEPT !.retry.count = v]
set_retrydelay(s, v) == [s EXCEPT !.retry.delay = v]

set_resume(s, v) ==
  setopt([s EXCEPT !.range_request = @ \/ v > 0], "RESUME_FROM", <<v>>)

Dash == 10
Comma == 11
RangeText(r) ==
  CASE r[1] >= 0 /\ r[2] > 0  -> <<r[1], Dash, r[2], Comma>>
    [] r[1] >= 0 /\ r[2] <= 0 -> <<r[1], Dash>>
    [] r[1] < 0 /\ r[2] > 0   -> <<Dash, r[2]>>
    [] OTHER -> <<>>

RangesText(v) == FlattenSeq([i \in DOMAIN v |-> RangeText(v[i])])

\* The last character is taken for a comma, and dropped.  Without any text the one of
\* an earlier use is passed on.
set_range(s, v) ==
  LET text == RangesText(v)
      ranges == IF text = <<>> THEN TextReset(s.ranges)
                ELSE [TextAppend(TextReset(s.ranges), text) EXCEPT !.data = Front(@)]
  IN  setopt([s EXCEPT !.ranges = ranges, !.range_request = @ \/ text # <<>>],
             "RANGE", Pointer(ranges))

set_etag(s, v) ==
  IF v = "" THEN s
  ELSE [s EXCEPT !.headers =
          Append(@, <<IF s.range_request THEN "If-Match" ELSE "If-None-Match", v>>)]

set_compress(s, v) == setopt(s, "ACCEPT_ENCODING", IF v THEN <<"">> ELSE None)

set_lastmodified(s, v) ==
  IF v = 0 THEN setopt(setopt(s, "TIMEVALUE", <<0>>), "TIMECONDITION", <<"NONE">>)
  ELSE setopt(setopt(s, "TIMEVALUE", <<IF v > 0 THEN v ELSE RequestTime + v>>),
              "TIMECONDITION", <<IF s.range_request THEN "IFUNMODSINCE" ELSE "IFMODSINCE">>)

set_encodecookies(s, v) == [s EXCEPT !.encode_cookies = v]

set_cookies(s, v) ==
  LET text == TextAppend(s.cookies,
                [i \in 1 .. Cardinality(DOMAIN v) |->
                   LET n == SetToSeq(DOMAIN v)[i] IN <<n, v[n], s.encode_cookies>>])
  IN  IF v = Empty
      THEN setopt([s EXCEPT !.cookies = TextReset(@)], "COOKIE", None)
      ELSE setopt([s EXCEPT !.cookies = text], "COOKIE", <<text.data>>)

set_cookiestore(s, v) ==
  LET file == IF v = "" THEN None ELSE <<v>>
  IN  setopt(setopt([s EXCEPT !.st.cookiestore = file], "COOKIEFILE", <<v>>), "COOKIEJAR", file)

\* A second port that is not positive is no bound; the range counts it all the same.
\* The code reads a second port also where there is only one, or takes a third one from
\* nowhere: v has none or two.
local_port(v) ==
  CASE v = <<>> -> 0
    [] v # <<>> /\ v[2] > 0 /\ v[2] < v[1] -> v[2]
    [] OTHER -> v[1]
port_range(v) ==
  CASE v = <<>> -> 0
    [] v # <<>> /\ v[1] < v[2] -> v[2] - v[1] + 1
    [] OTHER -> v[1] - v[2] + 1
set_portrange(s, v) ==
  setopt(setopt(s, "LOCALPORT", <<local_port(v)>>), "LOCALPORTRANGE", <<port_range(v)>>)

\* The headers are taken back where they cannot be kept from the other headers.
separate_headers(s) ==
  LET t == setopt(s, "HEADEROPT", <<"SEPARATE">>)
  IN  IF s.ok /\ ~t.ok THEN [t EXCEPT !.easy["PROXYHEADER"] = None] ELSE t
set_proxyheader(s, v) ==
  LET list == s.proxyheaders \o v
  IN  separate_headers(setopt([s EXCEPT !.proxyheaders = list], "PROXYHEADER",
                              IF list = <<>> THEN None ELSE <<list>>))

set_resolve(s, v) ==
  IF v = <<>> THEN setopt(s, "RESOLVE", None)
  ELSE setopt([s EXCEPT !.resolve = @ \o v], "RESOLVE", <<s.resolve \o v>>)

set_ssl_verifyhost(s, v) == setopt(s, "SSL_VERIFYHOST", <<IF v THEN 2 ELSE 0>>)

\* 0 leaves the handle alone.
set_altsvc_ctrl(s, v) == IF v = 0 THEN s ELSE setopt(s, "ALTSVC_CTRL", <<v>>)

-----------------------------------------------------------------------------
(* The registry: options with their defaults, in the order in which they   *)
(* are registered.                                                         *)

Opt(name, type, o, def) == [name |-> name, type |-> type, opt |-> o, def |-> def]

ConnectionOptions ==
  << Opt("proxyhost", "string", "PROXY", ""), Opt("proxyheader", "setter", "PROXYHEADER", <<>>),
     Opt("unix_socket_path", "path", "UNIX_SOCKET_PATH", ""),
     Opt("resolve", "setter", "RESOLVE", <<>>), Opt("portrange", "setter", "LOCALPORT", <<>>),
     Opt("httpauth", "string", "USERPWD", "") >>

RequestOptions ==
  << Opt("redirect", "setter", "FOLLOWLOCATION", 0), Opt("retrycount", "setter", "", 0),
     Opt("retrydelay", "setter", "", 0), Opt("autoreferer", "bool", "AUTOREFERER", TRUE),
     Opt("resume", "setter", "RESUME_FROM", 0), Opt("range", "setter", "RANGE", <<>>),
     Opt("etag", "setter", "", ""), Opt("compress", "setter", "", FALSE),
     Opt("lastmodified", "setter", "", 0), Opt("encodecookies", "setter", "", TRUE),
     Opt("cookies", "setter", "", Empty), Opt("cookiestore", "setter", "", ""),
     Opt("protocol", "long", "HTTP_VERSION", 0), Opt("timeout", "double", "TIMEOUT_MS", 0) >>

SslOptions ==
  << Opt("cert", "path", "SSLCERT", ""), Opt("verifypeer", "bool", "SSL_VERIFYPEER", TRUE),
     Opt("verifyhost", "setter", "SSL_VERIFYHOST", TRUE) >>

ProxySslOptions == << Opt("verifypeer", "bool", "PROXY_SSL_VERIFYPEER", TRUE) >>

SubOptions == [n \in {"ssl", "proxy_ssl"} |-> IF n = "ssl" THEN SslOptions ELSE ProxySslOptions]

LastOptions ==
  << Opt("ssl", "sub", "", Empty), Opt("proxy_ssl", "sub", "", Empty),
     Opt("altsvc_ctrl", "setter", "ALTSVC_CTRL", 0) >>

Registry == ConnectionOptions \o RequestOptions \o LastOptions

Setter(opt, v, s) ==
  CASE opt.name = "proxyheader"   -> set_proxyheader(s, v)
    [] opt.name = "resolve"       -> set_resolve(s, v)
    [] opt.name = "portrange"     -> set_portrange(s, v)
    [] opt.name = "redirect"      -> set_redirect(s, v)
    [] opt.name = "retrycount"    -> set_retrycount(s, v)
    [] opt.name = "retrydelay"    -> set_retrydelay(s, v)
    [] opt.name = "resume"        -> set_resume(s, v)
    [] opt.name = "range"         -> set_range(s, v)
    [] opt.name = "etag"          -> set_etag(s, v)
    [] opt.name = "compress"      -> set_compress(s, v)
    [] opt.name = "lastmodified"  -> set_lastmodified(s, v)
    [] opt.name = "encodecookies" -> set_encodecookies(s, v)
    [] opt.name = "cookies"       -> set_cookies(s, v)
    [] opt.name = "cookiestore"   -> set_cookiestore(s, v)
    [] opt.name = "verifyhost"    -> set_ssl_verifyhost(s, v)
    [] opt.name = "altsvc_ctrl"   -> set_altsvc_ctrl(s, v)

\* php_http_curle_get_option(), or else the default.
ValueOf(opt, options) == IF opt.name \in DOMAIN options THEN options[opt.name] ELSE opt.def

\* php_http_curle_set_option() for an option that has no suboptions.
set_option(opt, v, s) ==
  CASE opt.type = "setter" -> Setter(opt, v, s)
    [] opt.type \in {"bool", "long"} -> setopt(s, opt.opt, <<v>>)
    [] opt.type = "double" -> setopt(s, opt.opt, <<v * 1000>>)
    [] opt.type \in {"string", "path"} ->
         setopt(s, opt.opt, IF v = "" \/ (opt.type = "path" /\ v \in OutsideBase)
                            THEN None ELSE <<v>>)

\* php_http_options_apply() stops at the first option that fails.
apply_option(opt, options, s) == IF s.ok THEN set_option(opt, ValueOf(opt, options), s) ELSE s

apply_options(registry, options, s) ==
  LET after[n \in 0 .. Len(registry)] ==
        IF n = 0 THEN s ELSE apply_option(registry[n], options, after[n - 1])
  IN  after[Len(registry)]

\* Suboptions are walked over only if there is an array of them.
apply_any(opt, options, s) ==
  CASE opt.type # "sub" -> apply_option(opt, options, s)
    [] opt.type = "sub" /\ opt.name \in DOMAIN options ->
         apply_options(SubOptions[opt.name], options[opt.name], s)
    [] opt.type = "sub" /\ opt.name \notin DOMAIN options -> s

options_apply(options, s) ==
  LET after[n \in 0 .. Len(Registry)] ==
        IF n = 0 THEN s ELSE apply_any(Registry[n], options, after[n - 1])
  IN  after[Len(Registry)]
=============================================================================
