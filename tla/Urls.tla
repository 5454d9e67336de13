-------------------------------- MODULE Urls --------------------------------
(***************************************************************************)
(* URLs, src/src/functions/urls.rs.  The text of a URL is a record of what *)
(* is written: scheme and host, "" where there is none, whether the host   *)
(* is an IPv6 address, an Option of a port, the path and the query, a      *)
(* sequence of pairs.  An absolute path has neither scheme nor host; text  *)
(* that has no scheme and is no absolute path has the path "".  A name is  *)
(* one symbol.  Crate url parses.                                          *)
(***************************************************************************)
EXTENDS CelValues, Numerals

UrlText(scheme, host, ipv6, port, path, query) ==
  [kind |-> "string", form |-> "url", scheme |-> scheme, host |-> host,
   ipv6 |-> ipv6, port |-> port, path |-> path, query |-> query]

Name(name) == Str(IF name = "" THEN <<>> ELSE <<name>>)

---------------------------------------------------------------------------
\* Url::parse, an Option: the default port of a scheme is not kept.
DefaultPort(scheme) ==
  CASE scheme = "http" -> {80} [] scheme = "https" -> {443} [] OTHER -> {}

Parse(text) ==
  IF text.scheme = "" THEN {}
  ELSE {[kind |-> "url", scheme |-> text.scheme, host |-> text.host,
         ipv6 |-> text.ipv6, port |-> text.port \ DefaultPort(text.scheme),
         path |-> text.path, query |-> text.query]}

\* validate_and_parse: an absolute path is read behind http://localhost.
ValidateAndParse(text) ==
  IF text.form # "url" THEN {}
  ELSE IF text.scheme = "" /\ text.path # ""
  THEN Parse([text EXCEPT !.scheme = "http", !.host = "localhost"])
  ELSE Parse(text)

---------------------------------------------------------------------------
\* An absolute path is told by the scheme and host it was given.
GetScheme(url) ==
  Name(IF url.scheme = "http" /\ url.host = "localhost" THEN "" ELSE url.scheme)

PortText(url) == FlattenSeq([i \in 1..Cardinality(url.port) |->
                               Digits(CHOOSE p \in url.port : TRUE, 10)])

GetHost(url) ==
  Str((IF url.host = "" THEN <<>>
       ELSE IF url.ipv6 THEN <<"[", url.host, "]">> ELSE <<url.host>>)
        \o (IF url.port = {} THEN <<>> ELSE <<":">> \o PortText(url)))

GetHostname(url) == Name(url.host)

GetPort(url) == Str(PortText(url))

GetEscapedPath(url) == Name(url.path)

\* The values of a key in the order they are written.
GetQuery(url) ==
  [kind |-> "query",
   values |-> [key \in {url.query[i][1] : i \in DOMAIN url.query} |->
     LET pairs == SelectSeq(url.query, LAMBDA p : p[1] = key)
     IN  List([i \in DOMAIN pairs |-> Name(pairs[i][2])])]]

---------------------------------------------------------------------------
UrlTextCall(name, v) ==
  LET url == ValidateAndParse(v)
  IN  IF v.kind # "string" THEN Error
      ELSE CASE name = "isURL" -> Bool(url # {})
             [] name = "url" -> IF url = {} THEN Error ELSE CHOOSE u \in url : TRUE

UrlCall(name, url) ==
  CASE name = "getScheme"      -> GetScheme(url)
    [] name = "getHost"        -> GetHost(url)
    [] name = "getHostname"    -> GetHostname(url)
    [] name = "getPort"        -> GetPort(url)
    [] name = "getEscapedPath" -> GetEscapedPath(url)
    [] name = "getQuery"       -> GetQuery(url)
=============================================================================
