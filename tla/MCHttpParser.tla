---------------------------- MODULE MCHttpParser ----------------------------
(* Small instances of HttpParser: requests with every method, URL form,      *)
(* header and body encoding, and buffers that differ from one in one symbol. *)
EXTENDS HttpParser

CRLF == <<"CR", "LF">>
Plain == [method |-> "GET", name |-> method_strings["GET"], url |-> <<"/", "a">>, headers |-> <<>>,
          minor |-> "1", eol |-> CRLF, body |-> <<>>, coded |-> <<>>]
With(r, m) == [r EXCEPT !.method = m, !.name = method_strings[m]]

OfMethods == {With([Plain EXCEPT !.url = IF m = "CONNECT" THEN <<"a", ":", "8">> ELSE @], m) :
                m \in DOMAIN method_strings \ {"MSEARCH"}}
Urls == { <<"/">>, <<"/", "a", "?", "b", "#", "a", "#">>, <<"*">>, <<"a", ":", "/", "/", "b", "@", "a", "/", "b">>,
          <<"a", ":", "/", "/", "b", "?", "?", "1">>, <<"/", "#", "#", "?", "a">> }
OfUrls == {[Plain EXCEPT !.url = u] : u \in Urls}

Host == <<<<"Host">>, <<"a", ".", "b", ":", "8">>>>
Length(n) == <<<<"Content-Length">>, n>>
Chunked == <<<<"Transfer-Encoding">>, <<"chunked">>>>
HeaderLists ==
  { <<Host>>, <<<<<<"Host">>, <<>>>>, Host>>, <<<<<<"Referer">>, <<"a", "b", "a">>>>, Host>>,
    <<<<<<"Connection">>, <<"close">>>>, <<<<"User-Agent">>, <<"a", "SP", "b">>>>>>,
    <<<<<<"Connection">>, <<"keep-alive">>>>, <<<<"Content-Type">>, <<"a", "/", "b">>>>>>,
    <<<<<<"Upgrade">>, <<"a">>>>, Host>>, <<<<<<"Connection">>, <<"a">>>>, <<<<"Content-Length", "a">>, <<"b">>>>>>,
    <<<<<<"X-Forwarded-For">>, <<"1", ".", "1">>>>, <<<<"Transfer-Encoding">>, <<"a">>>>>> }
OfHeaders == {[Plain EXCEPT !.headers = hs, !.eol = e, !.minor = v] :
                hs \in HeaderLists, e \in {CRLF, <<"LF">>}, v \in {"0", "1"}}

Post(hs, b, coded) == [With(Plain, "POST") EXCEPT !.headers = hs, !.body = b, !.coded = coded]
Body(n) == [i \in 1..n |-> IF i % 3 = 0 THEN "CR" ELSE "b"]
OfBodies ==
  { Post(<<Length(<<"0">>)>>, <<>>, <<>>), Post(<<Length(<<"3">>), Host>>, Body(3), Body(3)),
    Post(<<Length(<<"1", "0">>)>>, Body(10), Body(10)), Post(<<Host, Length(<<"0", "2">>)>>, Body(2), Body(2)),
    Post(<<Chunked>>, <<>>, <<"0", "CR", "LF", "CR", "LF">>),
    Post(<<Chunked, Host>>, Body(3) \o Body(1),
         <<"0", "3", "CR", "LF">> \o Body(3) \o <<"CR", "LF", "1", ";", "a", "CR", "LF">> \o Body(1)
         \o <<"CR", "LF", "0", "CR", "LF">> \o <<"Host", ":", "b", "CR", "LF", "CR", "LF">>),
    Post(<<Length(<<"4">>), Chunked>>, Body(11),
         <<"B", "CR", "LF">> \o Body(11) \o <<"CR", "LF", "0", "CR", "LF", "CR", "LF">>) }

MCRequests == OfMethods \cup OfUrls \cup OfHeaders \cup OfBodies

\* Buffers that hold a request with one symbol replaced or doubled, and two requests in a row;
\* one whose head is longer than HTTP_MAX_HEADER_SIZE (in the build MaxRequest is the smaller of the two).
Bases == {Flat(r) : r \in OfBodies \cup {[Plain EXCEPT !.headers = hs] : hs \in HeaderLists}}
         \cup {Flat(With(Plain, m)) : m \in {"SUBSCRIBE", "PROPPATCH", "CONNECT"}}
Symbols == {"CR", "LF", "SP", ":", "0", "9", "a", "E", "NUL", "?", "Host", "Content-Length", "Transfer-Encoding",
            "chunked", "Connection", "close", "keep-alive", "@", "#"}
MCAltered ==
  UNION {{[s EXCEPT ![i] = x] : i \in DOMAIN s, x \in Symbols} : s \in Bases}
  \cup UNION {{SubSeq(s, 1, i) \o SubSeq(s, i, Len(s)) : i \in DOMAIN s} : s \in Bases}
  \cup {Flat(a) \o Flat(b) : a \in OfBodies, b \in OfBodies}
  \cup {Flat([Plain EXCEPT !.url = <<"/">> \o [i \in 1..60 |-> "a"]])}
=============================================================================
