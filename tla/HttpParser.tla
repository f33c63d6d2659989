----------------------------- MODULE HttpParser -----------------------------
(***************************************************************************)
(* The request parser: http_parser_execute (base/http_parser.cpp) driven   *)
(* by CHttpParserWrapper::ParseHttpContent, the way CHttpConn::OnRead uses *)
(* it.  A request arrives in pieces of any length; after each piece the    *)
(* parser and the wrapper are reset and the WHOLE buffer is parsed again.  *)
(*                                                                         *)
(* The buffer is a sequence of symbols.  Letters of methods, digits, URL   *)
(* characters and line ends are symbols of their own; a header name and    *)
(* the words "chunked", "close", "keep-alive" are one symbol each, so the  *)
(* letter-by-letter matching of names (h_matching_...) is abstracted to    *)
(* what it decides.  One action is one turn of the switch; a turn that     *)
(* ends with "goto reexecute_byte" leaves p where it is.                   *)
(***************************************************************************)
EXTENDS Integers, Sequences, FiniteSets, SequencesExt

CONSTANTS
  Requests,             \* well-formed requests a client may send, records (see Flat)
  Altered,              \* sequences of symbols that need not be requests
  MaxUint,              \* ULLONG_MAX: uint64_t counts modulo MaxUint + 1
  HTTP_MAX_HEADER_SIZE,
  MaxRequest            \* the 2048 of CHttpConn::OnRead

ASSUME SizesAssumption == /\ MaxUint \in Nat /\ MaxUint > 15   \* a hexadecimal digit is a length
                          /\ HTTP_MAX_HEADER_SIZE \in Nat
                          /\ MaxRequest \in Nat

VARIABLES
  sent,     \* <<r>> for a well-formed request r, <<>> for a buffer that need not be one
  stream,   \* everything the client sends
  arrived,  \* length of m_in_buf
  pc,       \* "idle", "parse", "parsed" or "closed"
  p,        \* position of the byte the switch looks at
  fresh,    \* FALSE while a byte is executed again
  h,        \* m_http_parser
  mark,     \* url_mark, header_field_mark, header_value_mark, body_mark; 0 is NULL
  w         \* the members of CHttpParserWrapper

vars == <<sent, stream, arrived, pc, p, fresh, h, mark, w>>

-----------------------------------------------------------------------------
(* Characters.                                                             *)

Digits == {"0", "1", "2", "3", "4", "5", "6", "7", "8", "9"}
Letters == {"A", "B", "C", "D", "E", "F", "G", "H", "I", "K", "L", "M", "N", "O",
            "P", "R", "S", "T", "U", "V", "Y", "a", "b"}
Kept == {"Referer", "X-Forwarded-For", "User-Agent", "Content-Type", "Content-Length", "Host"}
Words == Kept \cup {"Connection", "Transfer-Encoding", "Upgrade", "chunked", "close", "keep-alive"}

Dashed == {"X-Forwarded-For", "User-Agent", "Content-Type", "Content-Length",
           "Transfer-Encoding", "keep-alive"}

TOKEN == Digits \cup Letters \cup Words \cup {"*", "-", ".", "#", "%"}
IS_ALPHA == Letters \cup (Words \ Dashed)
IS_URL_CHAR == Letters \cup Words \cup Digits \cup {"/", ":", "@", "*", "-", ".", "[", "]", "%", ";"}
IS_USERINFO_CHAR == Letters \cup Words \cup Digits \cup {"-", ".", "*", "%", ":", ";"}

unhex ==
  LET Hex == <<"0", "1", "2", "3", "4", "5", "6", "7", "8", "9", "A", "B", "C", "D", "E", "F">>
  IN  [d \in ToSet(Hex) \cup {"a", "b"} |->
         CASE d = "a" -> 10 [] d = "b" -> 11 [] OTHER -> CHOOSE n \in 0..15 : Hex[n + 1] = d]

method_strings ==
  [DELETE |-> <<"D", "E", "L", "E", "T", "E">>, GET |-> <<"G", "E", "T">>,
   HEAD |-> <<"H", "E", "A", "D">>, POST |-> <<"P", "O", "S", "T">>, PUT |-> <<"P", "U", "T">>,
   CONNECT |-> <<"C", "O", "N", "N", "E", "C", "T">>,
   OPTIONS |-> <<"O", "P", "T", "I", "O", "N", "S">>, TRACE |-> <<"T", "R", "A", "C", "E">>,
   COPY |-> <<"C", "O", "P", "Y">>, LOCK |-> <<"L", "O", "C", "K">>,
   MKCOL |-> <<"M", "K", "C", "O", "L">>, MOVE |-> <<"M", "O", "V", "E">>,
   PROPFIND |-> <<"P", "R", "O", "P", "F", "I", "N", "D">>,
   PROPPATCH |-> <<"P", "R", "O", "P", "P", "A", "T", "C", "H">>,
   SEARCH |-> <<"S", "E", "A", "R", "C", "H">>, UNLOCK |-> <<"U", "N", "L", "O", "C", "K">>,
   REPORT |-> <<"R", "E", "P", "O", "R", "T">>,
   MKACTIVITY |-> <<"M", "K", "A", "C", "T", "I", "V", "I", "T", "Y">>,
   CHECKOUT |-> <<"C", "H", "E", "C", "K", "O", "U", "T">>, MERGE |-> <<"M", "E", "R", "G", "E">>,
   MSEARCH |-> <<"M", "SP", "-", "SP", "S", "E", "A", "R", "C", "H">>,
   NOTIFY |-> <<"N", "O", "T", "I", "F", "Y">>,
   SUBSCRIBE |-> <<"S", "U", "B", "S", "C", "R", "I", "B", "E">>,
   UNSUBSCRIBE |-> <<"U", "N", "S", "U", "B", "S", "C", "R", "I", "B", "E">>,
   PATCH |-> <<"P", "A", "T", "C", "H">>, PURGE |-> <<"P", "U", "R", "G", "E">>]

\* s_start_req: the method a first letter stands for until a later one says otherwise.
FirstMethod ==
  [C |-> "CONNECT", D |-> "DELETE", G |-> "GET", H |-> "HEAD", L |-> "LOCK", M |-> "MKCOL",
   N |-> "NOTIFY", O |-> "OPTIONS", P |-> "POST", R |-> "REPORT", S |-> "SUBSCRIBE",
   T |-> "TRACE", U |-> "UNLOCK"]

\* s_req_method: <<method, index, letter, the method it becomes>>.
OtherMethod ==
  { <<"CONNECT", 1, "H", "CHECKOUT">>, <<"CONNECT", 2, "P", "COPY">>,
    <<"MKCOL", 1, "O", "MOVE">>, <<"MKCOL", 1, "E", "MERGE">>, <<"MKCOL", 1, "-", "MSEARCH">>,
    <<"MKCOL", 2, "A", "MKACTIVITY">>,
    <<"POST", 1, "R", "PROPFIND">>, <<"POST", 1, "U", "PUT">>, <<"POST", 1, "A", "PATCH">>,
    <<"PUT", 2, "R", "PURGE">>, <<"UNLOCK", 2, "S", "UNSUBSCRIBE">>,
    <<"PROPFIND", 4, "P", "PROPPATCH">>, <<"SUBSCRIBE", 1, "E", "SEARCH">> }

BodyStates == {"s_chunk_data", "s_chunk_data_almost_done", "s_chunk_data_done",
               "s_body_identity", "s_message_done"}
PARSING_HEADER(s) == s \notin BodyStates

-----------------------------------------------------------------------------
(* The URL automaton.                                                      *)

parse_url_char(s, ch) ==
  CASE ch \in {"SP", "CR", "LF", "TAB"} -> "s_dead"
    [] s = "s_req_spaces_before_url" /\ ch \in {"/", "*"} -> "s_req_path"
    [] s = "s_req_spaces_before_url" /\ ch \in IS_ALPHA -> "s_req_schema"
    [] s = "s_req_schema" /\ ch \in IS_ALPHA -> s
    [] s = "s_req_schema" /\ ch = ":" -> "s_req_schema_slash"
    [] s = "s_req_schema_slash" /\ ch = "/" -> "s_req_schema_slash_slash"
    [] s = "s_req_schema_slash_slash" /\ ch = "/" -> "s_req_server_start"
    [] s = "s_req_server_with_at" /\ ch = "@" -> "s_dead"
    [] s \in {"s_req_server_start", "s_req_server", "s_req_server_with_at"} ->
         CASE ch = "/" -> "s_req_path"
           [] ch = "?" -> "s_req_query_string_start"
           [] ch = "@" -> "s_req_server_with_at"
           [] ch \in IS_USERINFO_CHAR \cup {"[", "]"} -> "s_req_server"
           [] OTHER -> "s_dead"
    [] s = "s_req_path" /\ ch \in IS_URL_CHAR -> s
    [] s = "s_req_path" /\ ch = "?" -> "s_req_query_string_start"
    [] s = "s_req_path" /\ ch = "#" -> "s_req_fragment_start"
    [] s \in {"s_req_query_string_start", "s_req_query_string"} /\ ch \in IS_URL_CHAR \cup {"?"} ->
         "s_req_query_string"
    [] s \in {"s_req_query_string_start", "s_req_query_string"} /\ ch = "#" -> "s_req_fragment_start"
    [] s = "s_req_fragment_start" /\ ch \in IS_URL_CHAR \cup {"?"} -> "s_req_fragment"
    [] s = "s_req_fragment_start" /\ ch = "#" -> s
    [] s = "s_req_fragment" /\ ch \in IS_URL_CHAR \cup {"?", "#"} -> s
    [] OTHER -> "s_dead"

-----------------------------------------------------------------------------
(* CHttpParserWrapper: the callbacks.                                      *)

NothingRead ==
  [m_read_all |-> FALSE, m_read |-> {}, m_total_length |-> 0, m_url |-> <<>>,
   m_body_content |-> <<>>, m_value |-> [k \in Kept |-> <<>>], m_content_len |-> 0]

\* HasReadX: the header is taken only once it left something behind.
HasRead(k) == IF k = "Content-Length" THEN w.m_content_len # 0 ELSE w.m_value[k] # <<>>

\* The names are compared as prefixes (strncasecmp), so a longer name counts too.
OnHeaderField(text) ==
  [w EXCEPT !.m_read = @ \cup {k \in Kept : ~HasRead(k) /\ text[1] = k}]

\* 32 in the code.
MAX_REFERER_LEN == 2

\* atoi: the leading digits.
atoi(text) ==
  FoldLeft(LAMBDA a, d : IF a.stop \/ d \notin Digits
                         THEN [a EXCEPT !.stop = TRUE]
                         ELSE [a EXCEPT !.n = @ * 10 + unhex[d]],
           [n |-> 0, stop |-> FALSE], text).n

OnHeaderValue(text) ==
  [w EXCEPT
     !.m_read = {},
     !.m_content_len = IF "Content-Length" \in w.m_read THEN atoi(text) ELSE @,
     !.m_value = [k \in Kept |->
        CASE k \notin w.m_read \/ k = "Content-Length" -> @[k]
          [] k = "Referer" /\ Len(text) > MAX_REFERER_LEN -> @[k] \o SubSeq(text, 1, MAX_REFERER_LEN)
          [] OTHER -> @[k] \o text]]

OnData(cb, text) ==
  CASE cb = "url" -> [w EXCEPT !.m_url = @ \o text]
    [] cb = "header_field" -> OnHeaderField(text)
    [] cb = "header_value" -> OnHeaderValue(text)
    [] cb = "body" -> [w EXCEPT !.m_body_content = @ \o text]

-----------------------------------------------------------------------------
(* One turn of the loop of http_parser_execute.                            *)

c == stream[p]
NoMarks == [url |-> 0, header_field |-> 0, header_value |-> 0, body |-> 0]

\* The parser as the switch sees it: the byte is counted on its first look only.
H == [h EXCEPT !.nread = IF fresh /\ PARSING_HEADER(h.state) THEN @ + 1 ELSE @]
Overflow == H.nread > HTTP_MAX_HEADER_SIZE

Looking == pc = "parse" /\ p <= arrived
At(states) == Looking /\ ~Overflow /\ h.state \in states

Advance == p' = p + 1 /\ fresh' = TRUE
reexecute_byte == UNCHANGED p /\ fresh' = FALSE

\* MARK: non-destructive.
MARK(cb) == [mark EXCEPT ![cb] = IF @ = 0 THEN p ELSE @]
\* CALLBACK_DATA up to the byte at "last"; nothing happens without a mark.
CALLBACK_DATA(cb, last) ==
  /\ w' = IF mark[cb] = 0 THEN w ELSE OnData(cb, SubSeq(stream, mark[cb], last))
  /\ mark' = [mark EXCEPT ![cb] = 0]

Now(parser) == h' = parser /\ UNCHANGED <<sent, stream, arrived>>
Running == UNCHANGED pc
Quiet == UNCHANGED <<mark, w>>

\* break without a callback: the next byte is looked at in the given state.
Next1(parser) == Now(parser) /\ Advance /\ Quiet /\ Running
To(s) == Next1([H EXCEPT !.state = s])
Stay == Next1(H)

\* goto error: http_parser_execute returns, the wrapper ignores the result.
Fail(e) == /\ Now([H EXCEPT !.http_errno = e])
           /\ pc' = "parsed"
           /\ UNCHANGED <<p, fresh, mark, w>>

\* http_should_keep_alive; http_message_needs_eof is 0 for a request.
http_should_keep_alive(parser) ==
  IF parser.http_major > 0 /\ parser.http_minor > 0
  THEN "CONNECTION_CLOSE" \notin parser.flags
  ELSE "CONNECTION_KEEP_ALIVE" \in parser.flags

NEW_MESSAGE(parser) == IF http_should_keep_alive(parser) THEN "s_start_req" ELSE "s_dead"

\* The end of a message: SetReadAll, and the state for the next one.
MessageComplete(parser) ==
  /\ Now([parser EXCEPT !.state = NEW_MESSAGE(parser)])
  /\ w' = [w EXCEPT !.m_read_all = TRUE]
  /\ UNCHANGED mark

HeaderOverflow == Looking /\ Overflow /\ Fail("HEADER_OVERFLOW")

Dead == At({"s_dead"}) /\ IF c \in {"CR", "LF"} THEN Stay ELSE Fail("CLOSED_CONNECTION")

StartReq ==
  /\ At({"s_start_req"})
  /\ \/ c \in {"CR", "LF"} /\ Stay
     \/ c \in DOMAIN FirstMethod
        /\ Next1([H EXCEPT !.state = "s_req_method", !.flags = {}, !.content_length = MaxUint,
                           !.method = FirstMethod[c], !.index = 1])
     \/ c \notin DOMAIN FirstMethod \cup {"CR", "LF"} /\ Fail("INVALID_METHOD")

\* matcher[index]: the byte of the method's name, or the NUL behind its end.
NameEnd == Len(method_strings[h.method])
Matches == h.index < NameEnd /\ c = method_strings[h.method][h.index + 1]
AtNul == c = "SP" /\ h.index = NameEnd

ReqMethod ==
  /\ At({"s_req_method"})
  /\ LET others == {o \in OtherMethod : o[1] = h.method /\ o[2] = h.index /\ o[3] = c}
     IN
     \/ AtNul /\ Next1([H EXCEPT !.state = "s_req_spaces_before_url", !.index = @ + 1])
     \/ Matches /\ Next1([H EXCEPT !.index = @ + 1])
     \/ ~Matches /\ \E o \in others : Next1([H EXCEPT !.method = o[4], !.index = @ + 1])
     \/ ~Matches /\ ~AtNul /\ others = {} /\ Fail("INVALID_METHOD")

Url(s, marks) ==
  IF parse_url_char(s, c) = "s_dead" THEN Fail("INVALID_URL")
  ELSE /\ Now([H EXCEPT !.state = parse_url_char(s, c)])
       /\ mark' = marks
       /\ Advance /\ Running /\ UNCHANGED w

SpacesBeforeUrl ==
  /\ At({"s_req_spaces_before_url"})
  /\ \/ c = "SP" /\ Stay
     \/ c # "SP" /\ Url(IF h.method = "CONNECT" THEN "s_req_server_start" ELSE h.state, MARK("url"))

UrlStart ==
  /\ At({"s_req_schema", "s_req_schema_slash", "s_req_schema_slash_slash", "s_req_server_start"})
  /\ IF c \in {"SP", "CR", "LF"} THEN Fail("INVALID_URL") ELSE Url(h.state, mark)

UrlRest ==
  /\ At({"s_req_server", "s_req_server_with_at", "s_req_path", "s_req_query_string_start",
         "s_req_query_string", "s_req_fragment_start", "s_req_fragment"})
  /\ \/ /\ c = "SP"
        /\ Now([H EXCEPT !.state = "s_req_http_start"])
        /\ CALLBACK_DATA("url", p - 1) /\ Advance /\ Running
     \/ /\ c \in {"CR", "LF"}
        /\ Now([H EXCEPT !.http_major = 0, !.http_minor = 9,
                         !.state = IF c = "CR" THEN "s_req_line_almost_done"
                                               ELSE "s_header_field_start"])
        /\ CALLBACK_DATA("url", p - 1) /\ Advance /\ Running
     \/ c \notin {"SP", "CR", "LF"} /\ Url(h.state, mark)

HttpLiteral ==
  [s_req_http_H |-> <<"T", "s_req_http_HT">>, s_req_http_HT |-> <<"T", "s_req_http_HTT">>,
   s_req_http_HTT |-> <<"P", "s_req_http_HTTP">>, s_req_http_HTTP |-> <<"/", "s_req_first_http_major">>]

HttpWord ==
  \/ /\ At({"s_req_http_start"})
     /\ CASE c = "H" -> To("s_req_http_H") [] c = "SP" -> Stay [] OTHER -> Fail("INVALID_CONSTANT")
  \/ /\ At(DOMAIN HttpLiteral)
     /\ IF c = HttpLiteral[h.state][1] THEN To(HttpLiteral[h.state][2]) ELSE Fail("STRICT")

HttpVersion ==
  \/ /\ At({"s_req_first_http_major"})
     /\ IF c \in Digits \ {"0"}
        THEN Next1([H EXCEPT !.http_major = unhex[c], !.state = "s_req_http_major"])
        ELSE Fail("INVALID_VERSION")
  \/ /\ At({"s_req_http_major"})
     /\ CASE c = "." -> To("s_req_first_http_minor")
          [] c \in Digits /\ h.http_major * 10 + unhex[c] <= 999 ->
               Next1([H EXCEPT !.http_major = @ * 10 + unhex[c]])
          [] OTHER -> Fail("INVALID_VERSION")
  \/ /\ At({"s_req_first_http_minor"})
     /\ IF c \in Digits
        THEN Next1([H EXCEPT !.http_minor = unhex[c], !.state = "s_req_http_minor"])
        ELSE Fail("INVALID_VERSION")
  \/ /\ At({"s_req_http_minor"})
     /\ CASE c = "CR" -> To("s_req_line_almost_done")
          [] c = "LF" -> To("s_header_field_start")
          [] c \in Digits /\ h.http_minor * 10 + unhex[c] <= 999 ->
               Next1([H EXCEPT !.http_minor = @ * 10 + unhex[c]])
          [] OTHER -> Fail("INVALID_VERSION")

ReqLineAlmostDone ==
  /\ At({"s_req_line_almost_done"})
  /\ IF c = "LF" THEN To("s_header_field_start") ELSE Fail("LF_EXPECTED")

-----------------------------------------------------------------------------
(* Headers.                                                                *)

\* What the letter-by-letter match of a header name has decided at its end.
header_states ==
  [k \in {"Connection", "Content-Length", "Transfer-Encoding", "Upgrade"} |->
     CASE k = "Connection" -> "h_connection" [] k = "Content-Length" -> "h_content_length"
       [] k = "Transfer-Encoding" -> "h_transfer_encoding" [] k = "Upgrade" -> "h_upgrade"]

HeaderFieldStart ==
  /\ At({"s_header_field_start"})
  /\ CASE c = "CR" -> To("s_headers_almost_done")
       [] c = "LF" -> /\ Now([H EXCEPT !.state = "s_headers_almost_done"])
                      /\ reexecute_byte /\ Running /\ Quiet
       [] c \in TOKEN -> /\ Now([H EXCEPT !.state = "s_header_field", !.index = 0,
                                  !.header_state = IF c \in DOMAIN header_states
                                                   THEN header_states[c] ELSE "h_general"])
                         /\ mark' = MARK("header_field")
                         /\ Advance /\ Running /\ UNCHANGED w
       [] OTHER -> Fail("INVALID_HEADER_TOKEN")

HeaderField ==
  /\ At({"s_header_field"})
  /\ IF c \in TOKEN THEN Next1([H EXCEPT !.header_state = "h_general"])
     ELSE \/ \E next \in {<<":", "s_header_value_start">>, <<"CR", "s_header_almost_done">>,
                          <<"LF", "s_header_field_start">>} :
               /\ c = next[1]
               /\ Now([H EXCEPT !.state = next[2]])
               /\ CALLBACK_DATA("header_field", p - 1) /\ Advance /\ Running
          \/ c \notin {":", "CR", "LF"} /\ Fail("INVALID_HEADER_TOKEN")

\* MARK and the first byte of the value; an empty value is reported at once.
HeaderValueStart ==
  /\ At({"s_header_value_start"})
  /\ LET V == [H EXCEPT !.state = "s_header_value", !.index = 0]
         Begin(parser) == Now(parser) /\ mark' = MARK("header_value") /\ Advance /\ Running /\ UNCHANGED w
         Empty(parser) == /\ Now(parser) /\ w' = OnHeaderValue(<<>>)
                          /\ Advance /\ Running /\ UNCHANGED mark
     IN
     CASE c \in {"SP", "TAB"} -> Stay
       [] c = "CR" -> Empty([V EXCEPT !.header_state = "h_general", !.state = "s_header_almost_done"])
       [] c = "LF" -> Empty([V EXCEPT !.state = "s_header_field_start"])
       [] h.header_state = "h_upgrade" /\ c \notin {"SP", "TAB", "CR", "LF"} ->
            Begin([V EXCEPT !.flags = @ \cup {"UPGRADE"}, !.header_state = "h_general"])
       [] h.header_state = "h_content_length" /\ c \notin {"SP", "TAB", "CR", "LF"} ->
            IF c \in Digits THEN Begin([V EXCEPT !.content_length = unhex[c]])
            ELSE Fail("INVALID_CONTENT_LENGTH")
       [] OTHER ->
            Begin([V EXCEPT !.header_state =
                     CASE h.header_state = "h_transfer_encoding" /\ c = "chunked" -> "h_transfer_encoding_chunked"
                       [] h.header_state = "h_connection" /\ c = "keep-alive" -> "h_connection_keep_alive"
                       [] h.header_state = "h_connection" /\ c = "close" -> "h_connection_close"
                       [] OTHER -> "h_general"])

HeaderValue ==
  /\ At({"s_header_value"})
  /\ \/ /\ c \in {"CR", "LF"}
        /\ Now([H EXCEPT !.state = "s_header_almost_done"])
        /\ CALLBACK_DATA("header_value", p - 1)
        /\ IF c = "CR" THEN Advance ELSE reexecute_byte
        /\ Running
     \/ /\ c \notin {"CR", "LF"} /\ h.header_state = "h_content_length"
        /\ LET t == (h.content_length * 10 + unhex[c]) % (MaxUint + 1) IN
           CASE c = "SP" -> Stay
             [] c \in Digits /\ ~(t < h.content_length \/ t = MaxUint) ->
                  Next1([H EXCEPT !.content_length = t])
             [] OTHER -> Fail("INVALID_CONTENT_LENGTH")
     \/ /\ c \notin {"CR", "LF"} /\ h.header_state # "h_content_length"
        /\ Next1([H EXCEPT !.header_state =
                    IF c = "SP" /\ @ \in {"h_transfer_encoding_chunked", "h_connection_keep_alive",
                                          "h_connection_close"}
                    THEN @ ELSE "h_general"])

HeaderAlmostDone ==
  /\ At({"s_header_almost_done"})
  /\ IF c # "LF" THEN Fail("STRICT")
     ELSE Next1([H EXCEPT
            !.state = "s_header_value_lws",
            !.flags = @ \cup CASE h.header_state = "h_connection_keep_alive" -> {"CONNECTION_KEEP_ALIVE"}
                               [] h.header_state = "h_connection_close" -> {"CONNECTION_CLOSE"}
                               [] h.header_state = "h_transfer_encoding_chunked" -> {"CHUNKED"}
                               [] OTHER -> {}])

\* A line that begins with white space continues the value.
HeaderValueLws ==
  /\ At({"s_header_value_lws"})
  /\ IF c \in {"SP", "TAB"} THEN To("s_header_value_start")
     ELSE Now([H EXCEPT !.state = "s_header_field_start"]) /\ reexecute_byte /\ Running /\ Quiet

OnHeadersComplete(parser) ==
  w' = [w EXCEPT !.m_total_length = (parser.nread + parser.content_length) % (MaxUint + 1)]

HeadersAlmostDone ==
  /\ At({"s_headers_almost_done"})
  /\ IF c # "LF" THEN Fail("STRICT")
     ELSE \/ "TRAILING" \in h.flags /\ MessageComplete(H) /\ Advance /\ Running
          \/ /\ "TRAILING" \notin h.flags
             /\ Now([H EXCEPT !.state = "s_headers_done",
                              !.upgrade = "UPGRADE" \in h.flags \/ h.method = "CONNECT"])
             /\ OnHeadersComplete(H)
             /\ reexecute_byte /\ Running /\ UNCHANGED mark

HeadersDone ==
  /\ At({"s_headers_done"})
  /\ LET D == [H EXCEPT !.nread = 0] IN
     IF c # "LF" THEN Fail("STRICT")
     ELSE \/ h.upgrade /\ MessageComplete(D) /\ Advance /\ pc' = "parsed"
          \/ ~h.upgrade /\ "CHUNKED" \in h.flags /\ Next1([D EXCEPT !.state = "s_chunk_size_start"])
          \/ /\ ~h.upgrade /\ "CHUNKED" \notin h.flags
             /\ IF h.content_length \in {0, MaxUint} THEN MessageComplete(D) /\ Advance /\ Running
                ELSE Next1([D EXCEPT !.state = "s_body_identity"])

-----------------------------------------------------------------------------
(* Bodies.                                                                 *)

\* MIN(content_length, what is left of the buffer).
to_read == IF h.content_length < arrived - p + 1 THEN h.content_length ELSE arrived - p + 1

\* The body is taken as a block; its last byte is seen again for the end of the message.
BodyIdentity ==
  /\ At({"s_body_identity"})
  /\ p' = p + to_read - 1 + (IF to_read = h.content_length THEN 0 ELSE 1)
  /\ fresh' = (to_read # h.content_length)
  /\ IF to_read = h.content_length
     THEN /\ Now([H EXCEPT !.content_length = 0, !.state = "s_message_done"])
          /\ w' = OnData("body", SubSeq(stream, MARK("body").body, p + to_read - 1))
          /\ UNCHANGED mark
     ELSE /\ Now([H EXCEPT !.content_length = @ - to_read])
          /\ mark' = MARK("body")
          /\ UNCHANGED w
  /\ Running

MessageDone == At({"s_message_done"}) /\ MessageComplete(H) /\ Advance /\ Running

ChunkSizeStart ==
  /\ At({"s_chunk_size_start"})
  /\ IF c \in DOMAIN unhex THEN Next1([H EXCEPT !.content_length = unhex[c], !.state = "s_chunk_size"])
     ELSE Fail("INVALID_CHUNK_SIZE")

ChunkSize ==
  /\ At({"s_chunk_size"})
  /\ LET t == (h.content_length * 16 + unhex[c]) % (MaxUint + 1) IN
     CASE c = "CR" -> To("s_chunk_size_almost_done")
       [] c \in {";", "SP"} -> To("s_chunk_parameters")
       [] c \in DOMAIN unhex ->
            IF t < h.content_length \/ t = MaxUint THEN Fail("INVALID_CONTENT_LENGTH")
            ELSE Next1([H EXCEPT !.content_length = t])
       [] OTHER -> Fail("INVALID_CHUNK_SIZE")

ChunkParameters ==
  At({"s_chunk_parameters"}) /\ IF c = "CR" THEN To("s_chunk_size_almost_done") ELSE Stay

\* The chunk of size zero is followed by trailing headers.
ChunkSizeAlmostDone ==
  /\ At({"s_chunk_size_almost_done"})
  /\ CASE c # "LF" -> Fail("STRICT")
       [] c = "LF" /\ h.content_length = 0 ->
            Next1([H EXCEPT !.nread = 0, !.flags = @ \cup {"TRAILING"}, !.state = "s_header_field_start"])
       [] OTHER -> Next1([H EXCEPT !.nread = 0, !.state = "s_chunk_data"])

\* Mutant: a chunk that goes on beyond the buffer is taken for complete.
ChunkDataAlways ==
  /\ At({"s_chunk_data"})
  /\ Now([H EXCEPT !.content_length = @ - to_read, !.state = "s_chunk_data_almost_done"])
  /\ mark' = MARK("body")
  /\ p' = p + to_read /\ fresh' = TRUE
  /\ Running /\ UNCHANGED w

ChunkData ==
  /\ At({"s_chunk_data"})
  /\ Now([H EXCEPT !.content_length = @ - to_read,
                   !.state = IF to_read = h.content_length THEN "s_chunk_data_almost_done" ELSE @])
  /\ mark' = MARK("body")
  /\ p' = p + to_read /\ fresh' = TRUE
  /\ Running /\ UNCHANGED w

ChunkDataAlmostDone ==
  /\ At({"s_chunk_data_almost_done"})
  /\ IF c # "CR" THEN Fail("STRICT")
     ELSE /\ Now([H EXCEPT !.state = "s_chunk_data_done"])
          /\ CALLBACK_DATA("body", p - 1) /\ Advance /\ Running

ChunkDataDone ==
  /\ At({"s_chunk_data_done"})
  /\ IF c # "LF" THEN Fail("STRICT") ELSE Next1([H EXCEPT !.nread = 0, !.state = "s_chunk_size_start"])

\* The buffer is used up: the callback of the one mark that may be left over.
EndOfBuffer ==
  /\ pc = "parse" /\ p > arrived
  /\ \/ mark = NoMarks /\ Quiet
     \/ \E cb \in DOMAIN mark : mark[cb] # 0 /\ CALLBACK_DATA(cb, arrived)
  /\ pc' = "parsed"
  /\ Now(h) /\ UNCHANGED <<p, fresh>>

-----------------------------------------------------------------------------
(* The client, and CHttpConn::OnRead.                                      *)

Line(r, name, value) == name \o <<":", "SP">> \o value \o r.eol

Flat(r) ==
  r.name \o <<"SP">> \o r.url \o <<"SP", "H", "T", "T", "P", "/", "1", ".", r.minor>> \o r.eol
  \o FlattenSeq([i \in DOMAIN r.headers |-> Line(r, r.headers[i][1], r.headers[i][2])])
  \o r.eol \o r.coded

\* What a client sends is a sequence of symbols.
ASSUME InputsAssumption == /\ \A r \in Requests : Flat(r) \in Seq(STRING)
                           /\ Altered \subseteq Seq(STRING)

http_parser_init ==
  [state |-> "s_start_req", header_state |-> "h_general", flags |-> {}, index |-> 0, nread |-> 0,
   content_length |-> 0, http_major |-> 0, http_minor |-> 0, method |-> "DELETE",
   upgrade |-> FALSE, http_errno |-> "OK"]

Init ==
  /\ \/ \E r \in Requests : sent = <<r>> /\ stream = Flat(r)
     \/ sent = <<>> /\ stream \in Altered
  /\ arrived = 0 /\ pc = "idle"
  /\ p = 1 /\ fresh = TRUE /\ h = http_parser_init /\ mark = NoMarks /\ w = NothingRead

\* Mutant: the members of the wrapper keep what the previous parse left.
OnReadKeeps ==
  /\ pc \in {"idle", "parsed"} /\ arrived < Len(stream)
  /\ \E n \in (IF sent = <<>> THEN {Len(stream)} ELSE arrived + 1 .. Len(stream)) : arrived' = n
  /\ pc' = "parse"
  /\ p' = 1 /\ fresh' = TRUE /\ h' = http_parser_init /\ mark' = NoMarks
  /\ UNCHANGED <<sent, stream, w>>

\* recv appends to m_in_buf; ParseHttpContent starts over on the whole buffer.
OnRead ==
  /\ pc \in {"idle", "parsed"} /\ arrived < Len(stream)
  /\ \E n \in (IF sent = <<>> THEN {Len(stream)} ELSE arrived + 1 .. Len(stream)) :
       /\ arrived' = n
       /\ pc' = IF n > MaxRequest THEN "closed" ELSE "parse"
  /\ p' = 1 /\ fresh' = TRUE /\ h' = http_parser_init /\ mark' = NoMarks /\ w' = NothingRead
  /\ UNCHANGED <<sent, stream>>

Execute ==
  \/ HeaderOverflow \/ Dead \/ StartReq \/ ReqMethod \/ SpacesBeforeUrl \/ UrlStart \/ UrlRest
  \/ HttpWord \/ HttpVersion \/ ReqLineAlmostDone
  \/ HeaderFieldStart \/ HeaderField \/ HeaderValueStart \/ HeaderValue
  \/ HeaderAlmostDone \/ HeaderValueLws \/ HeadersAlmostDone \/ HeadersDone
  \/ BodyIdentity \/ MessageDone
  \/ ChunkSizeStart \/ ChunkSize \/ ChunkParameters \/ ChunkSizeAlmostDone
  \/ ChunkData \/ ChunkDataAlmostDone \/ ChunkDataDone
  \/ EndOfBuffer

Next == OnRead \/ Execute

Spec == Init /\ [][Next]_vars

-----------------------------------------------------------------------------
(* Properties.                                                             *)

First(r, k) ==
  LET at == {i \in DOMAIN r.headers : r.headers[i][1][1] = k /\ r.headers[i][2] # <<>>}
  IN  IF at = {} THEN <<>> ELSE r.headers[CHOOSE i \in at : \A j \in at : i <= j][2]

Cut(k, text) == IF k = "Referer" /\ Len(text) > MAX_REFERER_LEN THEN SubSeq(text, 1, MAX_REFERER_LEN) ELSE text

\* However a request is cut into pieces, it is reported complete by the read that brings its
\* last byte and by no earlier one, without an error before it, and what OnRead then hands on
\* (URL, body, the headers it keeps) is what the client sent: identity and chunked bodies,
\* CRLF and LF line ends, every method the parser can finish.
RequestReadExactly ==
  pc = "parsed" /\ sent # <<>> =>
    /\ w.m_read_all <=> arrived = Len(stream)
    /\ h.http_errno = "OK"
    /\ w.m_read_all => /\ w.m_url = sent[1].url
                       /\ w.m_body_content = sent[1].body
                       /\ h.method = sent[1].method
                       /\ \A k \in Kept \ {"Content-Length"} : w.m_value[k] = Cut(k, First(sent[1], k))

\* The assertions of http_parser.cpp hold for every buffer, well-formed or not: at most one
\* mark is set, no value is matched in a state that "should not be here", a chunk's size is
\* the first byte counted after the headers, a body is only read with a length, and chunk
\* states only follow the chunked header.
ParserAssertions ==
  /\ Cardinality({cb \in DOMAIN mark : mark[cb] # 0}) <= 1
  /\ h.state = "s_header_value" => h.header_state \notin {"h_connection", "h_transfer_encoding"}
  /\ Looking /\ h.state \in {"s_body_identity", "s_chunk_data"} => h.content_length \notin {0, MaxUint}
  /\ Looking /\ h.state = "s_chunk_size_start" => H.nread = 1
  /\ Looking /\ h.state \in {"s_chunk_size_start", "s_chunk_size", "s_chunk_parameters",
                             "s_chunk_size_almost_done", "s_chunk_data",
                             "s_chunk_data_almost_done", "s_chunk_data_done"} => "CHUNKED" \in h.flags
  /\ h.state = "s_chunk_data_almost_done" => h.content_length = 0
=============================================================================
