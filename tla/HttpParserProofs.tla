--------------------------- MODULE HttpParserProofs ---------------------------
(***************************************************************************)
(* The assertions of http_parser.cpp, for every buffer of any length, cut  *)
(* into any pieces, and for any width of a length.                         *)
(***************************************************************************)
EXTENDS HttpParser, FiniteSetTheorems, TLAPS

Names == {"state", "header_state", "flags", "index", "nread", "content_length", "http_major", "http_minor",
          "method", "upgrade", "http_errno"}
Callbacks == {"url", "header_field", "header_value", "body"}

UrlStates == {"s_req_schema", "s_req_schema_slash", "s_req_schema_slash_slash", "s_req_server_start",
              "s_req_server", "s_req_server_with_at", "s_req_path", "s_req_query_string_start",
              "s_req_query_string", "s_req_fragment_start", "s_req_fragment"}
ChunkStates == {"s_chunk_size_start", "s_chunk_size", "s_chunk_parameters", "s_chunk_size_almost_done",
                "s_chunk_data", "s_chunk_data_almost_done", "s_chunk_data_done"}

(* The states in which a callback's data has begun and not been reported.  *)
MarkedIn == [cb \in Callbacks |-> IF cb = "url" THEN UrlStates
                                  ELSE IF cb = "header_field" THEN {"s_header_field"}
                                  ELSE IF cb = "header_value" THEN {"s_header_value"}
                                  ELSE {"s_body_identity", "s_chunk_data", "s_chunk_data_almost_done"}]

(* States that say something of the other fields of the parser.            *)
Special == ChunkStates \cup {"s_header_value", "s_body_identity"}

Fields(parser) ==
  /\ DOMAIN parser = Names
  /\ parser.nread \in Nat /\ parser.content_length \in 0 .. MaxUint

ParserOK(parser) ==
  /\ Fields(parser)
  /\ parser.state = "s_header_value" => parser.header_state \notin {"h_connection", "h_transfer_encoding"}
  /\ parser.state \in {"s_body_identity", "s_chunk_data"} => parser.content_length \notin {0, MaxUint}
  /\ parser.state \in {"s_chunk_size", "s_chunk_parameters", "s_chunk_size_almost_done"} =>
       parser.content_length # MaxUint
  /\ parser.state = "s_chunk_data_almost_done" => parser.content_length = 0
  /\ parser.state \in ChunkStates => "CHUNKED" \in parser.flags

MarksOK(state, marks) ==
  /\ marks \in [Callbacks -> Nat]
  /\ \A cb \in Callbacks : marks[cb] # 0 => state \in MarkedIn[cb]

(* While the buffer is parsed: the size of a chunk begins the count of     *)
(* bytes anew, and a body that was not all there used the buffer up.       *)
Midway(parser, marks, pos, first) ==
  /\ parser.state = "s_chunk_size_start" => parser.nread = 0 /\ first
  /\ parser.state = "s_body_identity" /\ marks["body"] # 0 => pos > arrived

IInv ==
  /\ pc \in {"idle", "parse", "parsed", "closed"}
  /\ p \in Nat /\ arrived \in Nat /\ stream \in Seq(STRING)
  /\ ParserOK(h)
  /\ MarksOK(h.state, mark)
  /\ pc = "parse" => Midway(h, mark, p, fresh)

-----------------------------------------------------------------------------
(* What the parts of the actions keep.                                     *)

LEMMA Counted ==
  ASSUME Fields(h)
  PROVE  /\ Fields(H) /\ H.state = h.state /\ H.flags = h.flags /\ H.content_length = h.content_length
         /\ H.header_state = h.header_state
         /\ (fresh /\ PARSING_HEADER(h.state) => H.nread = h.nread + 1)
BY DEF Fields, H, Names

LEMMA SameParser ==
  ASSUME NEW a, NEW b, ParserOK(a), Fields(b), b.state = a.state, b.flags = a.flags,
         b.content_length = a.content_length, b.header_state = a.header_state
  PROVE  ParserOK(b)
BY DEF ParserOK

LEMMA CountedOK == ASSUME ParserOK(h) PROVE ParserOK(H)
BY Counted, SameParser DEF ParserOK

LEMMA Failed ==
  ASSUME IInv, NEW e, Fail(e)
  PROVE  IInv'
<1>1. ParserOK(h) /\ ParserOK(H) /\ Fields(H) /\ H.state = h.state
  BY CountedOK, Counted DEF IInv, ParserOK
<1>2. /\ h' = [H EXCEPT !.http_errno = e] /\ pc' = "parsed" /\ p' = p /\ mark' = mark /\ arrived' = arrived
      /\ stream' = stream
  BY DEF Fail, Now
<1> HIDE DEF H
<1>3. /\ Fields(h') /\ h'.state = H.state /\ h'.flags = H.flags /\ h'.content_length = H.content_length
      /\ h'.header_state = H.header_state
  BY <1>1, <1>2 DEF Fields, Names
<1>4. ParserOK(h')
  BY <1>1, <1>3, SameParser
<1> QED BY <1>1, <1>2, <1>3, <1>4 DEF IInv

LEMMA Simple ==
  ASSUME NEW ps, Fields(ps), ps.state \notin Special
  PROVE  ParserOK(ps)
BY DEF ParserOK, Special, ChunkStates

(* No data has begun: no mark is set.                                      *)
Marked == UrlStates \cup {"s_header_field", "s_header_value", "s_body_identity", "s_chunk_data", "s_chunk_data_almost_done"}

LEMMA Unmarked ==
  ASSUME IInv, h.state \notin Marked, NEW s
  PROVE  MarksOK(s, mark) /\ mark["body"] = 0 /\ \A cb \in Callbacks : mark[cb] = 0
BY DEF IInv, MarksOK, MarkedIn, Marked, Callbacks

LEMMA Moved ==
  ASSUME IInv, NEW ps, Now(ps), ParserOK(ps), p' \in Nat, MarksOK(ps.state, mark'), pc' \in {"parse", "parsed"},
         pc' = "parse" => Midway(ps, mark', p', fresh')
  PROVE  IInv'
BY DEF IInv, Now, Midway

LEMMA Steps ==
  ASSUME IInv, Looking, NEW ps, Next1(ps), ParserOK(ps), MarksOK(ps.state, mark),
         ps.state = "s_chunk_size_start" => ps.nread = 0,
         ps.state = "s_body_identity" => mark["body"] = 0
  PROVE  IInv'
<1>1. Now(ps) /\ p' = p + 1 /\ fresh' = TRUE /\ mark' = mark /\ pc' = "parse"
  BY DEF Next1, Advance, Quiet, Running, Looking
<1>2. p' \in Nat
  BY <1>1 DEF IInv
<1>3. Midway(ps, mark', p', fresh')
  BY <1>1 DEF Midway
<1> QED BY <1>1, <1>2, <1>3, Moved

(* From a state without a mark to one that says nothing of other fields.   *)
LEMMA Walks ==
  ASSUME IInv, Looking, h.state \notin Marked, NEW ps, Next1(ps), Fields(ps), ps.state \notin Special
  PROVE  IInv'
<1>1. ParserOK(ps) /\ MarksOK(ps.state, mark)
  BY Simple, Unmarked
<1> QED BY <1>1, Steps DEF Special, ChunkStates

LEMMA Reaches ==
  ASSUME IInv, Looking, h.state \notin Marked, NEW s, s \notin Special, To(s)
  PROVE  IInv'
<1> DEFINE ps == [H EXCEPT !.state = s]
<1>1. Fields(ps) /\ ps.state = s
  BY Counted DEF IInv, ParserOK, Fields, Names
<1>2. Next1(ps)
  BY DEF To
<1> HIDE DEF ps
<1> QED BY <1>1, <1>2, Walks

LEMMA Stays ==
  ASSUME IInv, Looking, h.state # "s_chunk_size_start", h.state = "s_body_identity" => mark["body"] = 0, Stay
  PROVE  IInv'
<1>1. ParserOK(H) /\ H.state = h.state /\ MarksOK(H.state, mark)
  BY CountedOK, Counted DEF IInv, ParserOK
<1>2. Next1(H)
  BY DEF Stay
<1> HIDE DEF H
<1> QED BY <1>1, <1>2, Steps

LEMMA UrlChars == \A s, ch : parse_url_char(s, ch) \in UrlStates \cup {"s_dead"}
<1> SUFFICES ASSUME NEW s, NEW ch PROVE parse_url_char(s, ch) \in UrlStates \cup {"s_dead"}
  OBVIOUS
<1> DEFINE U == UrlStates \cup {"s_dead"}
<1>1. /\ "s_dead" \in U /\ "s_req_path" \in U /\ "s_req_schema" \in U /\ "s_req_schema_slash" \in U
      /\ "s_req_schema_slash_slash" \in U /\ "s_req_server_start" \in U /\ "s_req_query_string_start" \in U
      /\ "s_req_server_with_at" \in U /\ "s_req_server" \in U /\ "s_req_fragment_start" \in U
      /\ "s_req_query_string" \in U /\ "s_req_fragment" \in U
  BY DEF UrlStates
<1> HIDE DEF U
<1>2. parse_url_char(s, ch) \in U
  BY <1>1, ZenonT(60) DEF parse_url_char
<1> QED BY <1>2 DEF U

-----------------------------------------------------------------------------
(* The request line.                                                       *)

LEMMA LooksAt ==
  ASSUME NEW states, At(states)
  PROVE  Looking /\ ~Overflow /\ h.state \in states /\ pc = "parse" /\ p <= arrived
BY DEF At, Looking

LEMMA DeadKeeps == ASSUME IInv, Dead PROVE IInv'
<1>1. Looking /\ h.state = "s_dead"
  BY LooksAt DEF Dead
<1>2. Stay \/ Fail("CLOSED_CONNECTION")
  BY DEF Dead
<1>3. h.state # "s_chunk_size_start" /\ h.state # "s_body_identity"
  BY <1>1
<1> QED BY <1>1, <1>2, <1>3, Stays, Failed

LEMMA StartReqKeeps == ASSUME IInv, StartReq PROVE IInv'
<1>1. Looking /\ h.state = "s_start_req"
  BY LooksAt DEF StartReq
<1>2. h.state # "s_chunk_size_start" /\ h.state # "s_body_identity" /\ h.state \notin Marked
  BY <1>1 DEF Marked, UrlStates
<1>3. CASE Next1([H EXCEPT !.state = "s_req_method", !.flags = {}, !.content_length = MaxUint,
                           !.method = FirstMethod[c], !.index = 1])
  <2> DEFINE a == [H EXCEPT !.state = "s_req_method", !.flags = {}]
             b == [a EXCEPT !.content_length = MaxUint]
             d == [b EXCEPT !.method = FirstMethod[c], !.index = 1]
  <2>1. Fields(H)
    BY Counted DEF IInv, ParserOK
  <2> HIDE DEF H
  <2>2. Fields(a) /\ a.state = "s_req_method"
    BY <2>1 DEF Fields, Names
  <2> HIDE DEF a
  <2>3. MaxUint \in 0 .. MaxUint
    BY SizesAssumption
  <2>4. Fields(b) /\ b.state = "s_req_method"
    BY <2>2, <2>3 DEF Fields, Names
  <2> HIDE DEF b
  <2>5. Fields(d) /\ d.state = "s_req_method" /\ d.state \notin Special
    BY <2>4 DEF Fields, Names, Special, ChunkStates
  <2>6. Next1(d)
    BY <1>3 DEF d, b, a
  <2> HIDE DEF d
  <2> QED BY <1>1, <1>2, <2>5, <2>6, Walks
<1>4. CASE Stay
  BY <1>1, <1>2, <1>4, Stays
<1>5. CASE Fail("INVALID_METHOD")
  BY <1>5, Failed
<1> QED BY <1>3, <1>4, <1>5 DEF StartReq

(* The parser as the switch sees it, in every action.                      *)
LEMMA Seen ==
  ASSUME IInv
  PROVE  /\ Fields(H) /\ ParserOK(H) /\ H.state = h.state /\ H.flags = h.flags
         /\ H.content_length = h.content_length /\ H.header_state = h.header_state
         /\ H.content_length \in 0 .. MaxUint /\ MarksOK(H.state, mark)
BY Counted, CountedOK DEF IInv, ParserOK, Fields

LEMMA ReqMethodKeeps == ASSUME IInv, ReqMethod PROVE IInv'
<1>1. Looking /\ h.state = "s_req_method"
  <2>1. At({"s_req_method"})
    BY Zenon DEF ReqMethod
  <2> QED BY <2>1, LooksAt
<1>2. h.state \notin Marked /\ Fields(H) /\ H.state = "s_req_method"
  BY <1>1, Seen DEF Marked, UrlStates
<1>3. \/ Next1([H EXCEPT !.state = "s_req_spaces_before_url", !.index = @ + 1])
      \/ Next1([H EXCEPT !.index = @ + 1])
      \/ \E m : Next1([H EXCEPT !.method = m, !.index = @ + 1])
      \/ Fail("INVALID_METHOD")
  BY DEF ReqMethod
<1> HIDE DEF H
<1>4. CASE Next1([H EXCEPT !.state = "s_req_spaces_before_url", !.index = @ + 1])
  <2> DEFINE ps == [H EXCEPT !.state = "s_req_spaces_before_url", !.index = @ + 1]
  <2>1. Fields(ps) /\ ps.state \notin Special
    BY <1>2 DEF Fields, Names, Special, ChunkStates
  <2>2. Next1(ps)
    BY <1>4
  <2> HIDE DEF ps
  <2> QED BY <1>1, <1>2, <2>1, <2>2, Walks
<1>5. CASE Next1([H EXCEPT !.index = @ + 1])
  <2> DEFINE ps == [H EXCEPT !.index = @ + 1]
  <2>1. Fields(ps) /\ ps.state \notin Special
    BY <1>2 DEF Fields, Names, Special, ChunkStates
  <2>2. Next1(ps)
    BY <1>5
  <2> HIDE DEF ps
  <2> QED BY <1>1, <1>2, <2>1, <2>2, Walks
<1>6. ASSUME NEW m, Next1([H EXCEPT !.method = m, !.index = @ + 1]) PROVE IInv'
  <2> DEFINE ps == [H EXCEPT !.method = m, !.index = @ + 1]
  <2>1. Fields(ps) /\ ps.state \notin Special
    BY <1>2 DEF Fields, Names, Special, ChunkStates
  <2>2. Next1(ps)
    BY <1>6
  <2> HIDE DEF ps
  <2> QED BY <1>1, <1>2, <2>1, <2>2, Walks
<1>7. CASE Fail("INVALID_METHOD")
  BY <1>7, Failed
<1> QED BY <1>3, <1>4, <1>5, <1>6, <1>7

LEMMA UrlKeeps ==
  ASSUME IInv, Looking, h.state \in UrlStates \cup {"s_req_spaces_before_url"}, NEW s, NEW marks, Url(s, marks),
         \/ marks = mark /\ h.state \in UrlStates
         \/ marks = MARK("url")
  PROVE  IInv'
<1> DEFINE next == parse_url_char(s, c)
           ps == [H EXCEPT !.state = next]
<1>1. Fields(H) /\ mark \in [Callbacks -> Nat] /\ p \in Nat
      /\ \A cb \in Callbacks : mark[cb] # 0 => h.state \in MarkedIn[cb]
  BY Seen DEF IInv, MarksOK
<1>2. CASE Fail("INVALID_URL")
  BY <1>2, Failed
<1>3. CASE next # "s_dead" /\ Now(ps) /\ mark' = marks /\ Advance /\ Running
  <2>1. next \in UrlStates
    BY <1>3, UrlChars
  <2>2. marks \in [Callbacks -> Nat] /\ \A cb \in Callbacks : cb # "url" => marks[cb] = mark[cb]
    BY <1>1 DEF MARK, Callbacks
  <2> HIDE DEF H, next
  <2>3. Fields(ps) /\ ps.state = next
    BY <1>1 DEF Fields, Names
  <2>4. Now(ps) /\ p' \in Nat /\ mark' = marks /\ pc' = "parse"
    BY <1>1, <1>3 DEF Advance, Running, Looking
  <2> HIDE DEF ps
  <2>5. next \notin Special
    BY <2>1 DEF UrlStates, Special, ChunkStates
  <2>6. MarksOK(next, marks)
    <3> SUFFICES ASSUME NEW cb \in Callbacks, marks[cb] # 0 PROVE next \in MarkedIn[cb]
      BY <2>2 DEF MarksOK
    <3>1. cb = "url"
      <4> SUFFICES ASSUME cb # "url" PROVE FALSE
        OBVIOUS
      <4>1. h.state \in MarkedIn[cb]
        BY <1>1, <2>2
      <4> QED BY <4>1 DEF MarkedIn, Callbacks, UrlStates
    <3> QED BY <2>1, <3>1 DEF MarkedIn, Callbacks
  <2>7. ParserOK(ps)
    BY <2>3, <2>5, Simple
  <2>8. Midway(ps, mark', p', fresh')
    BY <2>3, <2>5 DEF Midway, Special, ChunkStates
  <2> QED BY <2>3, <2>4, <2>6, <2>7, <2>8, Moved
<1> QED BY <1>2, <1>3 DEF Url

LEMMA SpacesBeforeUrlKeeps == ASSUME IInv, SpacesBeforeUrl PROVE IInv'
<1>1. Looking /\ h.state = "s_req_spaces_before_url"
  BY LooksAt DEF SpacesBeforeUrl
<1>2. Stay \/ \E s : Url(s, MARK("url"))
  BY DEF SpacesBeforeUrl
<1>3. CASE Stay
  BY <1>1, <1>3, Stays
<1>4. ASSUME NEW s, Url(s, MARK("url")) PROVE IInv'
  BY <1>1, <1>4, UrlKeeps
<1> QED BY <1>2, <1>3, <1>4

LEMMA UrlStartKeeps == ASSUME IInv, UrlStart PROVE IInv'
<1>1. Looking /\ h.state \in UrlStates
  BY LooksAt DEF UrlStart, UrlStates
<1>2. Fail("INVALID_URL") \/ Url(h.state, mark)
  BY DEF UrlStart
<1> QED BY <1>1, <1>2, Failed, UrlKeeps

(* A callback reports the data that has begun, and takes its mark back.    *)
LEMMA Reported ==
  ASSUME IInv, NEW cb \in Callbacks, h.state \in MarkedIn[cb], NEW last, CALLBACK_DATA(cb, last), NEW s
  PROVE  MarksOK(s, mark') /\ mark'["body"] = 0
<1>1. mark \in [Callbacks -> Nat] /\ \A k \in Callbacks : mark[k] # 0 => h.state \in MarkedIn[k]
  BY DEF IInv, MarksOK
<1>2. mark' = [mark EXCEPT ![cb] = 0]
  BY DEF CALLBACK_DATA
<1>3. ASSUME NEW k \in Callbacks, k # cb PROVE mark[k] = 0
  <2>1. h.state \notin MarkedIn[k]
    BY <1>3 DEF MarkedIn, Callbacks, UrlStates
  <2> QED BY <1>1, <2>1
<1>4. mark' \in [Callbacks -> Nat] /\ \A k \in Callbacks : mark'[k] = 0
  BY <1>1, <1>2, <1>3
<1> QED BY <1>4 DEF MarksOK, Callbacks

(* A state is left by a callback for one that says nothing of the rest.    *)
LEMMA Reports ==
  ASSUME IInv, Looking, NEW cb \in Callbacks, h.state \in MarkedIn[cb], NEW last, CALLBACK_DATA(cb, last),
         NEW ps, Now(ps), Fields(ps), ps.state \notin Special, Advance \/ reexecute_byte, Running
  PROVE  IInv'
<1>1. MarksOK(ps.state, mark')
  BY Reported
<1>2. p' \in Nat /\ pc' = "parse"
  BY DEF IInv, Advance, reexecute_byte, Running, Looking
<1>3. ParserOK(ps)
  BY Simple
<1>4. Midway(ps, mark', p', fresh')
  BY DEF Midway, Special, ChunkStates
<1> QED BY <1>1, <1>2, <1>3, <1>4, Moved

LEMMA UrlRestKeeps == ASSUME IInv, UrlRest PROVE IInv'
<1>1. Looking /\ h.state \in UrlStates
  BY LooksAt DEF UrlRest, UrlStates
<1>2. Fields(H) /\ "url" \in Callbacks /\ h.state \in MarkedIn["url"]
  BY <1>1, Seen DEF MarkedIn, Callbacks
<1>3. \/ Now([H EXCEPT !.state = "s_req_http_start"]) /\ CALLBACK_DATA("url", p - 1) /\ Advance /\ Running
      \/ \E s \in {"s_req_line_almost_done", "s_header_field_start"} :
           /\ Now([H EXCEPT !.http_major = 0, !.http_minor = 9, !.state = s])
           /\ CALLBACK_DATA("url", p - 1) /\ Advance /\ Running
      \/ Url(h.state, mark)
  BY DEF UrlRest
<1> HIDE DEF H
<1>4. CASE Now([H EXCEPT !.state = "s_req_http_start"]) /\ CALLBACK_DATA("url", p - 1) /\ Advance /\ Running
  <2> DEFINE ps == [H EXCEPT !.state = "s_req_http_start"]
  <2>1. Fields(ps) /\ ps.state \notin Special
    BY <1>2 DEF Fields, Names, Special, ChunkStates
  <2>2. Now(ps)
    BY <1>4
  <2> HIDE DEF ps
  <2> QED BY <1>1, <1>2, <1>4, <2>1, <2>2, Reports
<1>5. ASSUME NEW s \in {"s_req_line_almost_done", "s_header_field_start"},
             Now([H EXCEPT !.http_major = 0, !.http_minor = 9, !.state = s]),
             CALLBACK_DATA("url", p - 1), Advance, Running
      PROVE  IInv'
  <2> DEFINE ps == [H EXCEPT !.http_major = 0, !.http_minor = 9, !.state = s]
  <2>1. Fields(ps) /\ ps.state \notin Special
    BY <1>2 DEF Fields, Names, Special, ChunkStates
  <2>2. Now(ps)
    BY <1>5
  <2> HIDE DEF ps
  <2> QED BY <1>1, <1>2, <1>5, <2>1, <2>2, Reports
<1>6. CASE Url(h.state, mark)
  BY <1>1, <1>6, UrlKeeps
<1> QED BY <1>3, <1>4, <1>5, <1>6

LEMMA HttpWordKeeps == ASSUME IInv, HttpWord PROVE IInv'
<1>1. Looking /\ h.state \in {"s_req_http_start"} \cup DOMAIN HttpLiteral
  BY LooksAt DEF HttpWord
<1>2. h.state \in {"s_req_http_start", "s_req_http_H", "s_req_http_HT", "s_req_http_HTT", "s_req_http_HTTP"}
  BY <1>1 DEF HttpLiteral
<1>3. h.state # "s_chunk_size_start" /\ h.state # "s_body_identity" /\ h.state \notin Marked
  BY <1>2 DEF Marked, UrlStates
<1>4. \/ To("s_req_http_H") \/ Stay \/ Fail("INVALID_CONSTANT") \/ Fail("STRICT")
      \/ h.state \in DOMAIN HttpLiteral /\ To(HttpLiteral[h.state][2])
  BY DEF HttpWord, At
<1>5. CASE To("s_req_http_H")
  <2>1. "s_req_http_H" \notin Special
    BY DEF Special, ChunkStates
  <2> QED BY <1>1, <1>3, <1>5, <2>1, Reaches
<1>6. CASE Stay
  BY <1>1, <1>3, <1>6, Stays
<1>7. CASE h.state \in DOMAIN HttpLiteral /\ To(HttpLiteral[h.state][2])
  <2>1. HttpLiteral[h.state][2] \notin Special
    BY <1>7 DEF HttpLiteral, Special, ChunkStates
  <2> QED BY <1>1, <1>3, <1>7, <2>1, Reaches
<1> QED BY <1>4, <1>5, <1>6, <1>7, Failed

LEMMA HttpVersionKeeps == ASSUME IInv, HttpVersion PROVE IInv'
<1>1. /\ Looking
      /\ h.state \in {"s_req_first_http_major", "s_req_http_major", "s_req_first_http_minor", "s_req_http_minor"}
  BY LooksAt DEF HttpVersion
<1>2. h.state \notin Marked /\ h.state \notin Special /\ Fields(H) /\ H.state = h.state
  BY <1>1, Seen DEF Marked, UrlStates, Special, ChunkStates
<1>3. \/ \E s \in {"s_req_first_http_minor", "s_req_line_almost_done", "s_header_field_start"} : To(s)
      \/ Fail("INVALID_VERSION")
      \/ \E v : Next1([H EXCEPT !.http_major = v, !.state = "s_req_http_major"])
      \/ \E v : Next1([H EXCEPT !.http_minor = v, !.state = "s_req_http_minor"])
      \/ \E v : Next1([H EXCEPT !.http_major = v])
      \/ \E v : Next1([H EXCEPT !.http_minor = v])
  BY DEF HttpVersion
<1>4. ASSUME NEW s \in {"s_req_first_http_minor", "s_req_line_almost_done", "s_header_field_start"}, To(s)
      PROVE  IInv'
  <2>1. s \notin Special
    BY DEF Special, ChunkStates
  <2> QED BY <1>1, <1>2, <1>4, <2>1, Reaches
<1> HIDE DEF H
<1>5. ASSUME NEW v, Next1([H EXCEPT !.http_major = v, !.state = "s_req_http_major"]) PROVE IInv'
  <2> DEFINE ps == [H EXCEPT !.http_major = v, !.state = "s_req_http_major"]
  <2>1. Fields(ps) /\ ps.state \notin Special
    BY <1>2 DEF Fields, Names, Special, ChunkStates
  <2>2. Next1(ps)
    BY <1>5
  <2> HIDE DEF ps
  <2> QED BY <1>1, <1>2, <2>1, <2>2, Walks
<1>6. ASSUME NEW v, Next1([H EXCEPT !.http_minor = v, !.state = "s_req_http_minor"]) PROVE IInv'
  <2> DEFINE ps == [H EXCEPT !.http_minor = v, !.state = "s_req_http_minor"]
  <2>1. Fields(ps) /\ ps.state \notin Special
    BY <1>2 DEF Fields, Names, Special, ChunkStates
  <2>2. Next1(ps)
    BY <1>6
  <2> HIDE DEF ps
  <2> QED BY <1>1, <1>2, <2>1, <2>2, Walks
<1>7. ASSUME NEW v, Next1([H EXCEPT !.http_major = v]) PROVE IInv'
  <2> DEFINE ps == [H EXCEPT !.http_major = v]
  <2>1. Fields(ps) /\ ps.state \notin Special
    BY <1>2 DEF Fields, Names
  <2>2. Next1(ps)
    BY <1>7
  <2> HIDE DEF ps
  <2> QED BY <1>1, <1>2, <2>1, <2>2, Walks
<1>8. ASSUME NEW v, Next1([H EXCEPT !.http_minor = v]) PROVE IInv'
  <2> DEFINE ps == [H EXCEPT !.http_minor = v]
  <2>1. Fields(ps) /\ ps.state \notin Special
    BY <1>2 DEF Fields, Names
  <2>2. Next1(ps)
    BY <1>8
  <2> HIDE DEF ps
  <2> QED BY <1>1, <1>2, <2>1, <2>2, Walks
<1> QED BY <1>3, <1>4, <1>5, <1>6, <1>7, <1>8, Failed

LEMMA ReqLineAlmostDoneKeeps == ASSUME IInv, ReqLineAlmostDone PROVE IInv'
<1>1. Looking /\ h.state = "s_req_line_almost_done"
  BY LooksAt DEF ReqLineAlmostDone
<1>2. To("s_header_field_start") \/ Fail("LF_EXPECTED")
  BY DEF ReqLineAlmostDone
<1>3. h.state \notin Marked /\ "s_header_field_start" \notin Special
  BY <1>1 DEF Marked, UrlStates, Special, ChunkStates
<1> QED BY <1>1, <1>2, <1>3, Reaches, Failed

-----------------------------------------------------------------------------
(* The headers.                                                            *)

(* The next byte, or the same one, is looked at in a state that says       *)
(* nothing of the rest.                                                    *)
LEMMA Passes ==
  ASSUME IInv, Looking, h.state \notin Marked, NEW ps, Now(ps), Fields(ps), ps.state \notin Special,
         Advance \/ reexecute_byte, pc' \in {"parse", "parsed"}, mark' = mark
  PROVE  IInv'
<1>1. ParserOK(ps) /\ MarksOK(ps.state, mark')
  BY Simple, Unmarked
<1>2. p' \in Nat /\ Midway(ps, mark', p', fresh')
  BY DEF IInv, Advance, reexecute_byte, Midway, Special, ChunkStates
<1> QED BY <1>1, <1>2, Moved

LEMMA Completes ==
  ASSUME IInv, Looking, h.state \notin Marked, NEW parser, Fields(parser), MessageComplete(parser),
         Advance, pc' \in {"parse", "parsed"}
  PROVE  IInv'
<1> DEFINE s == NEW_MESSAGE(parser)
           ps == [parser EXCEPT !.state = s]
<1>1. s \in {"s_start_req", "s_dead"} /\ Now(ps) /\ mark' = mark
  BY DEF MessageComplete, NEW_MESSAGE
<1> HIDE DEF s
<1>2. Fields(ps) /\ ps.state \notin Special
  BY <1>1 DEF Fields, Names, Special, ChunkStates
<1> HIDE DEF ps
<1> QED BY <1>1, <1>2, Passes

(* Data begins: one mark, that of the state that is reached.               *)
LEMMA Begins ==
  ASSUME IInv, Looking, h.state \notin Marked, NEW cb \in Callbacks,
         NEW ps, Now(ps), ParserOK(ps), ps.state \in MarkedIn[cb],
         ps.state # "s_chunk_size_start", ps.state # "s_body_identity",
         mark' = MARK(cb), Advance, Running
  PROVE  IInv'
<1>1. mark \in [Callbacks -> Nat] /\ p \in Nat /\ \A k \in Callbacks : mark[k] = 0
  BY Unmarked DEF IInv, MarksOK
<1>2. mark' \in [Callbacks -> Nat] /\ \A k \in Callbacks : mark'[k] # 0 => k = cb
  BY <1>1 DEF MARK
<1>3. MarksOK(ps.state, mark')
  BY <1>2 DEF MarksOK
<1>4. p' \in Nat /\ pc' = "parse" /\ Midway(ps, mark', p', fresh')
  BY <1>1 DEF Advance, Running, Looking, Midway
<1> QED BY <1>3, <1>4, Moved

LEMMA HeaderFieldStartKeeps == ASSUME IInv, HeaderFieldStart PROVE IInv'
<1>1. Looking /\ h.state = "s_header_field_start"
  BY LooksAt DEF HeaderFieldStart
<1>2. h.state \notin Marked /\ Fields(H) /\ "s_headers_almost_done" \notin Special
  BY <1>1, Seen DEF Marked, UrlStates, Special, ChunkStates
<1>3. \/ To("s_headers_almost_done")
      \/ /\ Now([H EXCEPT !.state = "s_headers_almost_done"])
         /\ reexecute_byte /\ Running /\ Quiet
      \/ \E hs : /\ Now([H EXCEPT !.state = "s_header_field", !.index = 0, !.header_state = hs])
                 /\ mark' = MARK("header_field") /\ Advance /\ Running
      \/ Fail("INVALID_HEADER_TOKEN")
  BY DEF HeaderFieldStart
<1>4. CASE To("s_headers_almost_done")
  BY <1>1, <1>2, <1>4, Reaches
<1> HIDE DEF H
<1>5. CASE Now([H EXCEPT !.state = "s_headers_almost_done"]) /\ reexecute_byte /\ Running /\ Quiet
  <2> DEFINE ps == [H EXCEPT !.state = "s_headers_almost_done"]
  <2>1. Fields(ps) /\ ps.state \notin Special
    BY <1>2 DEF Fields, Names
  <2>2. Now(ps) /\ mark' = mark /\ pc' = "parse"
    BY <1>1, <1>5 DEF Quiet, Running, Looking
  <2> HIDE DEF ps
  <2> QED BY <1>1, <1>2, <1>5, <2>1, <2>2, Passes
<1>6. ASSUME NEW hs, Now([H EXCEPT !.state = "s_header_field", !.index = 0, !.header_state = hs]),
             mark' = MARK("header_field"), Advance, Running
      PROVE  IInv'
  <2> DEFINE ps == [H EXCEPT !.state = "s_header_field", !.index = 0, !.header_state = hs]
  <2>1. Fields(ps) /\ ps.state = "s_header_field"
    BY <1>2 DEF Fields, Names
  <2>2. Now(ps)
    BY <1>6
  <2> HIDE DEF ps
  <2>3. ParserOK(ps) /\ ps.state \in MarkedIn["header_field"]
    BY <2>1, Simple DEF Special, ChunkStates, MarkedIn, Callbacks
  <2>4. ps.state # "s_chunk_size_start" /\ ps.state # "s_body_identity"
    BY <2>1
  <2> QED BY <1>1, <1>2, <1>6, <2>2, <2>3, <2>4, Begins DEF Callbacks
<1> QED BY <1>3, <1>4, <1>5, <1>6, Failed

LEMMA HeaderFieldKeeps == ASSUME IInv, HeaderField PROVE IInv'
<1>1. Looking /\ h.state = "s_header_field"
  BY LooksAt DEF HeaderField
<1>2. /\ Fields(H) /\ H.state = "s_header_field" /\ MarksOK("s_header_field", mark)
      /\ "header_field" \in Callbacks /\ h.state \in MarkedIn["header_field"]
  BY <1>1, Seen DEF MarkedIn, Callbacks
<1>3. \/ Next1([H EXCEPT !.header_state = "h_general"])
      \/ \E s \in {"s_header_value_start", "s_header_almost_done", "s_header_field_start"} :
           /\ Now([H EXCEPT !.state = s])
           /\ CALLBACK_DATA("header_field", p - 1) /\ Advance /\ Running
      \/ Fail("INVALID_HEADER_TOKEN")
  BY DEF HeaderField
<1> HIDE DEF H
<1>4. CASE Next1([H EXCEPT !.header_state = "h_general"])
  <2> DEFINE ps == [H EXCEPT !.header_state = "h_general"]
  <2>1. Fields(ps) /\ ps.state = "s_header_field"
    BY <1>2 DEF Fields, Names
  <2>2. Next1(ps)
    BY <1>4
  <2> HIDE DEF ps
  <2>3. ParserOK(ps)
    BY <2>1, Simple DEF Special, ChunkStates
  <2> QED BY <1>1, <1>2, <2>1, <2>2, <2>3, Steps
<1>5. ASSUME NEW s \in {"s_header_value_start", "s_header_almost_done", "s_header_field_start"},
             Now([H EXCEPT !.state = s]), CALLBACK_DATA("header_field", p - 1), Advance, Running
      PROVE  IInv'
  <2> DEFINE ps == [H EXCEPT !.state = s]
  <2>1. Fields(ps) /\ ps.state \notin Special
    BY <1>2 DEF Fields, Names, Special, ChunkStates
  <2>2. Now(ps)
    BY <1>5
  <2> HIDE DEF ps
  <2> QED BY <1>1, <1>2, <1>5, <2>1, <2>2, Reports
<1> QED BY <1>3, <1>4, <1>5, Failed

(* A hexadecimal digit is a length.                                        *)
LEMMA Hexadecimal == \A d \in DOMAIN unhex : unhex[d] \in 0 .. 15
<1> DEFINE Hex == <<"0", "1", "2", "3", "4", "5", "6", "7", "8", "9", "A", "B", "C", "D", "E", "F">>
<1>1. \A d \in ToSet(Hex) : \E n \in 0 .. 15 : Hex[n + 1] = d
  <2> SUFFICES ASSUME NEW i \in 1 .. 16 PROVE \E n \in 0 .. 15 : Hex[n + 1] = Hex[i]
    BY DEF ToSet
  <2>1. i - 1 \in 0 .. 15 /\ (i - 1) + 1 = i
    OBVIOUS
  <2> QED BY <2>1
<1>2. SUFFICES ASSUME NEW d \in ToSet(Hex) \cup {"a", "b"} PROVE unhex[d] \in 0 .. 15
  BY DEF unhex
<1> HIDE DEF Hex
<1>3. \/ d = "a" /\ unhex[d] = 10
      \/ d = "b" /\ unhex[d] = 11
      \/ d \in ToSet(Hex) /\ unhex[d] = CHOOSE n \in 0 .. 15 : Hex[n + 1] = d
  BY <1>2, Zenon DEF unhex, Hex
<1>4. CASE d \in ToSet(Hex) /\ unhex[d] = CHOOSE n \in 0 .. 15 : Hex[n + 1] = d
  BY <1>1, <1>4, Zenon
<1> QED BY <1>3, <1>4

LEMMA DigitsAreHex == Digits \subseteq DOMAIN unhex
<1> DEFINE Hex == <<"0", "1", "2", "3", "4", "5", "6", "7", "8", "9", "A", "B", "C", "D", "E", "F">>
<1>1. Digits = {Hex[i] : i \in 1 .. 10}
  BY DEF Digits
<1>2. ToSet(Hex) \subseteq DOMAIN unhex
  BY DEF unhex
<1>3. {Hex[i] : i \in 1 .. 10} \subseteq ToSet(Hex)
  BY DEF ToSet
<1> QED BY <1>1, <1>2, <1>3

LEMMA HeaderValueStartKeeps == ASSUME IInv, HeaderValueStart PROVE IInv'
<1>1. Looking /\ h.state = "s_header_value_start"
  BY LooksAt DEF HeaderValueStart
<1>2. h.state \notin Marked /\ Fields(H) /\ H.header_state = h.header_state
  BY <1>1, Seen DEF Marked, UrlStates
<1> DEFINE V == [H EXCEPT !.state = "s_header_value", !.index = 0]
           Begun(ps) == Now(ps) /\ mark' = MARK("header_value") /\ Advance /\ Running
           Ended(ps) == Now(ps) /\ mark' = mark /\ Advance /\ Running
<1>3. \/ Stay \/ Fail("INVALID_CONTENT_LENGTH")
      \/ Ended([V EXCEPT !.header_state = "h_general", !.state = "s_header_almost_done"])
      \/ Ended([V EXCEPT !.state = "s_header_field_start"])
      \/ \E fl : Begun([V EXCEPT !.flags = fl, !.header_state = "h_general"])
      \/ h.header_state = "h_content_length" /\ c \in Digits /\ Begun([V EXCEPT !.content_length = unhex[c]])
      \/ \E hs \in {"h_transfer_encoding_chunked", "h_connection_keep_alive", "h_connection_close", "h_general"} :
           Begun([V EXCEPT !.header_state = hs])
  BY DEF HeaderValueStart
<1> HIDE DEF H
<1>4. Fields(V) /\ V.state = "s_header_value"
  BY <1>2 DEF Fields, Names
<1> HIDE DEF V
<1>5. ASSUME NEW ps, Ended(ps), Fields(ps), ps.state \notin Special PROVE IInv'
  BY <1>1, <1>2, <1>5, Passes DEF Running, Looking
<1>6. ASSUME NEW ps, Begun(ps), Fields(ps), ps.state = "s_header_value",
             ps.header_state \notin {"h_connection", "h_transfer_encoding"}
      PROVE  IInv'
  <2>1. ParserOK(ps)
    BY <1>6 DEF ParserOK, ChunkStates
  <2>2. "header_value" \in Callbacks /\ ps.state \in MarkedIn["header_value"]
    BY <1>6 DEF MarkedIn, Callbacks
  <2> QED BY <1>1, <1>2, <1>6, <2>1, <2>2, Begins
<1>7. CASE Ended([V EXCEPT !.header_state = "h_general", !.state = "s_header_almost_done"])
  <2> DEFINE ps == [V EXCEPT !.header_state = "h_general", !.state = "s_header_almost_done"]
  <2>1. Fields(ps) /\ ps.state \notin Special
    BY <1>4 DEF Fields, Names, Special, ChunkStates
  <2>2. Ended(ps)
    BY <1>7
  <2> HIDE DEF ps, Ended
  <2> QED BY <1>5, <2>1, <2>2
<1>8. CASE Ended([V EXCEPT !.state = "s_header_field_start"])
  <2> DEFINE ps == [V EXCEPT !.state = "s_header_field_start"]
  <2>1. Fields(ps) /\ ps.state \notin Special
    BY <1>4 DEF Fields, Names, Special, ChunkStates
  <2>2. Ended(ps)
    BY <1>8
  <2> HIDE DEF ps, Ended
  <2> QED BY <1>5, <2>1, <2>2
<1>9. ASSUME NEW fl, Begun([V EXCEPT !.flags = fl, !.header_state = "h_general"]) PROVE IInv'
  <2> DEFINE ps == [V EXCEPT !.flags = fl, !.header_state = "h_general"]
  <2>1. Fields(ps) /\ ps.state = "s_header_value" /\ ps.header_state = "h_general"
    BY <1>4 DEF Fields, Names
  <2>2. Begun(ps)
    BY <1>9
  <2> HIDE DEF ps, Begun
  <2> QED BY <1>6, <2>1, <2>2
<1>10. CASE h.header_state = "h_content_length" /\ c \in Digits /\ Begun([V EXCEPT !.content_length = unhex[c]])
  <2> DEFINE d == unhex[c]
             ps == [V EXCEPT !.content_length = d]
  <2>1. d \in 0 .. MaxUint
    <3>1. c \in DOMAIN unhex
      BY <1>10, DigitsAreHex
    <3> QED BY <3>1, Hexadecimal, SizesAssumption
  <2>2. V.header_state = "h_content_length"
    BY <1>2, <1>10 DEF V, Fields, Names
  <2>3. Begun(ps)
    BY <1>10
  <2> HIDE DEF d
  <2>4. Fields(ps) /\ ps.state = "s_header_value" /\ ps.header_state = "h_content_length"
    BY <1>4, <2>1, <2>2 DEF Fields, Names
  <2> HIDE DEF ps, Begun
  <2> QED BY <1>6, <2>3, <2>4
<1>11. ASSUME NEW hs \in {"h_transfer_encoding_chunked", "h_connection_keep_alive", "h_connection_close", "h_general"},
              Begun([V EXCEPT !.header_state = hs])
       PROVE  IInv'
  <2> DEFINE ps == [V EXCEPT !.header_state = hs]
  <2>1. Fields(ps) /\ ps.state = "s_header_value" /\ ps.header_state = hs
    BY <1>4 DEF Fields, Names
  <2>2. Begun(ps)
    BY <1>11
  <2> HIDE DEF ps, Begun
  <2> QED BY <1>6, <2>1, <2>2
<1>12. CASE Stay
  BY <1>1, <1>12, Stays
<1> HIDE DEF Begun, Ended
<1> QED BY <1>3, <1>7, <1>8, <1>9, <1>10, <1>11, <1>12, Failed

(* A length that wraps around is still one.                                *)
LEMMA Wraps == ASSUME NEW n \in Nat PROVE n % (MaxUint + 1) \in 0 .. MaxUint
BY SizesAssumption

LEMMA HeaderValueKeeps == ASSUME IInv, HeaderValue PROVE IInv'
<1>1. Looking /\ h.state = "s_header_value"
  BY LooksAt DEF HeaderValue
<1>2. /\ ParserOK(H) /\ Fields(H) /\ H.state = "s_header_value" /\ H.content_length = h.content_length
      /\ H.header_state = h.header_state /\ MarksOK("s_header_value", mark)
      /\ H.content_length \in 0 .. MaxUint
      /\ "header_value" \in Callbacks /\ h.state \in MarkedIn["header_value"]
  BY <1>1, Seen DEF MarkedIn, Callbacks
<1> DEFINE t == (h.content_length * 10 + unhex[c]) % (MaxUint + 1)
<1>3. \/ Stay \/ Fail("INVALID_CONTENT_LENGTH")
      \/ /\ Now([H EXCEPT !.state = "s_header_almost_done"]) /\ CALLBACK_DATA("header_value", p - 1)
         /\ Advance \/ reexecute_byte
         /\ Running
      \/ c \in Digits /\ Next1([H EXCEPT !.content_length = t])
      \/ \E hs \in {"h_transfer_encoding_chunked", "h_connection_keep_alive", "h_connection_close", "h_general"} :
           Next1([H EXCEPT !.header_state = hs])
  BY DEF HeaderValue
<1> HIDE DEF H
<1>4. CASE /\ Now([H EXCEPT !.state = "s_header_almost_done"]) /\ CALLBACK_DATA("header_value", p - 1)
           /\ Advance \/ reexecute_byte
           /\ Running
  <2> DEFINE ps == [H EXCEPT !.state = "s_header_almost_done"]
  <2>1. Fields(ps) /\ ps.state \notin Special
    BY <1>2 DEF Fields, Names, Special, ChunkStates
  <2>2. Now(ps)
    BY <1>4
  <2> HIDE DEF ps
  <2> QED BY <1>1, <1>2, <1>4, <2>1, <2>2, Reports
<1>5. CASE c \in Digits /\ Next1([H EXCEPT !.content_length = t])
  <2> DEFINE ps == [H EXCEPT !.content_length = t]
  <2>1. t \in 0 .. MaxUint
    <3>1. unhex[c] \in Nat
      BY <1>5, DigitsAreHex, Hexadecimal
    <3>2. h.content_length * 10 + unhex[c] \in Nat
      BY <1>2, <3>1
    <3> QED BY <3>2, Wraps
  <2>2. Next1(ps)
    BY <1>5
  <2> HIDE DEF t
  <2>3. Fields(ps) /\ ps.state = "s_header_value" /\ ps.header_state = H.header_state
    BY <1>2, <2>1 DEF Fields, Names
  <2> HIDE DEF ps
  <2>4. ParserOK(ps)
    BY <1>2, <2>3 DEF ParserOK, ChunkStates
  <2> QED BY <1>1, <1>2, <2>2, <2>3, <2>4, Steps
<1>6. ASSUME NEW hs \in {"h_transfer_encoding_chunked", "h_connection_keep_alive", "h_connection_close", "h_general"},
             Next1([H EXCEPT !.header_state = hs])
      PROVE  IInv'
  <2> DEFINE ps == [H EXCEPT !.header_state = hs]
  <2>1. Fields(ps) /\ ps.state = "s_header_value" /\ ps.header_state = hs
    BY <1>2 DEF Fields, Names
  <2>2. Next1(ps)
    BY <1>6
  <2> HIDE DEF ps
  <2>3. ParserOK(ps)
    BY <2>1 DEF ParserOK, ChunkStates
  <2> QED BY <1>1, <1>2, <2>1, <2>2, <2>3, Steps
<1>7. CASE Stay
  BY <1>1, <1>7, Stays
<1> QED BY <1>3, <1>4, <1>5, <1>6, <1>7, Failed


LEMMA HeaderAlmostDoneKeeps == ASSUME IInv, HeaderAlmostDone PROVE IInv'
<1>1. Looking /\ h.state = "s_header_almost_done"
  BY LooksAt DEF HeaderAlmostDone
<1>2. h.state \notin Marked /\ Fields(H)
  BY <1>1, Seen DEF Marked, UrlStates
<1>3. Fail("STRICT") \/ \E more : Next1([H EXCEPT !.state = "s_header_value_lws", !.flags = @ \cup more])
  BY DEF HeaderAlmostDone
<1> HIDE DEF H
<1>4. ASSUME NEW more, Next1([H EXCEPT !.state = "s_header_value_lws", !.flags = @ \cup more]) PROVE IInv'
  <2> DEFINE ps == [H EXCEPT !.state = "s_header_value_lws", !.flags = @ \cup more]
  <2>1. Fields(ps) /\ ps.state \notin Special
    BY <1>2 DEF Fields, Names, Special, ChunkStates
  <2>2. Next1(ps)
    BY <1>4
  <2> HIDE DEF ps
  <2> QED BY <1>1, <1>2, <2>1, <2>2, Walks
<1> QED BY <1>3, <1>4, Failed

LEMMA HeaderValueLwsKeeps == ASSUME IInv, HeaderValueLws PROVE IInv'
<1>1. Looking /\ h.state = "s_header_value_lws"
  BY LooksAt DEF HeaderValueLws
<1>2. h.state \notin Marked /\ Fields(H) /\ "s_header_value_start" \notin Special
  BY <1>1, Seen DEF Marked, UrlStates, Special, ChunkStates
<1>3. \/ To("s_header_value_start")
      \/ Now([H EXCEPT !.state = "s_header_field_start"]) /\ reexecute_byte /\ Running /\ Quiet
  BY DEF HeaderValueLws
<1>4. CASE To("s_header_value_start")
  BY <1>1, <1>2, <1>4, Reaches
<1> HIDE DEF H
<1>5. CASE Now([H EXCEPT !.state = "s_header_field_start"]) /\ reexecute_byte /\ Running /\ Quiet
  <2> DEFINE ps == [H EXCEPT !.state = "s_header_field_start"]
  <2>1. Fields(ps) /\ ps.state \notin Special
    BY <1>2 DEF Fields, Names, Special, ChunkStates
  <2>2. Now(ps) /\ mark' = mark /\ pc' = "parse"
    BY <1>1, <1>5 DEF Quiet, Running, Looking
  <2> HIDE DEF ps
  <2> QED BY <1>1, <1>2, <1>5, <2>1, <2>2, Passes
<1> QED BY <1>3, <1>4, <1>5

LEMMA HeadersAlmostDoneKeeps == ASSUME IInv, HeadersAlmostDone PROVE IInv'
<1>1. Looking /\ h.state = "s_headers_almost_done"
  BY LooksAt DEF HeadersAlmostDone
<1>2. h.state \notin Marked /\ Fields(H) /\ pc = "parse"
  BY <1>1, Seen DEF Marked, UrlStates, Looking
<1>3. \/ Fail("STRICT")
      \/ MessageComplete(H) /\ Advance /\ Running
      \/ \E up : /\ Now([H EXCEPT !.state = "s_headers_done", !.upgrade = up])
                 /\ reexecute_byte /\ Running /\ UNCHANGED mark
  BY DEF HeadersAlmostDone
<1> HIDE DEF H
<1>4. CASE MessageComplete(H) /\ Advance /\ Running
  BY <1>1, <1>2, <1>4, Completes DEF Running
<1>5. ASSUME NEW up, Now([H EXCEPT !.state = "s_headers_done", !.upgrade = up]),
             reexecute_byte, Running, UNCHANGED mark
      PROVE  IInv'
  <2> DEFINE ps == [H EXCEPT !.state = "s_headers_done", !.upgrade = up]
  <2>1. Fields(ps) /\ ps.state \notin Special
    BY <1>2 DEF Fields, Names, Special, ChunkStates
  <2>2. Now(ps) /\ mark' = mark /\ pc' = "parse"
    BY <1>2, <1>5 DEF Running
  <2> HIDE DEF ps
  <2> QED BY <1>1, <1>2, <1>5, <2>1, <2>2, Passes
<1> QED BY <1>3, <1>4, <1>5, Failed

LEMMA HeadersDoneKeeps == ASSUME IInv, HeadersDone PROVE IInv'
<1>1. Looking /\ h.state = "s_headers_done"
  BY LooksAt DEF HeadersDone
<1>2. /\ h.state \notin Marked /\ Fields(H) /\ pc = "parse"
      /\ H.content_length = h.content_length /\ H.flags = h.flags /\ H.content_length \in 0 .. MaxUint
  BY <1>1, Seen DEF Marked, UrlStates, Looking
<1> DEFINE D == [H EXCEPT !.nread = 0]
           C == [D EXCEPT !.state = "s_chunk_size_start"]
           B == [D EXCEPT !.state = "s_body_identity"]
<1>3. \/ Fail("STRICT")
      \/ MessageComplete(D) /\ Advance /\ pc' \in {"parse", "parsed"}
      \/ "CHUNKED" \in h.flags /\ Next1(C)
      \/ h.content_length \notin {0, MaxUint} /\ Next1(B)
  BY <1>2 DEF HeadersDone, Running
<1>4. MarksOK("s_chunk_size_start", mark) /\ MarksOK("s_body_identity", mark) /\ mark["body"] = 0
  BY <1>2, Unmarked
<1> HIDE DEF H
<1>5. Fields(D) /\ D.nread = 0 /\ D.flags = h.flags /\ D.content_length = h.content_length
  BY <1>2 DEF Fields, Names
<1> HIDE DEF D
<1>6. CASE MessageComplete(D) /\ Advance /\ pc' \in {"parse", "parsed"}
  BY <1>1, <1>2, <1>5, <1>6, Completes
<1>7. CASE "CHUNKED" \in h.flags /\ Next1(C)
  <2>1. Fields(C) /\ C.state = "s_chunk_size_start" /\ C.nread = 0 /\ C.flags = h.flags
    BY <1>5 DEF Fields, Names
  <2>2. Next1(C)
    BY <1>7
  <2> HIDE DEF C
  <2>3. ParserOK(C)
    BY <1>7, <2>1 DEF ParserOK
  <2> QED BY <1>1, <1>4, <2>1, <2>2, <2>3, Steps
<1>8. CASE h.content_length \notin {0, MaxUint} /\ Next1(B)
  <2>1. Fields(B) /\ B.state = "s_body_identity" /\ B.content_length = h.content_length
    BY <1>5 DEF Fields, Names
  <2>2. Next1(B)
    BY <1>8
  <2> HIDE DEF B
  <2>3. ParserOK(B)
    BY <1>8, <2>1 DEF ParserOK, ChunkStates
  <2> QED BY <1>1, <1>4, <2>1, <2>2, <2>3, Steps
<1> QED BY <1>3, <1>6, <1>7, <1>8, Failed

-----------------------------------------------------------------------------
(* The bodies.                                                             *)

(* What is taken of the buffer: a part of it, and no more than is missing. *)
LEMMA ToRead ==
  ASSUME IInv, Looking, h.state \in {"s_body_identity", "s_chunk_data"}
  PROVE  /\ to_read \in Nat /\ to_read > 0 /\ p + to_read <= arrived + 1 /\ p \in Nat /\ arrived \in Nat
         /\ to_read = h.content_length \/ p + to_read = arrived + 1
         /\ h.content_length - to_read \in 0 .. MaxUint - 1
         /\ h.content_length - to_read = 0 <=> to_read = h.content_length
<1>1. /\ h.content_length \in Nat /\ h.content_length > 0 /\ h.content_length < MaxUint
      /\ p \in Nat /\ arrived \in Nat /\ p <= arrived /\ MaxUint \in Nat
  BY SizesAssumption DEF IInv, ParserOK, Fields, Looking
<1> QED BY <1>1 DEF to_read

LEMMA BodyIdentityKeeps == ASSUME IInv, BodyIdentity PROVE IInv'
<1>1. Looking /\ h.state = "s_body_identity" /\ pc = "parse" /\ p <= arrived
  BY LooksAt DEF BodyIdentity
<1>2. /\ Fields(H) /\ H.state = "s_body_identity" /\ H.content_length = h.content_length
      /\ MarksOK("s_body_identity", mark)
  BY <1>1, Seen
<1>3. mark["body"] = 0 /\ \A cb \in Callbacks : mark[cb] = 0
  BY <1>1 DEF IInv, Midway, MarksOK, MarkedIn, Callbacks, UrlStates
<1> DEFINE left == H.content_length - to_read
           done == [H EXCEPT !.content_length = 0, !.state = "s_message_done"]
           more == [H EXCEPT !.content_length = left]
<1>4. \/ /\ to_read = h.content_length /\ p' = p + to_read - 1 + 0 /\ Now(done) /\ mark' = mark /\ pc' = "parse"
      \/ /\ to_read # h.content_length /\ p' = p + to_read - 1 + 1 /\ Now(more) /\ mark' = MARK("body")
         /\ pc' = "parse"
  <2> HIDE DEF H, to_read, MARK
  <2>1. CASE to_read = h.content_length
    BY <1>1, <2>1 DEF BodyIdentity, Running
  <2>2. CASE to_read # h.content_length
    BY <1>1, <2>2 DEF BodyIdentity, Running
  <2> QED BY <2>1, <2>2
<1> HIDE DEF H
<1>5. CASE /\ to_read = h.content_length /\ p' = p + to_read - 1 + 0 /\ Now(done) /\ mark' = mark /\ pc' = "parse"
  <2>1. Fields(done) /\ done.state = "s_message_done"
    BY <1>2, SizesAssumption DEF Fields, Names
  <2>2. Now(done)
    BY <1>5
  <2> HIDE DEF done
  <2>3. p' \in Nat
    BY <1>1, <1>5, ToRead
  <2>4. MarksOK(done.state, mark') /\ ParserOK(done)
    BY <1>2, <1>3, <1>5, <2>1 DEF MarksOK, ParserOK, ChunkStates
  <2>5. Midway(done, mark', p', fresh')
    BY <2>1 DEF Midway
  <2> QED BY <1>5, <2>2, <2>3, <2>4, <2>5, Moved
<1>6. CASE /\ to_read # h.content_length /\ p' = p + to_read - 1 + 1 /\ Now(more) /\ mark' = MARK("body")
           /\ pc' = "parse"
  <2>1. left \in 0 .. MaxUint - 1 /\ left # 0 /\ p' = arrived + 1 /\ p' \in Nat /\ arrived \in Nat
    BY <1>1, <1>2, <1>6, ToRead
  <2>2. Now(more)
    BY <1>6
  <2> HIDE DEF left
  <2>3. left \in 0 .. MaxUint /\ left # MaxUint
    BY <2>1, SizesAssumption
  <2>4. Fields(more) /\ more.state = "s_body_identity" /\ more.content_length = left
    BY <1>2, <2>3 DEF Fields, Names
  <2> HIDE DEF more
  <2>5. ParserOK(more)
    BY <2>1, <2>3, <2>4 DEF ParserOK, ChunkStates
  <2>6. MarksOK(more.state, mark')
    <3>1. mark \in [Callbacks -> Nat] /\ p \in Nat
      BY <1>2 DEF MarksOK, IInv
    <3>2. mark' \in [Callbacks -> Nat] /\ \A k \in Callbacks : mark'[k] # 0 => k = "body"
      BY <1>3, <1>6, <3>1 DEF MARK
    <3> QED BY <2>4, <3>2 DEF MarksOK, MarkedIn, Callbacks
  <2>7. Midway(more, mark', p', fresh')
    <3>1. arrived' = arrived
      BY <2>2 DEF Now
    <3> QED BY <2>1, <2>4 DEF Midway
  <2> QED BY <1>6, <2>1, <2>2, <2>5, <2>6, <2>7, Moved
<1> QED BY <1>4, <1>5, <1>6

LEMMA MessageDoneKeeps == ASSUME IInv, MessageDone PROVE IInv'
<1>1. Looking /\ h.state = "s_message_done" /\ pc = "parse"
  BY LooksAt DEF MessageDone
<1>2. h.state \notin Marked /\ Fields(H)
  BY <1>1, Seen DEF Marked, UrlStates
<1>3. MessageComplete(H) /\ Advance /\ pc' = "parse"
  BY <1>1 DEF MessageDone, Running
<1> HIDE DEF H
<1> QED BY <1>1, <1>2, <1>3, Completes

LEMMA ChunkSizeStartKeeps == ASSUME IInv, ChunkSizeStart PROVE IInv'
<1>1. Looking /\ h.state = "s_chunk_size_start"
  BY LooksAt DEF ChunkSizeStart
<1>2. /\ h.state \notin Marked /\ Fields(H) /\ "CHUNKED" \in H.flags
  BY <1>1, Seen DEF Marked, UrlStates, ParserOK, ChunkStates
<1>3. \/ Fail("INVALID_CHUNK_SIZE")
      \/ c \in DOMAIN unhex /\ Next1([H EXCEPT !.content_length = unhex[c], !.state = "s_chunk_size"])
  BY DEF ChunkSizeStart
<1> HIDE DEF H
<1>4. CASE c \in DOMAIN unhex /\ Next1([H EXCEPT !.content_length = unhex[c], !.state = "s_chunk_size"])
  <2> DEFINE d == unhex[c]
             ps == [H EXCEPT !.content_length = d, !.state = "s_chunk_size"]
  <2>1. Next1(ps)
    BY <1>4
  <2>2. d \in 0 .. MaxUint /\ d # MaxUint
    BY <1>4, Hexadecimal, SizesAssumption
  <2> HIDE DEF d
  <2>3. Fields(ps) /\ ps.state = "s_chunk_size" /\ ps.content_length = d /\ ps.flags = H.flags
    BY <1>2, <2>2 DEF Fields, Names
  <2> HIDE DEF ps
  <2>4. ParserOK(ps)
    BY <1>2, <2>2, <2>3 DEF ParserOK
  <2>5. MarksOK(ps.state, mark)
    BY <1>2, Unmarked
  <2> QED BY <1>1, <2>1, <2>3, <2>4, <2>5, Steps
<1> QED BY <1>3, <1>4, Failed

(* From one state of a chunk's head to another, or to the same.            *)
LEMMA ChunkHead ==
  ASSUME IInv, Looking, h.state \in {"s_chunk_size", "s_chunk_parameters"},
         NEW s \in {"s_chunk_size_almost_done", "s_chunk_parameters"}, To(s)
  PROVE  IInv'
<1> DEFINE ps == [H EXCEPT !.state = s]
<1>1. Fields(H) /\ ParserOK(H) /\ H.state = h.state
  BY Seen
<1>2. "CHUNKED" \in H.flags /\ H.content_length # MaxUint
  BY <1>1 DEF ParserOK, ChunkStates
<1>3. Next1(ps)
  BY DEF To
<1> HIDE DEF H
<1>4. Fields(ps) /\ ps.state = s /\ ps.flags = H.flags /\ ps.content_length = H.content_length
  BY <1>1 DEF Fields, Names
<1> HIDE DEF ps
<1>5. ParserOK(ps)
  BY <1>2, <1>4 DEF ParserOK
<1>6. MarksOK(ps.state, mark)
  BY Unmarked DEF Marked, UrlStates
<1> QED BY <1>3, <1>4, <1>5, <1>6, Steps

LEMMA ChunkSizeKeeps == ASSUME IInv, ChunkSize PROVE IInv'
<1>1. Looking /\ h.state = "s_chunk_size"
  <2>1. At({"s_chunk_size"})
    BY Zenon DEF ChunkSize
  <2> QED BY <2>1, LooksAt
<1>2. /\ Fields(H) /\ ParserOK(H) /\ H.state = "s_chunk_size" /\ h.content_length \in 0 .. MaxUint
      /\ "CHUNKED" \in H.flags /\ MarksOK("s_chunk_size", mark)
  BY <1>1, Seen DEF ParserOK, ChunkStates
<1> DEFINE t == (h.content_length * 16 + unhex[c]) % (MaxUint + 1)
<1>3. \/ Fail("INVALID_CHUNK_SIZE") \/ Fail("INVALID_CONTENT_LENGTH")
      \/ \E s \in {"s_chunk_size_almost_done", "s_chunk_parameters"} : To(s)
      \/ c \in DOMAIN unhex /\ t # MaxUint /\ Next1([H EXCEPT !.content_length = t])
  BY DEF ChunkSize
<1>4. ASSUME NEW s \in {"s_chunk_size_almost_done", "s_chunk_parameters"}, To(s) PROVE IInv'
  BY <1>1, <1>4, ChunkHead
<1> HIDE DEF H
<1>5. CASE c \in DOMAIN unhex /\ t # MaxUint /\ Next1([H EXCEPT !.content_length = t])
  <2> DEFINE ps == [H EXCEPT !.content_length = t]
  <2>1. t \in 0 .. MaxUint /\ t # MaxUint
    <3>1. h.content_length * 16 + unhex[c] \in Nat
      BY <1>2, <1>5, Hexadecimal
    <3> QED BY <1>5, <3>1, Wraps
  <2>2. Next1(ps)
    BY <1>5
  <2> HIDE DEF t
  <2>3. Fields(ps) /\ ps.state = "s_chunk_size" /\ ps.content_length = t /\ ps.flags = H.flags
    BY <1>2, <2>1 DEF Fields, Names
  <2> HIDE DEF ps
  <2>4. ParserOK(ps)
    BY <1>2, <2>1, <2>3 DEF ParserOK
  <2> QED BY <1>1, <1>2, <2>2, <2>3, <2>4, Steps
<1> QED BY <1>3, <1>4, <1>5, Failed

LEMMA ChunkParametersKeeps == ASSUME IInv, ChunkParameters PROVE IInv'
<1>1. Looking /\ h.state = "s_chunk_parameters"
  BY LooksAt DEF ChunkParameters
<1>2. To("s_chunk_size_almost_done") \/ Stay
  BY DEF ChunkParameters
<1>3. CASE Stay
  BY <1>1, <1>3, Stays
<1> QED BY <1>1, <1>2, <1>3, ChunkHead

LEMMA ChunkSizeAlmostDoneKeeps == ASSUME IInv, ChunkSizeAlmostDone PROVE IInv'
<1>1. Looking /\ h.state = "s_chunk_size_almost_done"
  BY LooksAt DEF ChunkSizeAlmostDone
<1>2. /\ h.state \notin Marked /\ Fields(H) /\ "CHUNKED" \in H.flags /\ H.content_length # MaxUint
      /\ H.content_length = h.content_length
  BY <1>1, Seen DEF Marked, UrlStates, ParserOK, ChunkStates
<1>3. \/ Fail("STRICT")
      \/ \E fl : Next1([H EXCEPT !.nread = 0, !.flags = fl, !.state = "s_header_field_start"])
      \/ h.content_length # 0 /\ Next1([H EXCEPT !.nread = 0, !.state = "s_chunk_data"])
  BY DEF ChunkSizeAlmostDone
<1> HIDE DEF H
<1>4. ASSUME NEW fl, Next1([H EXCEPT !.nread = 0, !.flags = fl, !.state = "s_header_field_start"]) PROVE IInv'
  <2> DEFINE ps == [H EXCEPT !.nread = 0, !.flags = fl, !.state = "s_header_field_start"]
  <2>1. Fields(ps) /\ ps.state \notin Special
    BY <1>2 DEF Fields, Names, Special, ChunkStates
  <2>2. Next1(ps)
    BY <1>4
  <2> HIDE DEF ps
  <2> QED BY <1>1, <1>2, <2>1, <2>2, Walks
<1>5. CASE h.content_length # 0 /\ Next1([H EXCEPT !.nread = 0, !.state = "s_chunk_data"])
  <2> DEFINE ps == [H EXCEPT !.nread = 0, !.state = "s_chunk_data"]
  <2>1. Next1(ps)
    BY <1>5
  <2>2. Fields(ps) /\ ps.state = "s_chunk_data" /\ ps.flags = H.flags /\ ps.content_length = H.content_length
    BY <1>2 DEF Fields, Names
  <2> HIDE DEF ps
  <2>3. ParserOK(ps)
    BY <1>2, <1>5, <2>2 DEF ParserOK
  <2>4. MarksOK(ps.state, mark)
    BY <1>2, Unmarked
  <2> QED BY <1>1, <2>1, <2>2, <2>3, <2>4, Steps
<1> QED BY <1>3, <1>4, <1>5, Failed

LEMMA ChunkDataKeeps == ASSUME IInv, ChunkData PROVE IInv'
<1>1. Looking /\ h.state = "s_chunk_data" /\ pc = "parse"
  BY LooksAt DEF ChunkData
<1>2. /\ Fields(H) /\ H.state = "s_chunk_data" /\ H.content_length = h.content_length
      /\ "CHUNKED" \in H.flags /\ MarksOK("s_chunk_data", mark)
  BY <1>1, Seen DEF ParserOK, ChunkStates
<1> DEFINE left == h.content_length - to_read
           s == IF to_read = h.content_length THEN "s_chunk_data_almost_done" ELSE "s_chunk_data"
           ps == [H EXCEPT !.content_length = left, !.state = s]
<1>3. Now(ps) /\ mark' = MARK("body") /\ p' = p + to_read /\ pc' = "parse"
  BY <1>1, <1>2 DEF ChunkData, Running
<1>4. /\ left \in 0 .. MaxUint - 1 /\ s \in {"s_chunk_data_almost_done", "s_chunk_data"}
      /\ s = "s_chunk_data" => left # 0
      /\ s = "s_chunk_data_almost_done" => left = 0
      /\ p' \in Nat
  BY <1>1, <1>3, ToRead
<1> HIDE DEF H, left, s
<1>5. left \in 0 .. MaxUint /\ left # MaxUint
  BY <1>4, SizesAssumption
<1>6. Fields(ps) /\ ps.state = s /\ ps.content_length = left /\ ps.flags = H.flags
  BY <1>2, <1>5 DEF Fields, Names
<1> HIDE DEF ps
<1>7. ParserOK(ps)
  BY <1>2, <1>4, <1>5, <1>6 DEF ParserOK
<1>8. MarksOK(ps.state, mark')
  <2>1. mark \in [Callbacks -> Nat] /\ p \in Nat
    BY <1>2 DEF MarksOK, IInv
  <2>2. \A k \in Callbacks : mark[k] # 0 => k = "body"
    BY <1>2 DEF MarksOK, MarkedIn, Callbacks, UrlStates
  <2>3. mark' \in [Callbacks -> Nat] /\ \A k \in Callbacks : mark'[k] # 0 => k = "body"
    BY <1>3, <2>1, <2>2 DEF MARK
  <2> QED BY <1>4, <1>6, <2>3 DEF MarksOK, MarkedIn, Callbacks
<1>9. Midway(ps, mark', p', fresh')
  BY <1>4, <1>6 DEF Midway
<1> QED BY <1>3, <1>4, <1>7, <1>8, <1>9, Moved

LEMMA ChunkDataAlmostDoneKeeps == ASSUME IInv, ChunkDataAlmostDone PROVE IInv'
<1>1. Looking /\ h.state = "s_chunk_data_almost_done" /\ pc = "parse"
  BY LooksAt DEF ChunkDataAlmostDone
<1>2. Fields(H) /\ "CHUNKED" \in H.flags /\ "body" \in Callbacks /\ h.state \in MarkedIn["body"]
  BY <1>1, Seen DEF ParserOK, ChunkStates, MarkedIn, Callbacks
<1> DEFINE ps == [H EXCEPT !.state = "s_chunk_data_done"]
<1>3. \/ Fail("STRICT")
      \/ Now(ps) /\ CALLBACK_DATA("body", p - 1) /\ Advance /\ Running
  BY DEF ChunkDataAlmostDone
<1> HIDE DEF H
<1>4. CASE Now(ps) /\ CALLBACK_DATA("body", p - 1) /\ Advance /\ Running
  <2>1. Now(ps)
    BY <1>4
  <2>2. Fields(ps) /\ ps.state = "s_chunk_data_done" /\ ps.flags = H.flags
    BY <1>2 DEF Fields, Names
  <2> HIDE DEF ps
  <2>3. ParserOK(ps)
    BY <1>2, <2>2 DEF ParserOK
  <2>4. MarksOK(ps.state, mark')
    BY <1>2, <1>4, Reported
  <2>5. p' \in Nat /\ pc' = "parse" /\ Midway(ps, mark', p', fresh')
    BY <1>1, <1>4, <2>2 DEF IInv, Advance, Running, Midway
  <2> QED BY <2>1, <2>3, <2>4, <2>5, Moved
<1> QED BY <1>3, <1>4, Failed

LEMMA ChunkDataDoneKeeps == ASSUME IInv, ChunkDataDone PROVE IInv'
<1>1. Looking /\ h.state = "s_chunk_data_done"
  BY LooksAt DEF ChunkDataDone
<1>2. h.state \notin Marked /\ Fields(H) /\ "CHUNKED" \in H.flags
  BY <1>1, Seen DEF Marked, UrlStates, ParserOK, ChunkStates
<1> DEFINE ps == [H EXCEPT !.nread = 0, !.state = "s_chunk_size_start"]
<1>3. Fail("STRICT") \/ Next1(ps)
  BY DEF ChunkDataDone
<1> HIDE DEF H
<1>4. Fields(ps) /\ ps.state = "s_chunk_size_start" /\ ps.nread = 0 /\ ps.flags = H.flags
  BY <1>2 DEF Fields, Names
<1> HIDE DEF ps
<1>5. ParserOK(ps)
  BY <1>2, <1>4 DEF ParserOK
<1>6. MarksOK(ps.state, mark)
  BY <1>2, Unmarked
<1>7. CASE Next1(ps)
  BY <1>1, <1>4, <1>5, <1>6, <1>7, Steps
<1> QED BY <1>3, <1>7, Failed

-----------------------------------------------------------------------------
(* The end of the buffer, and the next read.                               *)

LEMMA EndOfBufferKeeps == ASSUME IInv, EndOfBuffer PROVE IInv'
<1>1. /\ mark \in [Callbacks -> Nat] /\ ParserOK(h) /\ MarksOK(h.state, mark)
      /\ pc' = "parsed" /\ p' = p /\ Now(h)
  BY DEF IInv, MarksOK, EndOfBuffer
<1>2. \/ mark' = mark
      \/ \E cb \in Callbacks : mark[cb] # 0 /\ CALLBACK_DATA(cb, arrived)
  BY <1>1 DEF EndOfBuffer, Quiet
<1>3. ASSUME NEW cb \in Callbacks, mark[cb] # 0, CALLBACK_DATA(cb, arrived) PROVE MarksOK(h.state, mark')
  BY <1>1, <1>3, Reported DEF MarksOK
<1>4. MarksOK(h.state, mark')
  BY <1>1, <1>2, <1>3
<1>5. p' \in Nat
  BY <1>1 DEF IInv
<1> QED BY <1>1, <1>4, <1>5, Moved

LEMMA Fresh ==
  /\ ParserOK(http_parser_init) /\ http_parser_init.state = "s_start_req"
  /\ MarksOK("s_start_req", NoMarks)
<1>1. ParserOK(http_parser_init) /\ http_parser_init.state = "s_start_req"
  BY SizesAssumption DEF http_parser_init, ParserOK, Fields, Names, ChunkStates
<1>2. NoMarks \in [Callbacks -> Nat] /\ \A cb \in Callbacks : NoMarks[cb] = 0
  BY DEF NoMarks, Callbacks
<1> QED BY <1>1, <1>2 DEF MarksOK

LEMMA OnReadRestarts == ASSUME IInv, OnRead PROVE IInv'
<1>1. p' = 1 /\ h' = http_parser_init /\ mark' = NoMarks /\ pc' \in {"parse", "closed"} /\ stream' = stream
  BY DEF OnRead
<1>2. arrived' \in Nat
  <2>1. PICK n \in (IF sent = <<>> THEN {Len(stream)} ELSE arrived + 1 .. Len(stream)) : arrived' = n
    BY DEF OnRead
  <2>2. arrived \in Nat /\ Len(stream) \in Nat
    BY DEF IInv
  <2> QED BY <2>1, <2>2
<1> QED BY <1>1, <1>2, Fresh DEF IInv, Midway

(* Whatever arrives, and however it is cut, the parser stays inside its    *)
(* assertions.                                                             *)
LEMMA Inductive == IInv /\ [Next]_vars => IInv'
<1> SUFFICES ASSUME IInv, [Next]_vars PROVE IInv'
  OBVIOUS
<1>1. CASE UNCHANGED vars
  <2>1. UNCHANGED <<stream, arrived, pc, p, fresh, h, mark>>
    BY <1>1 DEF vars
  <2> QED BY <2>1 DEF IInv, Midway
<1>2. CASE OnRead
  BY <1>2, OnReadRestarts
<1>3. CASE HeaderOverflow
  BY <1>3, Failed DEF HeaderOverflow
<1>4. CASE Dead \/ StartReq \/ ReqMethod \/ SpacesBeforeUrl \/ UrlStart \/ UrlRest
  BY <1>4, DeadKeeps, StartReqKeeps, ReqMethodKeeps, SpacesBeforeUrlKeeps, UrlStartKeeps, UrlRestKeeps
<1>5. CASE HttpWord \/ HttpVersion \/ ReqLineAlmostDone
  BY <1>5, HttpWordKeeps, HttpVersionKeeps, ReqLineAlmostDoneKeeps
<1>6. CASE \/ HeaderFieldStart \/ HeaderField \/ HeaderValueStart \/ HeaderValue
           \/ HeaderAlmostDone \/ HeaderValueLws \/ HeadersAlmostDone \/ HeadersDone
  BY <1>6, HeaderFieldStartKeeps, HeaderFieldKeeps, HeaderValueStartKeeps, HeaderValueKeeps,
     HeaderAlmostDoneKeeps, HeaderValueLwsKeeps, HeadersAlmostDoneKeeps, HeadersDoneKeeps
<1>7. CASE BodyIdentity \/ MessageDone
  BY <1>7, BodyIdentityKeeps, MessageDoneKeeps
<1>8. CASE \/ ChunkSizeStart \/ ChunkSize \/ ChunkParameters \/ ChunkSizeAlmostDone
           \/ ChunkData \/ ChunkDataAlmostDone \/ ChunkDataDone
  BY <1>8, ChunkSizeStartKeeps, ChunkSizeKeeps, ChunkParametersKeeps, ChunkSizeAlmostDoneKeeps,
     ChunkDataKeeps, ChunkDataAlmostDoneKeeps, ChunkDataDoneKeeps
<1>9. CASE EndOfBuffer
  BY <1>9, EndOfBufferKeeps
<1> QED BY <1>1, <1>2, <1>3, <1>4, <1>5, <1>6, <1>7, <1>8, <1>9 DEF Next, Execute

LEMMA Started == Init => IInv
<1> SUFFICES ASSUME Init PROVE IInv
  OBVIOUS
<1>1. stream \in Seq(STRING)
  BY InputsAssumption DEF Init
<1> QED BY <1>1, Fresh DEF Init, IInv

(* At most one callback's data has begun: the states in which the data of  *)
(* two callbacks goes on have nothing in common.                           *)
LEMMA OneMark ==
  ASSUME IInv
  PROVE  Cardinality({cb \in DOMAIN mark : mark[cb] # 0}) <= 1
<1> DEFINE M == {cb \in DOMAIN mark : mark[cb] # 0}
<1>1. DOMAIN mark = Callbacks /\ \A cb \in Callbacks : mark[cb] # 0 => h.state \in MarkedIn[cb]
  BY DEF IInv, MarksOK
<1>2. ASSUME NEW a \in M, NEW b \in M PROVE a = b
  <2>1. a \in Callbacks /\ b \in Callbacks /\ h.state \in MarkedIn[a] /\ h.state \in MarkedIn[b]
    BY <1>1
  <2> QED BY <2>1 DEF MarkedIn, Callbacks, UrlStates
<1> SUFFICES Cardinality(M) <= 1
  OBVIOUS
<1> HIDE DEF M
<1>3. CASE M = {}
  BY <1>3, FS_EmptySet
<1>4. CASE M # {}
  <2>1. PICK a : a \in M
    BY <1>4
  <2>2. M = {a}
    BY <1>2, <2>1
  <2>3. Cardinality({a}) = 1
    BY FS_Singleton
  <2> QED BY <2>2, <2>3
<1> QED BY <1>3, <1>4

LEMMA Asserted == IInv => ParserAssertions
<1> SUFFICES ASSUME IInv PROVE ParserAssertions
  OBVIOUS
<1>1. Cardinality({cb \in DOMAIN mark : mark[cb] # 0}) <= 1
  BY OneMark
<1>2. ParserOK(h) /\ (pc = "parse" => Midway(h, mark, p, fresh))
  BY DEF IInv
<1>3. h.state = "s_header_value" => h.header_state \notin {"h_connection", "h_transfer_encoding"}
  BY <1>2 DEF ParserOK
<1>4. Looking /\ h.state \in {"s_body_identity", "s_chunk_data"} => h.content_length \notin {0, MaxUint}
  BY <1>2 DEF ParserOK
<1>5. Looking /\ h.state = "s_chunk_size_start" => H.nread = 1
  <2> SUFFICES ASSUME Looking, h.state = "s_chunk_size_start" PROVE H.nread = 1
    OBVIOUS
  <2>1. h.nread = 0 /\ fresh
    BY <1>2 DEF Midway, Looking
  <2>2. PARSING_HEADER(h.state)
    BY DEF PARSING_HEADER, BodyStates
  <2>3. H.nread = h.nread + 1
    BY <1>2, <2>1, <2>2, Counted DEF ParserOK
  <2> QED BY <2>1, <2>3
<1>6. Looking /\ h.state \in {"s_chunk_size_start", "s_chunk_size", "s_chunk_parameters",
                              "s_chunk_size_almost_done", "s_chunk_data",
                              "s_chunk_data_almost_done", "s_chunk_data_done"} => "CHUNKED" \in h.flags
  BY <1>2 DEF ParserOK, ChunkStates
<1>7. h.state = "s_chunk_data_almost_done" => h.content_length = 0
  BY <1>2 DEF ParserOK
<1> QED BY <1>1, <1>3, <1>4, <1>5, <1>6, <1>7 DEF ParserAssertions

(* The assertions of http_parser.cpp hold for every buffer, well-formed or *)
(* not: one mark at most is set (http_parser_execute), a value is not      *)
(* matched in a state of a name, a chunk's size is the first byte counted  *)
(* after the headers, a body is read with a length, the states of a chunk  *)
(* follow the chunked header, and a chunk ends with nothing left of it.    *)
THEOREM AssertionsHold == Spec => []ParserAssertions
<1>1. IInv => ParserAssertions
  BY Asserted
<1> QED BY <1>1, Started, Inductive, PTL DEF Spec
=============================================================================
