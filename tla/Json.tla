-------------------------------- MODULE Json --------------------------------
(***************************************************************************)
(* The JSON layer of the api handlers: Json::Reader, the parts of          *)
(* Json::Value they use, Json::FastWriter, and the decodeXxxJson functions *)
(* that turn a request body into the handler's arguments.                  *)
(*                                                                         *)
(* Each behaviour reads one text.  The text is either sent by a client     *)
(* token by token (open is TRUE while tokens may follow), or is what       *)
(* FastWriter writes for a value (sent): an object with the fields of one  *)
(* api, or the value read before, written again.                           *)
(*                                                                         *)
(* A token is the unit of the model: white space, the place of an error    *)
(* and the comments a value keeps are left out.  A numeral keeps its       *)
(* characters, a string its units (a character or an escape), because      *)
(* what the code makes of them is what the properties are about.  The      *)
(* recursion readValue - readArray - readObject is the stack nodes of the  *)
(* containers being read; pc names the call the next token is read in.     *)
(***************************************************************************)
EXTENDS Integers, Sequences, FiniteSets, TLC
LOCAL INSTANCE SequencesExt
LOCAL INSTANCE Functions

CONSTANTS
    LargestBits,    \* width of LargestInt and LargestUInt (64 in the code)
    IntBits,        \* width of Int and UInt (32 in the code)
    SignificandBits, \* bits of a double's significand (53 in the code)
    UnitBits,       \* the least double is 2^-UnitBits (1074 in the code)
    PrintedDigits,  \* significant digits of a double that is written (16 in the code)
    Numerals,       \* the numerals a client's text has inside a container
    LoneNumerals,   \* the numerals it has as the whole text
    Texts,          \* the strings it has: sequences of units
    FieldValues,    \* the values a client gives a field of a request
    MaxExponent,    \* bound: no double of a text exceeds 2^(SignificandBits + MaxExponent) units
    MaxTokens,      \* bound: tokens of a client's text
    Beginnings      \* token sequences after which a text may have MaxTokens more

(* As for the widths in the code: an integer of PrintedDigits digits fits   *)
(* LargestInt, and those digits are one too few to tell every double from   *)
(* its neighbours.                                                          *)
ASSUME WidthAssumption ==
    /\ LargestBits \in Nat /\ SignificandBits \in Nat /\ PrintedDigits \in Nat
    /\ 10^PrintedDigits < 2^(LargestBits - 1)
    /\ 10^(PrintedDigits - 1) < 2^SignificandBits /\ 2^SignificandBits < 10^PrintedDigits

VARIABLES doc, pos, open, sent, api, nodes, pc, root, ok, errors, outcome

vars == <<doc, pos, open, sent, api, nodes, pc, root, ok, errors, outcome>>

NoValue   == [type |-> "none"]
NoOutcome == [ret |-> "none", args |-> <<>>]

-----------------------------------------------------------------------------
(* Values.                                                                 *)

maxLargestUInt == 2^LargestBits - 1
maxLargestInt  == 2^(LargestBits - 1) - 1
minLargestInt  == -(2^(LargestBits - 1))
maxInt         == 2^(IntBits - 1) - 1
minInt         == -(2^(IntBits - 1))

(* A conversion to a signed type keeps the low bits.                       *)
Signed(n, bits) == ((n + 2^(bits - 1)) % (2^bits)) - 2^(bits - 1)

NullValue      == [type |-> "null"]
IntValue(n)    == [type |-> "int", int |-> n]
UIntValue(n)   == [type |-> "uint", uint |-> n]
BoolValue(b)   == [type |-> "boolean", bool |-> b]
(* A double, in units of 2^-UnitBits; infinities and -0 are left out.      *)
RealValue(n)   == [type |-> "real", units |-> n]
EmptyArray     == [type |-> "array", elems |-> <<>>]
EmptyObject    == [type |-> "object", map |-> <<>>]

(* A string is kept, and copied, as a C string: it ends at the first NUL.  *)
CString(s) == LET nuls == {i \in DOMAIN s : s[i] = "NUL"}
              IN  IF nuls = {} THEN s
                  ELSE SubSeq(s, 1, (CHOOSE i \in nuls : \A j \in nuls : i <= j) - 1)

StringValue(s) == [type |-> "string", str |-> CString(s)]

(* operator[](index) with the next index, and operator[](key) = value.     *)
Append_(array, v) == [array EXCEPT !.elems = Append(@, v)]
SetMember(object, name, v) ==
    [object EXCEPT !.map = (CString(name) :> v) @@ @]

(* root[name] of a handler: a member that is missing is made, as null.     *)
Member(object, name) ==
    IF object.type = "object" /\ name \in DOMAIN object.map
    THEN object.map[name] ELSE NullValue

-----------------------------------------------------------------------------
(* Numbers: decodeNumber, decodeDouble, valueToString.                     *)

DigitOf == ("0" :> 0) @@ ("1" :> 1) @@ ("2" :> 2) @@ ("3" :> 3) @@ ("4" :> 4)
        @@ ("5" :> 5) @@ ("6" :> 6) @@ ("7" :> 7) @@ ("8" :> 8) @@ ("9" :> 9)
CharOf == <<"0", "1", "2", "3", "4", "5", "6", "7", "8", "9">>
IsDigit(c) == c \in DOMAIN DigitOf

(* num / den as an integer; the even one when two are as near.             *)
RoundToEven(num, den) ==
    LET n == num \div den
        r == 2 * (num % den)
    IN  IF r > den \/ (r = den /\ n % 2 = 1) THEN n + 1 ELSE n

(* The largest x with base^x <= num / den, for num > 0.                    *)
RECURSIVE Magnitude(_, _, _)
Magnitude(num, den, base) ==
    CASE num >= base * den -> 1 + Magnitude(num, base * den, base)
      [] num < den         -> Magnitude(base * num, den, base) - 1
      [] OTHER             -> 0

Positive(k) == IF k > 0 THEN k ELSE 0

(* The double nearest to n * 10^power: SignificandBits of it are kept.     *)
NearestDouble(n, power) ==
    LET num  == n * 10^Positive(power) * 2^UnitBits
        den  == 10^Positive(-power)
        step == 2^Positive(Magnitude(num, den, 2) + 1 - SignificandBits)
    IN  IF n = 0 THEN 0 ELSE step * RoundToEven(num, den * step)

(* sscanf("%lf"): the longest prefix that is a number counts, the rest of  *)
(* the token is not looked at.                                             *)
RECURSIVE NatPrefix(_, _, _)
NatPrefix(text, i, n) ==
    IF i <= Len(text) /\ IsDigit(text[i])
    THEN NatPrefix(text, i + 1, 10 * n + DigitOf[text[i]])
    ELSE [next |-> i, value |-> n]

CharIs(text, i, chars) == i <= Len(text) /\ text[i] \in chars

ExponentAt(text, i) ==
    LET first == IF CharIs(text, i + 1, {"+", "-"}) THEN i + 2 ELSE i + 1
        n     == NatPrefix(text, first, 0).value
    IN  IF ~CharIs(text, i, {"e", "E"}) THEN 0
        ELSE IF CharIs(text, i + 1, {"-"}) THEN -n ELSE n

decodeDouble(text) ==
    LET negative == text[1] = "-"
        first    == IF negative THEN 2 ELSE 1
        whole    == NatPrefix(text, first, 0)
        point    == IF CharIs(text, whole.next, {"."}) THEN 1 ELSE 0
        all      == NatPrefix(text, whole.next + point, whole.value)
        decimals == all.next - whole.next - point
        double   == NearestDouble(all.value, ExponentAt(text, all.next) - decimals)
    IN  IF all.next = first + point THEN NoValue
        ELSE RealValue(IF negative THEN -double ELSE double)

RECURSIVE DecodeDigits(_, _, _, _)
DecodeDigits(text, i, value, maxInteger) ==
    IF i > Len(text) THEN value
    ELSE LET digit     == DigitOf[text[i]]
             threshold == maxInteger \div 10
         IN  IF /\ value >= threshold
                /\ \/ value > threshold
                   \/ i # Len(text)
                   \/ digit > maxInteger % 10
             THEN -1                           \* too large: decodeDouble
             ELSE DecodeDigits(text, i + 1, (10 * value + digit) % (maxLargestUInt + 1), maxInteger)

(* Mutant: the limit of the unsigned type for negative numbers too.        *)
decodeNumberOneLimit(text) ==
    LET negative == text[1] = "-"
        isDouble == \E i \in DOMAIN text :
                       text[i] \in {".", "e", "E", "+"} \/ (text[i] = "-" /\ i # 1)
        value    == DecodeDigits(text, IF negative THEN 2 ELSE 1, 0,
                                 maxLargestUInt)
    IN  IF isDouble \/ value = -1 THEN decodeDouble(text)
        ELSE IF negative THEN IntValue(Signed(-value, LargestBits))
        ELSE IF value <= maxInt THEN IntValue(value)
        ELSE UIntValue(value)

(* An integer that LargestInt or LargestUInt holds is read exactly, every  *)
(* other number as a double; NoValue when the text is no number.           *)
decodeNumber(text) ==
    LET negative == text[1] = "-"
        isDouble == \E i \in DOMAIN text :
                       text[i] \in {".", "e", "E", "+"} \/ (text[i] = "-" /\ i # 1)
        value    == DecodeDigits(text, IF negative THEN 2 ELSE 1, 0,
                                 IF negative THEN -minLargestInt ELSE maxLargestUInt)
    IN  IF isDouble \/ value = -1 THEN decodeDouble(text)
        ELSE IF negative THEN IntValue(Signed(-value, LargestBits))
        ELSE IF value <= maxInt THEN IntValue(value)
        ELSE UIntValue(value)

RECURSIVE uintToString(_)
uintToString(n) == IF n < 10 THEN <<CharOf[n + 1]>>
                   ELSE Append(uintToString(n \div 10), CharOf[(n % 10) + 1])

valueToString(n) == IF n < 0 THEN <<"-">> \o uintToString(-n) ELSE uintToString(n)

Zeros(n) == [i \in 1..Positive(n) |-> "0"]

(* A point after k of the digits, if any are left.                         *)
WithPoint(digits, k) ==
    IF Len(digits) <= k THEN digits \o Zeros(k - Len(digits))
    ELSE SubSeq(digits, 1, k) \o <<".">> \o SubSeq(digits, k + 1, Len(digits))

RECURSIVE realToString(_)
(* "%.16g": the digits without the zeros at their end, and an exponent when *)
(* the first digit stands too far from the point.                          *)
realToString(n) ==
    LET m      == IF n < 0 THEN -n ELSE n
        low    == Magnitude(m, 2^UnitBits, 10)
        shift  == PrintedDigits - 1 - low
        round  == RoundToEven(m * 10^Positive(shift), 2^UnitBits * 10^Positive(-shift))
        x      == IF round = 10^PrintedDigits THEN low + 1 ELSE low
        all    == uintToString(round)
        digits == SubSeq(all, 1, CHOOSE k \in DOMAIN all :
                            all[k] # "0" /\ \A j \in (k + 1)..Len(all) : all[j] = "0")
        power  == uintToString(IF x < 0 THEN -x ELSE x)
    IN  CASE n = 0 -> <<"0">>
          [] n < 0 -> <<"-">> \o realToString(m)
          [] n > 0 /\ (x < -4 \/ x >= PrintedDigits) ->
                WithPoint(digits, 1) \o <<"e", IF x < 0 THEN "-" ELSE "+">>
                \o Zeros(2 - Len(power)) \o power
          [] OTHER -> WithPoint(Zeros(-x) \o digits, 1 + Positive(x))

-----------------------------------------------------------------------------
(* Strings: decodeString and valueToQuotedString.                          *)

(* What an escape stands for; a unit that is no escape stands for itself.  *)
Unescaped == ("\\q" :> "quote") @@ ("\\b" :> "backslash") @@ ("\\n" :> "LF")
          @@ ("\\u0000" :> "NUL") @@ ("\\u0001" :> "SOH") @@ ("\\u0061" :> "a")
Escaped == ("quote" :> "\\q") @@ ("backslash" :> "\\b") @@ ("LF" :> "\\n")
        @@ ("SOH" :> "\\u0001")

BadEscape(text) == \E i \in DOMAIN text : text[i] = "\\bad"
decodeString(text) ==
    [i \in DOMAIN text |->
        IF text[i] \in DOMAIN Unescaped THEN Unescaped[text[i]] ELSE text[i]]

valueToQuotedString(s) ==
    [i \in DOMAIN s |-> IF s[i] \in DOMAIN Escaped THEN Escaped[s[i]] ELSE s[i]]

-----------------------------------------------------------------------------
(* Tokens and FastWriter.                                                  *)

Token(kind)      == [kind |-> kind]
NumberToken(t)   == [kind |-> "number", text |-> t]
StringToken(u)   == [kind |-> "string", units |-> u]
EndOfStream      == Token("eos")

(* Mutant: a comma before the first member too.                            *)
JoinedAlways(parts) == FoldLeft(LAMBDA acc, p : acc \o <<Token(",")>> \o p, <<>>, parts)

(* A member or an element after the first has a comma before it.           *)
Joined(parts) ==
    FoldLeft(LAMBDA acc, p : IF acc = <<>> THEN p ELSE acc \o <<Token(",")>> \o p,
             <<>>, parts)

RECURSIVE writeValue(_)
writeValue(v) ==
    CASE v.type = "null"    -> <<Token("null")>>
      [] v.type = "int"     -> <<NumberToken(valueToString(v.int))>>
      [] v.type = "uint"    -> <<NumberToken(valueToString(v.uint))>>
      [] v.type = "real"    -> <<NumberToken(realToString(v.units))>>
      [] v.type = "string"  -> <<StringToken(valueToQuotedString(v.str))>>
      [] v.type = "boolean" -> <<Token(IF v.bool THEN "true" ELSE "false")>>
      [] v.type = "array"   ->
            <<Token("[")>>
            \o Joined([i \in DOMAIN v.elems |-> writeValue(v.elems[i])])
            \o <<Token("]")>>
      [] v.type = "object"  ->
            LET names == SetToSeq(DOMAIN v.map)
            IN  <<Token("{")>>
                \o Joined([i \in DOMAIN names |->
                      <<StringToken(valueToQuotedString(names[i])), Token(":")>>
                      \o writeValue(v.map[names[i]])])
                \o <<Token("}")>>

-----------------------------------------------------------------------------
(* The apis: the fields each decodeXxxJson takes from the object, in       *)
(* order.                                                                  *)

Field(name, as)   == [name |-> <<name>>, as |-> as, optional |-> FALSE]
OptionalField(name) == [name |-> <<name>>, as |-> "string", optional |-> TRUE]
Text(name)        == Field(name, "string")
Number(name)      == Field(name, "int")

decodeLoginJson == <<Text("user"), Text("pwd")>>
decodeRegisterJson ==
    <<Text("userName"), Text("nickName"), Text("firstPwd"),
      OptionalField("phone"), OptionalField("email")>>
decodeMd5Json == <<Text("user"), Text("token"), Text("md5"), Text("filename")>>
decodeDealfileJson == <<Text("user"), Text("token"), Text("md5"), Text("filename")>>
decodeDealsharefileJson == <<Text("user"), Text("md5"), Text("filename")>>
decodeSharePictureJson ==
    <<Text("token"), Text("user"), Text("md5"), Text("filename")>>
decodePictureListJson ==
    <<Text("token"), Text("user"), Number("start"), Number("count")>>
decodeCancelPictureJson == <<Text("user"), Text("urlmd5")>>
decodeBrowsePictureJson == <<Text("urlmd5")>>
decodeCountJson == <<Text("user"), Text("token")>>
decodeFileslistJson ==
    <<Text("user"), Text("token"), Number("start"), Number("count")>>
decodeShareFileslistJson == <<Number("start"), Number("count")>>

Apis == { decodeLoginJson, decodeRegisterJson, decodeMd5Json, decodeDealfileJson,
          decodeDealsharefileJson, decodeSharePictureJson, decodePictureListJson,
          decodeCancelPictureJson, decodeBrowsePictureJson, decodeCountJson,
          decodeFileslistJson, decodeShareFileslistJson }

(* asString and asInt, of the values they do not throw for.                *)
asString(v) ==
    CASE v.type = "null"    -> <<>>
      [] v.type = "string"  -> v.str
      [] v.type = "boolean" -> IF v.bool THEN <<"true">> ELSE <<"false">>
      [] v.type = "int"     -> valueToString(v.int)
      [] v.type = "uint"    -> valueToString(v.uint)
      [] v.type = "real"    -> realToString(v.units)

InRange(n) == minInt <= n /\ n <= maxInt

(* Int(double) drops the fraction.                                         *)
Truncated(n) == IF n < 0 THEN -((-n) \div 2^UnitBits) ELSE n \div 2^UnitBits

asInt(v) ==
    CASE v.type = "null"    -> 0
      [] v.type = "boolean" -> IF v.bool THEN 1 ELSE 0
      [] v.type = "int"     -> Signed(v.int, IntBits)
      [] v.type = "uint"    -> Signed(v.uint, IntBits)
      [] v.type = "real"    -> Truncated(v.units)

(* Mutant: only a value that is no number cannot be converted.             *)
IntThrowsNoRange(v) == v.type \in {"string", "array", "object"}

IntThrows(v) == \/ v.type \in {"string", "array", "object"}
                \/ v.type = "int" /\ ~InRange(v.int)
                \/ v.type = "uint" /\ ~InRange(v.uint)
                \/ v.type = "real" /\ ~(2^UnitBits * minInt <= v.units /\ v.units <= 2^UnitBits * maxInt)

Throws(field, v) ==
    IF field.as = "int" THEN IntThrows(v) ELSE v.type \in {"array", "object"}
Converted(field, v) == IF field.as = "int" THEN asInt(v) ELSE asString(v)

(* The steps of a decode function: each field is tested and converted      *)
(* before the next one is looked at.  "refused" is the return of -1, which *)
(* the api answers with code 1; "thrown" is an exception, which no handler *)
(* catches: ThreadPool::run drops it, and in the event loop nothing does.  *)
TakeField(got, field, object) ==
    LET v == Member(object, field.name)
    IN  CASE got.ret # "taken" -> got
          [] v.type = "null" /\ ~field.optional -> [got EXCEPT !.ret = "refused"]
          [] v.type = "null" /\ field.optional  ->
                [got EXCEPT !.args = Append(@, <<>>)]
          [] v.type # "null" /\ Throws(field, v) ->
                [got EXCEPT !.ret = "thrown"]
          [] OTHER -> [got EXCEPT !.args = Append(@, Converted(field, v))]

TakeFields(fields, object) ==
    FoldLeft(LAMBDA got, field : TakeField(got, field, object),
             [ret |-> "taken", args |-> <<>>], fields)

DecodeRequest(fields, parsed, value) ==
    CASE ~parsed -> [ret |-> "refused", args |-> <<>>]
      [] parsed /\ value.type \notin {"null", "object"} ->
            [ret |-> "thrown", args |-> <<>>]
      [] OTHER -> TakeFields(fields, value)

-----------------------------------------------------------------------------
(* An object with some of the fields an api takes.                         *)
Requests(fields) ==
    LET names == {fields[i].name : i \in DOMAIN fields}
    IN  {[type |-> "object", map |-> m] :
            m \in UNION {[some -> FieldValues] : some \in SUBSET names}}

Init ==
    /\ \/ /\ doc = <<>> /\ open = TRUE /\ sent = NoValue
          /\ api = decodeShareFileslistJson
       \/ /\ api \in Apis
          /\ sent \in Requests(api)
          /\ doc = writeValue(sent) /\ open = FALSE
    /\ pos = 1 /\ nodes = <<>> /\ pc = "value" /\ root = NullValue
    /\ ok = TRUE /\ errors = 0 /\ outcome = NoOutcome

(* The kinds of token the lexer tells apart, skipSpaces to readString;     *)
(* "error" is a word match refuses, an unfinished string or comment, or a  *)
(* character that begins no token.                                         *)
Kinds == {"{", "}", "[", "]", ",", ":", "null", "true", "false", "comment", "error"}

(* What a client may send next.  Reading goes on after an error and after  *)
(* the value: there the tokens that make no difference are one.            *)
AtBound == \A b \in Beginnings :
              IsPrefix(b, doc) => Len(doc) >= Len(b) + MaxTokens
Sendable ==
    CASE ~open \/ AtBound -> {EndOfStream}
      [] open /\ pc = "recover" -> {EndOfStream, Token("}"), Token("]"), Token(",")}
      [] open /\ pc = "end"     -> {EndOfStream, Token("]"), Token("comment")}
      [] OTHER ->
            {EndOfStream} \cup {Token(k) : k \in Kinds}
            \cup {NumberToken(t) : t \in IF doc = <<>> THEN LoneNumerals ELSE Numerals}
            \cup {StringToken(u) : u \in Texts}

(* readToken: the next token, which a client may be sending only now; at   *)
(* the end of the text every call gives tokenEndOfStream.                  *)
NextTokens == IF pos <= Len(doc) THEN {doc[pos]} ELSE Sendable

readToken(t) ==
    /\ t \in NextTokens
    /\ CASE pos <= Len(doc) -> pos' = pos + 1 /\ UNCHANGED <<doc, open>>
         [] pos > Len(doc) /\ t = EndOfStream -> open' = FALSE /\ UNCHANGED <<doc, pos>>
         [] OTHER -> /\ doc' = Append(doc, t) /\ pos' = pos + 1
                     /\ UNCHANGED open

Top      == nodes[Len(nodes)]
Outer    == SubSeq(nodes, 1, Len(nodes) - 1)
Closing(frame) == IF frame.value.type = "array" THEN "]" ELSE "}"
SetTop(frame) == nodes' = Append(Outer, frame)

(* The value read stands where currentValue() of the frames below it is.   *)
Stored(frame, v) ==
    IF frame.value.type = "array"
    THEN [frame EXCEPT !.value = Append_(@, v)]
    ELSE [frame EXCEPT !.value = SetMember(@, frame.name, v)]

(* readValue returns true with v, to the loop of the container outside it  *)
(* or to parse.                                                            *)
Return(v, below) ==
    /\ UNCHANGED <<errors, ok>>
    /\ IF below = <<>>
       THEN root' = v /\ nodes' = <<>> /\ pc' = "end"
       ELSE LET frame == Stored(below[Len(below)], v)
            IN  /\ nodes' = Append(SubSeq(below, 1, Len(below) - 1), frame)
                /\ pc' = IF frame.value.type = "array" THEN "element" ELSE "comma"
                /\ UNCHANGED root

(* addError, and false returned to the frames: each one skips to its own   *)
(* closing token (recoverFromError).  The value half read stays in root in *)
(* the code; no handler looks at it.                                       *)
Fail ==
    /\ errors' = errors + 1 /\ ok' = FALSE
    /\ pc' = IF nodes = <<>> THEN "end" ELSE "recover"
    /\ UNCHANGED <<nodes, root>>

Go(next) == pc' = next /\ UNCHANGED <<nodes, root, ok, errors>>
Open(v)  == /\ nodes' = Append(nodes, [value |-> v, name |-> <<>>])
            /\ UNCHANGED <<root, ok, errors>>

Reading(at, t) == pc \in at /\ readToken(t) /\ UNCHANGED <<sent, api, outcome>>

(* skipCommentTokens, and the loops over comments of the containers.  A    *)
(* comment where a comma is due makes the reader take the next token for   *)
(* the comma, whatever it is, unless it closes the object.                 *)
Comment ==
    /\ Reading({"value", "first", "key", "element", "comma", "any", "end"},
               Token("comment"))
    /\ Go(CASE pc = "first" -> "value"
            [] pc = "comma" -> "any"
            [] OTHER        -> pc)

ReadObject == Reading({"value", "first"}, Token("{")) /\ Open(EmptyObject) /\ pc' = "key"
ReadArray  == Reading({"value", "first"}, Token("[")) /\ Open(EmptyArray) /\ pc' = "first"

EmptyArrayEnd == Reading({"first"}, Token("]")) /\ Return(Top.value, Outer)

ReadNumber ==
    \E t \in NextTokens :
        /\ t.kind = "number" /\ Reading({"value", "first"}, t)
        /\ LET v == decodeNumber(t.text)
           IN  IF v = NoValue THEN Fail ELSE Return(v, nodes)

ReadString ==
    \E t \in NextTokens :
        /\ t.kind = "string" /\ Reading({"value", "first"}, t)
        /\ IF BadEscape(t.units) THEN Fail
           ELSE Return(StringValue(decodeString(t.units)), nodes)

ReadLiteral ==
    \/ Reading({"value", "first"}, Token("null")) /\ Return(NullValue, nodes)
    \/ Reading({"value", "first"}, Token("true")) /\ Return(BoolValue(TRUE), nodes)
    \/ Reading({"value", "first"}, Token("false")) /\ Return(BoolValue(FALSE), nodes)

ValueExpected ==
    \E t \in NextTokens :
        /\ t.kind \in {"}", "]", ",", ":", "error", "eos"} \ (IF pc = "first" THEN {"]"} ELSE {})
        /\ Reading({"value", "first"}, t) /\ Fail

(* The rest of readArray: after an element, its comma or the end.          *)
NextElement == Reading({"element"}, Token(",")) /\ Go("value")
ArrayEnd    == Reading({"element"}, Token("]")) /\ Return(Top.value, Outer)
SeparatorExpected ==
    \E t \in NextTokens : /\ t.kind \notin {",", "]", "comment"}
                         /\ Reading({"element"}, t) /\ Fail

(* readObject.  The name kept is the one of the member before: "}" is an   *)
(* end where a name is due only while that name is empty.                  *)
ObjectEnd ==
    /\ Reading({"key"}, Token("}")) /\ Top.name = <<>> /\ Return(Top.value, Outer)
MemberName ==
    \E t \in NextTokens :
        /\ t.kind = "string" /\ Reading({"key"}, t)
        /\ IF BadEscape(t.units) THEN Fail
           ELSE /\ SetTop([Top EXCEPT !.name = decodeString(t.units)]) /\ pc' = "colon"
                /\ UNCHANGED <<root, ok, errors>>
NameExpected ==
    \E t \in NextTokens :
        /\ pc = "key" /\ t.kind \notin {"string", "comment"}
        /\ t.kind = "}" => Top.name # <<>>
        /\ Reading({"key"}, t) /\ Fail
Colon == Reading({"colon"}, Token(":")) /\ Go("value")
ColonExpected ==
    \E t \in NextTokens : t.kind # ":" /\ Reading({"colon"}, t) /\ Fail
MembersEnd == Reading({"comma", "any"}, Token("}")) /\ Return(Top.value, Outer)
NextMember == Reading({"comma"}, Token(",")) /\ Go("key")
AnyForComma ==
    \E t \in NextTokens : t.kind \notin {"}", "comment"} /\ Reading({"any"}, t) /\ Go("key")
CommaExpected ==
    \E t \in NextTokens : /\ t.kind \notin {",", "}", "comment"}
                         /\ Reading({"comma"}, t) /\ Fail

(* recoverFromError: the frame is left when its closing token or the end   *)
(* of the text is found; the frame outside it then skips on.               *)
recoverFromError ==
    \E t \in NextTokens :
        /\ Reading({"recover"}, t)
        /\ UNCHANGED <<root, ok, errors>>
        /\ IF t.kind \in {Closing(Top), "eos"}
           THEN nodes' = Outer /\ pc' = IF Outer = <<>> THEN "end" ELSE "recover"
           ELSE UNCHANGED <<nodes, pc>>

(* The skipCommentTokens after the value: whatever follows is accepted.    *)
ParseReturns ==
    \E t \in NextTokens : t.kind # "comment" /\ Reading({"end"}, t) /\ Go("done")

(* Reader::parse: everything an earlier parse left is reset, and the value *)
(* read first is the root.                                                 *)
parse == /\ pos' = 1 /\ nodes' = <<>> /\ pc' = "value" /\ root' = NullValue
         /\ ok' = TRUE /\ errors' = 0 /\ outcome' = NoOutcome

(* The handler, and the client that sends back what it was answered.       *)
Handle ==
    /\ pc = "done" /\ outcome = NoOutcome
    /\ outcome' = DecodeRequest(api, ok, root)
    /\ UNCHANGED <<doc, pos, open, sent, api, nodes, pc, root, ok, errors>>

WriteAgain ==
    /\ outcome # NoOutcome /\ sent = NoValue /\ ok
    /\ sent' = root /\ doc' = writeValue(root) /\ open' = FALSE
    /\ parse /\ UNCHANGED api

Next ==
    \/ Comment \/ ReadObject \/ ReadArray \/ EmptyArrayEnd \/ ReadNumber \/ ReadString
    \/ ReadLiteral \/ ValueExpected \/ NextElement \/ ArrayEnd \/ SeparatorExpected
    \/ ObjectEnd \/ MemberName \/ NameExpected \/ Colon \/ ColonExpected \/ MembersEnd
    \/ NextMember \/ AnyForComma \/ CommaExpected \/ recoverFromError \/ ParseReturns
    \/ Handle \/ WriteAgain

Spec == Init /\ [][Next]_vars /\ WF_vars(Next)

-----------------------------------------------------------------------------
(* What a text denotes, by the grammar: the set has the value, or nothing. *)

(* A sign, digits, a point and digits, an exponent; the code takes more    *)
(* than that for a number ("-", "1-2").                                    *)
Unsigned(text)  == IF text[1] = "-" THEN Tail(text) ELSE text
Digits(text)    == text # <<>> /\ \A i \in DOMAIN text : IsDigit(text[i])
Place(c, text)  == IF Contains(text, c) THEN CHOOSE i \in DOMAIN text : text[i] = c
                   ELSE Len(text) + 1
UpTo(c, text)   == SubSeq(text, 1, Place(c, text) - 1)
Behind(c, text) == SubSeq(text, Place(c, text) + 1, Len(text))
Mantissa(text)  == UpTo("e", Unsigned(text))
Power(text)     == Behind("e", text)
IsInteger(text) == Digits(Unsigned(text))
WellFormed(text) ==
    /\ text[Len(text)] \notin {".", "e"}
    /\ Digits(UpTo(".", Mantissa(text)))
    /\ Contains(Mantissa(text), ".") => Digits(Behind(".", Mantissa(text)))
    /\ Power(text) # <<>> =>
          Digits(IF Power(text)[1] \in {"+", "-"} THEN Tail(Power(text)) ELSE Power(text))

(* The number itself, a fraction.                                          *)
NatOf(digits) == NatPrefix(digits, 1, 0).value
NumberOf(text) ==
    LET m     == Mantissa(text)
        sign  == IF text[1] = "-" THEN -1 ELSE 1
        exp   == Power(text)
        power == CASE exp = <<>>     -> 0
                   [] exp # <<>> /\ exp[1] = "-" -> -NatOf(Tail(exp))
                   [] exp # <<>> /\ exp[1] = "+" -> NatOf(Tail(exp))
                   [] OTHER          -> NatOf(exp)
    IN  [num |-> sign * NatOf(UpTo(".", m) \o Behind(".", m)) * 10^Positive(power),
         den |-> 10^(Len(Behind(".", m)) + Positive(-power))]

IsNumber(v) == v.type \in {"int", "uint", "real"}
Integer(v)  == IF v.type = "int" THEN v.int ELSE v.uint
Units(v)    == IF v.type = "real" THEN v.units ELSE 2^UnitBits * Integer(v)
Printed(v)  == IF v.type = "real" THEN realToString(v.units) ELSE valueToString(Integer(v))

Doubles == {s * 2^e : s \in (1 - 2^SignificandBits)..(2^SignificandBits - 1), e \in 0..MaxExponent}

(* What a numeral is read as: the integer itself when LargestInt or        *)
(* LargestUInt holds it, else a double to which no other one is nearer.    *)
Reads(v, text) ==
    LET q           == NumberOf(text)
        Distance(d) == LET x == q.num * 2^UnitBits - q.den * d IN IF x < 0 THEN -x ELSE x
    IN  IF IsInteger(text) /\ minLargestInt <= q.num /\ q.num <= maxLargestUInt
        THEN v.type \in {"int", "uint"} /\ Integer(v) = q.num
        ELSE /\ v.type = "real" /\ v.units \in Doubles
             /\ \A d \in Doubles : Distance(v.units) <= Distance(d)

(* m and n units differ by no more than the digits that are not written.   *)
Close(m, n) ==
    LET Abs(x) == IF x < 0 THEN -x ELSE x
    IN  m = n \/ 10^(PrintedDigits - 1) * Abs(m - n) < 2 * Abs(n)

(* v is w after it was sent: an integer is the same in either of its       *)
(* types, and a double is what its written digits are read as.             *)
RECURSIVE Same(_, _)
Same(v, w) ==
    CASE w.type = "numeral" -> Reads(v, w.text)
      [] w.type \in {"int", "uint"} -> v.type \in {"int", "uint"} /\ Integer(v) = Integer(w)
      [] w.type = "real"   -> IsNumber(v) /\ Reads(v, Printed(w)) /\ Close(Units(v), w.units)
      [] w.type = "array"  ->
            /\ v.type = "array" /\ Len(v.elems) = Len(w.elems)
            /\ \A i \in DOMAIN v.elems : Same(v.elems[i], w.elems[i])
      [] w.type = "object" ->
            /\ v.type = "object" /\ DOMAIN v.map = DOMAIN w.map
            /\ \A n \in DOMAIN v.map : Same(v.map[n], w.map[n])
      [] OTHER -> v = w

Commas(ts) == {i \in DOMAIN ts : ts[i].kind = ","}
Before(ts, i) == SubSeq(ts, 1, i - 1)
After(ts, i)  == SubSeq(ts, i + 1, Len(ts))

RECURSIVE Denotes(_), Elements(_), Members(_)
Denotes(ts) ==
    CASE ts = <<>> -> {}
      [] Len(ts) = 1 ->
            CASE ts[1].kind = "null"   -> {NullValue}
              [] ts[1].kind = "true"   -> {BoolValue(TRUE)}
              [] ts[1].kind = "false"  -> {BoolValue(FALSE)}
              [] ts[1].kind = "number" -> {[type |-> "numeral", text |-> ts[1].text]}
              [] ts[1].kind = "string" /\ ~BadEscape(ts[1].units) ->
                    {StringValue(decodeString(ts[1].units))}
              [] OTHER -> {}
      [] Len(ts) > 1 /\ ts[1].kind = "[" /\ ts[Len(ts)].kind = "]" ->
            IF Len(ts) = 2 THEN {EmptyArray}
            ELSE {[type |-> "array", elems |-> es] : es \in Elements(SubSeq(ts, 2, Len(ts) - 1))}
      [] Len(ts) > 1 /\ ts[1].kind = "{" /\ ts[Len(ts)].kind = "}" ->
            IF Len(ts) = 2 THEN {EmptyObject}
            ELSE {[type |-> "object", map |-> m] : m \in Members(SubSeq(ts, 2, Len(ts) - 1))}
      [] OTHER -> {}
Elements(ts) ==
    {<<v>> : v \in Denotes(ts)}
    \cup UNION {{<<v>> \o es : v \in Denotes(Before(ts, i)), es \in Elements(After(ts, i))} :
                    i \in Commas(ts)}
(* A name that comes twice has its last value.                             *)
Members(ts) ==
    IF Len(ts) < 3 \/ ts[1].kind # "string" \/ ts[2].kind # ":" \/ BadEscape(ts[1].units)
    THEN {}
    ELSE LET s == decodeString(ts[1].units)
             After2(part) == SubSeq(part, 3, Len(part))
         IN  {CString(s) :> v : v \in Denotes(After2(ts))}
             \cup UNION {{m @@ (CString(s) :> v) :
                             v \in Denotes(After2(Before(ts, i))), m \in Members(After(ts, i))} :
                            i \in {j \in Commas(ts) : j > 3}}

(* The texts the grammar speaks of: comments only where a value or a name  *)
(* is due, numerals of one form, and no empty name, for which the reader   *)
(* has an odd end (ObjectEnd).                                             *)
Kept(ts) == SelectSeq(ts, LAMBDA t : t.kind # "comment")
Strict(ts) ==
    \A i \in DOMAIN ts :
        /\ ts[i].kind = "comment" =>
              /\ i = 1 \/ ts[i - 1].kind \in {"[", "{", ",", ":", "comment"}
              /\ (i < Len(ts)) => ts[i + 1].kind \notin {"]", "}", ",", ":"}
        /\ ts[i].kind = "number" => WellFormed(ts[i].text)
        /\ ts[i].kind = "string" /\ ts[i].units = <<>> =>
              ~(i < Len(ts) /\ ts[i + 1].kind = ":")

-----------------------------------------------------------------------------
(* Properties.                                                             *)

(* parse succeeds exactly on the texts that begin with a JSON value, and   *)
(* the root is that value: every member and element at its place, an       *)
(* integer exact when LargestInt or LargestUInt holds it, any other number *)
(* the nearest double, a failure always with an error recorded.            *)
AcceptsTheGrammar ==
    pc = "done" /\ sent = NoValue /\ Strict(doc) =>
        LET values == UNION {Denotes(SubSeq(Kept(doc), 1, k)) : k \in 0..Len(Kept(doc))}
        IN  /\ ok <=> values # {}
            /\ ok <=> errors = 0
            /\ ok => \A v \in values : Same(root, v)

(* What FastWriter writes, parse reads back: the same value, for the       *)
(* requests of the clients and for every value a text has given before.    *)
(* Integers come back as they were; a double as the number nearest to its  *)
(* written digits, which is close to it and not always the same double.    *)
ReadsBackWhatIsWritten ==
    pc = "done" /\ sent # NoValue => ok /\ Same(root, sent)

(* A handler goes on only with the values its client sent under the names  *)
(* the api has (an int without the fraction, a double as text to the       *)
(* digits that are written); it refuses only when a field is missing, and  *)
(* throws only on a value that cannot be converted.                        *)
HandlersGetWhatIsSent ==
    (outcome # NoOutcome /\ sent # NoValue /\ sent.type = "object") =>
        LET Sent(i)  == Member(sent, api[i].name)
            Given(i) == Sent(i).type # "null"
            Exact(i) == CASE api[i].as = "string" /\ Sent(i).type = "string" ->
                                outcome.args[i] = Sent(i).str
                          [] api[i].as = "string" /\ Sent(i).type \in {"int", "uint"} ->
                                outcome.args[i] = Printed(Sent(i))
                          [] api[i].as = "string" /\ Sent(i).type = "real" ->
                                Close(Units(decodeDouble(outcome.args[i])), Sent(i).units)
                          [] api[i].as = "int" /\ IsNumber(Sent(i)) ->
                                /\ outcome.args[i] \in minInt..maxInt
                                /\ Units(Sent(i)) - 2^UnitBits * outcome.args[i]
                                      \in (1 - 2^UnitBits)..(2^UnitBits - 1)
                          [] OTHER -> Sent(i).type \in {"null", "boolean"}
        IN  CASE outcome.ret = "taken"   ->
                    /\ Len(outcome.args) = Len(api)
                    /\ \A i \in DOMAIN api : (Given(i) \/ api[i].optional) /\ Exact(i)
              [] outcome.ret = "refused" -> \E i \in DOMAIN api : ~Given(i) /\ ~api[i].optional
              [] outcome.ret = "thrown"  ->
                    \E i \in DOMAIN api : \/ Sent(i).type \in {"array", "object"}
                                          \/ api[i].as = "int" /\ Sent(i).type = "string"
                                          \/ api[i].as = "int" /\ IsNumber(Sent(i))
                                             /\ Units(Sent(i)) \notin
                                                   (2^UnitBits * minInt)..(2^UnitBits * maxInt)
=============================================================================
