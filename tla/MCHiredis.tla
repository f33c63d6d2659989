----------------------------- MODULE MCHiredis -----------------------------
(* Replies of every type, nested, empty, nil and broken, for two commands;   *)
(* RepliesAssumption, which the theorems use, is evaluated for all of them.  *)
EXTENDS HiredisReplies

Digit(k) == Numerals[k + 1]
Reply(bytes, tree) == [bytes |-> bytes, tree |-> tree]
Str(text) == Reply(<<"$", Digit(Len(text))>> \o NL \o text \o NL, String("string", text))
OfLine(type, sign, text) == Reply(<<sign>> \o text \o NL, String(type, text))
Num(text, v) == Reply(<<":">> \o text \o NL, Integer(v))
Nils == {Reply(<<t, "-", "1">> \o NL, Nil) : t \in {"$", "*"}}
Arr(items) == Reply(<<"*", Digit(Len(items))>> \o NL \o FlattenSeq([i \in DOMAIN items |-> items[i].bytes]),
                    [type |-> "array", element |-> [i \in DOMAIN items |-> items[i].tree]])
Bad(bytes) == Reply(bytes, NULL)

OK == OfLine("status", "+", <<"2">>)
Leaves == {Str(<<>>), Str(<<"CR", "LF">>), OfLine("error", "-", <<"CR", "3">>), Num(<<"0">>, 0), Num(<<"-", "9">>, -9)} \cup Nils
Nested == { Arr(<<>>), Arr(<<Str(<<"9">>), OK>>), Arr(<<Arr(<<OK>>), Num(<<"3">>, 3)>>),
            Arr(<<Arr(<<>>), Arr(<<Num(<<"1">>, 1), Str(<<>>)>>)>>) }
Broken == { Bad(<<"9">> \o NL), Bad(<<":", "0", "1">> \o NL), Bad(<<":", "9", "9", "9">> \o NL), Bad(<<":", "-">> \o NL),
            Bad(<<"$", "-", "2">> \o NL), Bad(<<"$">> \o NL), Bad(<<"*", "-", "2">> \o NL), Bad(<<"*", "9", "9">> \o NL),
            Bad(Arr(<<Arr(<<Arr(<<OK>>)>>)>>).bytes) }

\* redisCommand(context, "F"), for the replies.
Plain(reply) == [format |-> <<"F">>, args |-> <<>>, argv |-> <<<<"F">>>>, bytes |-> reply.bytes, tree |-> reply.tree]

\* Commands with the values of CacheConn: empty, with blanks, with line ends and with per cent
\* signs in them, and longer than one digit can say; SETEX's and HINCRBY's numbers, ZLEXCOUNT's brackets,
\* HMSET's list, and MGET, whose keys are part of the format.
Long == [i \in 1 .. 10 |-> "9"]
Format(f, args, argv) == [format |-> f, args |-> args, argv |-> argv, bytes |-> OK.bytes, tree |-> OK.tree]
Texts == {<<>>, <<" ">>, <<"CR", "LF">>, <<"%", "s">>, Long}
Set(v) == Format(<<"S", " ", "%", "s">>, <<v>>, <<<<"S">>, v>>)
Formats == {Set(v) : v \in Texts} \cup
  { Format(<<"S", " ", "%", "d", " ", "%", "l", "d">>, <<<<"9">>, <<"1">>>>, <<<<"S">>, <<"9">>, <<"1">>>>),
    Format(<<"Z", " ", "[", "%", "s", " ", "[", "%", "s">>, <<<<"9">>, <<>>>>, <<<<"Z">>, <<"[", "9">>, <<"[">>>>),
    Format(<<" ", "%", "%", " ", " ", "%", "b", "%">>, <<<<"9">>>>, <<<<"%">>, <<"9", "%">>>>),
    Format(<<"S", "%", "-", "3", ".", "1", "h", "i">>, <<<<"1", " ", " ">>>>, <<<<"S", "1", " ", " ">>>>),
    Format(<<"%">> \o [i \in 1 .. 12 |-> "1"] \o <<"d", " ">>, <<<<"1">>>>, <<[i \in 1 .. 11 |-> "1"] \o <<"d">>>>),
    Format(<<"M", " ", "9", " ", "1">>, <<>>, <<<<"M">>, <<"9">>, <<"1">>>>),
    Format(<<"S", "%", "z">>, <<>>, <<>>) }
Lists == {[list |-> argv, argv |-> argv, bytes |-> OK.bytes, tree |-> OK.tree] : argv \in {<<<<"H">>, <<>>, <<" ">>>>}}

MCSymbols == ToSet(Numerals) \cup
  {"*", "$", "+", "-", ":", "CR", "LF", " ", "%", "[", ".", "F", "H", "M", "S", "Z", "b", "d", "h", "i", "l", "s", "z"}

MCCallSeqs == {<<Plain(a), Plain(b)>> : a \in Leaves \cup Nested \cup Broken, b \in {OK, Arr(<<OK, OK>>)}}
              \cup {<<Plain(OK), Plain(Str(<<"9">>)), Plain(b)>> : b \in {OK, Num(<<"1">>, 1)}}
              \cup {<<a, Plain(OK)>> : a \in Formats \cup Lists}
=============================================================================
