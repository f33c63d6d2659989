------------------------------- MODULE MCJson -------------------------------
(* A small instance of Json: integers of 8 and 4 bits instead of 64 and 32,  *)
(* doubles of 5 bits instead of 53 written with 2 digits instead of 16, every *)
(* numeral of up to three digits, and texts of up to MaxTokens tokens.       *)
EXTENDS Json

DigitChars == {"0", "1", "2", "3", "4", "5", "6", "7", "8", "9"}
DigitStrings == UNION {[1..n -> DigitChars] : n \in 1..3}
MCLoneNumerals ==
  DigitStrings \cup {<<"-">> \o d : d \in DigitStrings}
  \cup {d \o <<".", "5">> : d \in DigitStrings}
  \cup {<<d, ".", f>> \o x : d \in DigitChars, f \in DigitChars,
                            x \in {<<>>, <<"e", "-", "1">>, <<"e", "+", "0", "2">>}}
  \cup { <<"-">>, <<"-", ".">>, <<"1", "-", "2">>, <<"-", "9", ".", "9">>, <<"7", "e", "3">>,
         <<"1", "0", "2", "4">>, <<"1", "e", "3">> }
MCNumerals == { <<"1">>, <<"-", "6", "5">> }
MCTexts == { <<>>, <<"a">>, <<"\\u0061", "\\n">>, <<"\\bad">>, <<"\\q", "\\u0000", "a">> }
\* A text may be longer when it begins with an object's first member, or a nested one.
Name(n) == <<StringToken(<<n>>), Token(":")>>
MCBeginnings ==
  { <<>>, <<Token("{")>> \o Name("a") \o <<NumberToken(<<"1">>), Token(",")>>,
    <<Token("[")>> \o <<Token("{")>> \o Name("a") }
MCFieldValues ==
  { NullValue, StringValue(<<"a", "quote", "SOH">>), IntValue(7), UIntValue(100), EmptyArray,
    RealValue(272) }  \* 1.0625, written as 1.1 and read as 1.125
=============================================================================
