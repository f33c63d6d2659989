---------------------------- MODULE RedisCommand ----------------------------
(***************************************************************************)
(* How a command becomes bytes (redis/hiredis.c): redisvFormatCommand      *)
(* splits a format into arguments and puts the values in,                  *)
(* redisFormatSdsCommandArgv takes the arguments as they are, and both     *)
(* write each argument behind its length.                                  *)
(*                                                                         *)
(* A text is a sequence of one-letter strings, CR and LF are symbols.  The *)
(* value for a conversion is the text that printf makes of it.             *)
(***************************************************************************)
EXTENDS Integers, Sequences, SequencesExt

CONSTANT Symbols   \* the letters of texts, CR and LF among them

\* sizeof(_format): a conversion must be shorter by more than two.
FormatSize == 16

Text == Seq(Symbols)

Numerals == <<"0", "1", "2", "3", "4", "5", "6", "7", "8", "9">>
Value == [d \in ToSet(Numerals) |-> (CHOOSE i \in 1 .. 10 : Numerals[i] = d) - 1]
NL == <<"CR", "LF">>

ASSUME SymbolsAssumption == ToSet(Numerals) \cup {"*", "$", "CR", "LF"} \subseteq Symbols

Printed[k \in Nat] ==
  IF k < 10 THEN <<Numerals[k + 1]>> ELSE Append(Printed[k \div 10], Numerals[(k % 10) + 1])

-----------------------------------------------------------------------------
(* The size of a command.                                                  *)

\* Four digits in each turn of the loop.
upToFour(v) == IF v < 10 THEN 1 ELSE IF v < 100 THEN 2 ELSE IF v < 1000 THEN 3 ELSE 4

countDigits[v \in Nat] == IF v < 10000 THEN upToFour(v) ELSE 4 + countDigits[v \div 10000]

bulklen(len) == 1 + countDigits[len] + 2 + len + 2

totlen(argv) ==
  LET upTo[j \in 0 .. Len(argv)] ==
        IF j = 0 THEN 1 + countDigits[Len(argv)] + 2 ELSE upTo[j - 1] + bulklen(Len(argv[j]))
  IN  upTo[Len(argv)]

\* The bytes that both functions write, which fill the memory taken exactly (assert(pos == totlen)).
Protocol(argv) ==
  LET Bulk(arg) == <<"$">> \o Printed[Len(arg)] \o NL \o arg \o NL
      upTo[j \in 0 .. Len(argv)] ==
        IF j = 0 THEN <<"*">> \o Printed[Len(argv)] \o NL ELSE upTo[j - 1] \o Bulk(argv[j])
  IN  upTo[Len(argv)]

-----------------------------------------------------------------------------
(* redisvFormatCommand.                                                    *)

\* The text behind the leading symbols of a set.
Skip(text, set) ==
  LET others == {i \in DOMAIN text : text[i] \notin set}
  IN  IF others = {} THEN <<>> ELSE SubSeq(text, CHOOSE i \in others : \A j \in others : i <= j, Len(text))

flags == {"#", "0", "-", "+", " "}
Sizes == {<<>>, <<"h">>, <<"h", "h">>, <<"l">>, <<"l", "l">>}
intfmts == {"d", "i", "o", "u", "x", "X"}
Doubles == {"e", "E", "f", "F", "g", "G", "a", "A"}

\* Where a printf conversion that begins at "%" ends: {} when it is not a valid one.  (A format
\* that ends inside a conversion makes the code read behind its end; no caller has one.)
Conversion(f) ==
  LET unflagged == Skip(Tail(f), flags)
      wide == Skip(unflagged, ToSet(Numerals))
      precise == IF wide # <<>> /\ wide[1] = "." THEN Skip(Tail(wide), ToSet(Numerals)) ELSE wide
      Ends(size, letters) == Len(precise) > Len(size) /\ IsPrefix(size, precise) /\ precise[Len(size) + 1] \in letters
  IN  {Len(f) - Len(precise) + Len(size) + 1 : size \in {s \in Sizes : Ends(s, intfmts)}}
        \cup {Len(f) - Len(precise) + 1 : size \in {s \in {<<>>} : Ends(s, Doubles)}}

\* The arguments found so far, and the one being put together.
Splitting == [argv : Seq(Text), curarg : Text, touched : BOOLEAN]

\* sdscatlen to curarg.
Touch(a, text) == [a EXCEPT !.curarg = @ \o text, !.touched = TRUE]

\* curarg is put in argv, also when it is empty but a value was put in.
EndArgument(a) ==
  IF a.touched THEN [argv |-> Append(a.argv, a.curarg), curarg |-> <<>>, touched |-> FALSE] ELSE a

\* The scan of a format: {} for an invalid one, else the only element is the list of arguments.
Scan[f \in Text, args \in Seq(Text), a \in Splitting] ==
  CASE f = <<>> -> {EndArgument(a).argv}
    [] f # <<>> /\ (f[1] # "%" \/ Len(f) = 1) ->
         Scan[Tail(f), args, IF f[1] = " " THEN EndArgument(a) ELSE Touch(a, <<f[1]>>)]
    [] Len(f) > 1 /\ f[1] = "%" /\ f[2] = "%" -> Scan[SubSeq(f, 3, Len(f)), args, Touch(a, <<"%">>)]
    [] Len(f) > 1 /\ f[1] = "%" /\ f[2] \in {"s", "b"} ->
         Scan[SubSeq(f, 3, Len(f)), Tail(args), Touch(a, args[1])]
    [] OTHER ->
         UNION {IF l < FormatSize - 2
                THEN Scan[SubSeq(f, l + 1, Len(f)), Tail(args), Touch(a, args[1])]
                ELSE Scan[SubSeq(f, 3, Len(f)), Tail(args), Touch(a, <<>>)] : l \in Conversion(f)}

redisvFormatCommand(f, args) == Scan[f, args, [argv |-> <<>>, curarg |-> <<>>, touched |-> FALSE]]

-----------------------------------------------------------------------------
(* Redis reads a command.                                                  *)

\* The number that digits stand for.
NumberOf(digits) ==
  LET upTo[i \in 0 .. Len(digits)] == IF i = 0 THEN 0 ELSE 10 * upTo[i - 1] + Value[digits[i]]
  IN  upTo[Len(digits)]

\* The number on a line, and what follows the line: {} when it has not all come.
LineOf(bytes) ==
  {[number |-> NumberOf(SubSeq(bytes, 2, i - 1)), rest |-> SubSeq(bytes, i + 2, Len(bytes))] :
     i \in {e \in 2 .. Len(bytes) - 1 : bytes[e] = "CR" /\ \A j \in 2 .. e - 1 : bytes[j] \in DOMAIN Value}}

\* The arguments read so far, and what follows them.
Reading == [argv : Seq(Text), rest : Text]

\* One more argument, once it has all come.
OneMore(a) ==
  {[argv |-> Append(a.argv, SubSeq(l.rest, 1, l.number)), rest |-> SubSeq(l.rest, l.number + 3, Len(l.rest))] :
     l \in {k \in LineOf(a.rest) : Len(k.rest) >= k.number + 2}}

\* "left" more arguments.
Arguments[left \in Nat] == [a \in Reading |->
  IF left = 0 THEN {a} ELSE UNION {Arguments[left - 1][b] : b \in OneMore(a)}]

\* The first command of a connection's bytes, once it has all come.
FirstCommand(bytes) == UNION {Arguments[l.number][[argv |-> <<>>, rest |-> l.rest]] : l \in LineOf(bytes)}
=============================================================================
