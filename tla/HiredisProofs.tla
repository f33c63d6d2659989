---------------------------- MODULE HiredisProofs ----------------------------
(***************************************************************************)
(* Theorems about the Redis client library, for commands and replies of    *)
(* any number and length, any depth of nesting and any number of           *)
(* addresses: a command fills exactly the memory taken for it, the reader  *)
(* keeps to its task stack and to its arrays, no socket is lost, NULL is   *)
(* returned exactly when there is an error, and every other answer is the  *)
(* reply to the command that was called, in whatever pieces it came.       *)
(***************************************************************************)
EXTENDS HiredisReplies, SequenceTheorems, FiniteSetTheorems, WellFoundedInduction, TLAPS

Kinds == {"error", "status", "integer", "string", "array"}
Task == [type : Kinds \cup {"none"}, elements : Int, idx : Int, obj : Nat]
Arrays == [type : {"array"}, element : Seq(Nat)]
Leaf_ == [type : {"error", "status", "string"}, str : Text]
             \cup [type : {"integer"}, integer : Int] \cup [type : {"nil"}]
Objects == Arrays \cup Leaf_

Errors == {"0", "IO", "EOF", "OTHER", "OOM", "PROTOCOL"}
Contexts == [alive : BOOLEAN, fd : Int, err : Errors, obuf : Text, addr : Int, phase : {"first", "next"}]
Readers  == [buf : Text, pos : Nat, err : Errors, rstack : Seq(Task), objs : Seq(Objects), reply : Nat]

Places == {"app", "resolve", "socket", "connect", "wait", "ready", "failed", "return",
           "reply", "item", "emit", "write", "read"}

Types ==
  /\ calls \in CallSeqs /\ n \in 0 .. Len(calls) /\ (pc # "app" => n > 0)
  /\ pc \in Places
  /\ c \in Contexts
  /\ DOMAIN wire = {"up", "down", "state"} /\ wire.down \in Text
  /\ served.nth \in Nat

(* A context exists from the resolution of the name to its redisFree, and  *)
(* between two addresses it has no socket.                                 *)
Context ==
  /\ pc = "resolve" => ~c.alive
  /\ pc \notin {"app", "resolve", "return"} => c.alive
  /\ pc = "socket" => c.fd <= 0
  /\ NoSocketLost

(* Level i of the stack works at a slot of the array at level i - 1: the   *)
(* slots before it are filled, and its own once there is a level above.    *)
LevelAt(stack, objs, i, filled) ==
  LET below == stack[i - 1]
      slots == objs[below.obj].element
  IN  /\ below.type = "array" /\ below.obj \in DOMAIN objs /\ objs[below.obj].type = "array"
      /\ stack[i].idx >= 0 /\ stack[i].idx < below.elements /\ Len(slots) = below.elements
      /\ \A j \in DOMAIN slots : slots[j] # 0 <=> (j <= stack[i].idx \/ (j = stack[i].idx + 1 /\ filled))

(* An outer array is older than an inner one, so no two levels share one.  *)
Rising(stack) == \A i, k \in 1 .. Len(stack) - 1 : i < k => stack[i].obj < stack[k].obj

Stacked(stack, objs) ==
  /\ Len(stack) <= MaxDepth + 1
  /\ \A i \in 2 .. Len(stack) : LevelAt(stack, objs, i, i < Len(stack))
  /\ Rising(stack)

(* An array is created before its elements.                                *)
Linked(objs) ==
  \A i \in DOMAIN objs : objs[i].type = "array" =>
    \A j \in DOMAIN objs[i].element : objs[i].element[j] = 0 \/ objs[i].element[j] \in i + 1 .. Len(objs)

(* There is a reply as soon as there is an array that is still open.       *)
ReaderOK(rd) ==
  /\ rd \in Readers
  /\ rd.pos <= Len(rd.buf)
  /\ Stacked(rd.rstack, rd.objs)
  /\ Linked(rd.objs)
  /\ Len(rd.rstack) > 1 => rd.reply \in DOMAIN rd.objs

(* A reply is complete when the stack has been emptied.                    *)
Complete ==
  /\ pc = "item" /\ r.rstack = <<>> => r.reply \in DOMAIN r.objs
  /\ pc = "emit" => r.rstack # <<>>

(* The promise of __redisBlockForReply's comment.                          *)
NullHasReason == pc = "return" /\ c.alive /\ answer = NULL => c.err # "0"

IInv == Types /\ Context /\ ReaderOK(r) /\ Complete /\ NullHasReason

-----------------------------------------------------------------------------
(* Recursive functions on the naturals.                                    *)

LEMMA Least ==
  ASSUME NEW S \in SUBSET Nat, S # {}
  PROVE  \E m \in S : \A k \in S : m <= k
<1> DEFINE below == {p \in Nat \X Nat : p[1] < p[2]}
<1>1. IsWellFoundedOn(below, Nat)
  BY NatLessThanWellFounded DEF OpToRel
<1>2. PICK m \in S : \A k \in S : ~(<<k, m>> \in below)
  <2> HIDE DEF below
  <2> QED BY <1>1, WFMin
<1>3. m \in Nat /\ \A k \in S : k \in Nat /\ ~(k < m)
  BY <1>2
<1> QED BY <1>3

(* A function defined by its values below a limit and, from there on, by   *)
(* its value at one smaller argument.                                      *)
Follows(f, k, limit, First, down, Step) ==
  f[k] = IF k < limit THEN First[k] ELSE Step[<<k, f[down[k]]>>]

Descends(down, limit) == down \in [Nat -> Nat] /\ \A k \in Nat : k >= limit => down[k] < k

FollowsUpTo(f, m, limit, First, down, Step) ==
  \A k \in 0 .. m : Follows(f, k, limit, First, down, Step)

LEMMA RecursionUpTo ==
  ASSUME NEW V, NEW limit \in Nat \ {0}, NEW First \in [0 .. limit - 1 -> V],
         NEW down, Descends(down, limit),
         NEW Step \in [Nat \X V -> V], NEW n_ \in Nat
  PROVE  \E f \in [Nat -> V] : \A k \in 0 .. n_ : Follows(f, k, limit, First, down, Step)
<1> USE DEF Descends
<1> DEFINE Some(m) == \E f \in [Nat -> V] : \A k \in 0 .. m : Follows(f, k, limit, First, down, Step)
           Bad == {m \in Nat : ~Some(m)}
<1>1. ASSUME NEW m \in Nat, \A k \in Nat : k < m => Some(k) PROVE Some(m)
  <2>1. First[0] \in V
    OBVIOUS
  <2>2. \E g \in [Nat -> V] : \A k \in 0 .. m - 1 : Follows(g, k, limit, First, down, Step)
    <3>1. CASE m = 0
      <4>1. PICK g : g = [k \in Nat |-> First[0]]
        OBVIOUS
      <4>2. g \in [Nat -> V]
        BY <2>1, <4>1
      <4>3. \A k \in 0 .. m - 1 : FALSE
        BY <3>1
      <4> QED BY <4>2, <4>3
    <3>2. CASE m > 0
      <4>1. m - 1 \in Nat /\ m - 1 < m
        BY <3>2
      <4> QED BY <1>1, <4>1
    <3>3. m = 0 \/ m > 0
      OBVIOUS
    <3> QED BY <3>1, <3>2, <3>3, Zenon
  <2>3. PICK g \in [Nat -> V] : \A k \in 0 .. m - 1 : Follows(g, k, limit, First, down, Step)
    BY <2>2
  <2> DEFINE v == IF m < limit THEN First[m] ELSE Step[<<m, g[down[m]]>>]
             f == [g EXCEPT ![m] = v]
  <2>4. v \in V
    <3>1. CASE m < limit
      <4>1. m \in 0 .. limit - 1
        BY <3>1
      <4> QED BY <3>1, <4>1
    <3>2. CASE ~(m < limit)
      <4>1. <<m, g[down[m]]>> \in Nat \X V
        OBVIOUS
      <4> QED BY <3>2, <4>1
    <3> QED BY <3>1, <3>2
  <2>5. f \in [Nat -> V] /\ f[m] = v /\ \A k \in Nat : k # m => f[k] = g[k]
    BY <2>4
  <2> HIDE DEF f
  <2>6. ASSUME NEW k \in 0 .. m PROVE Follows(f, k, limit, First, down, Step)
    <3>1. k = m \/ (k # m /\ k \in 0 .. m - 1 /\ k \in Nat)
      OBVIOUS
    <3>2. k \in Nat /\ (~(k < limit) => down[k] \in Nat /\ down[k] < k /\ down[k] # m)
      OBVIOUS
    <3>3. ~(k < limit) => f[down[k]] = g[down[k]]
      BY <2>5, <3>2
    <3>4. CASE k = m
      BY <2>5, <3>3, <3>4 DEF Follows
    <3>5. CASE k # m /\ k \in 0 .. m - 1 /\ k \in Nat
      <4>1. Follows(g, k, limit, First, down, Step) /\ f[k] = g[k]
        BY <2>3, <2>5, <3>5
      <4> QED BY <3>3, <4>1 DEF Follows
    <3> QED BY <3>1, <3>4, <3>5
  <2> QED BY <2>5, <2>6
<1> HIDE DEF Some
<1>2. ASSUME Bad # {} PROVE FALSE
  <2>1. Bad \in SUBSET Nat
    OBVIOUS
  <2>2. PICK m \in Bad : \A k \in Bad : m <= k
    BY <1>2, <2>1, Least
  <2>3. m \in Nat /\ ~Some(m) /\ \A k \in Nat : k < m => Some(k)
    BY <2>2
  <2> QED BY <1>1, <2>3
<1>3. Some(n_)
  BY <1>2
<1> QED BY <1>3 DEF Some

LEMMA RecursionAgrees ==
  ASSUME NEW limit \in Nat \ {0}, NEW First, NEW down, Descends(down, limit), NEW Step,
         NEW n_ \in Nat, NEW f, NEW g,
         FollowsUpTo(f, n_, limit, First, down, Step),
         FollowsUpTo(g, n_, limit, First, down, Step)
  PROVE  f[n_] = g[n_]
<1> USE DEF FollowsUpTo, Descends
<1> DEFINE Bad == {k \in 0 .. n_ : f[k] # g[k]}
<1>1. ASSUME Bad # {} PROVE FALSE
  <2>1. Bad \in SUBSET Nat
    OBVIOUS
  <2>2. PICK m \in Bad : \A k \in Bad : m <= k
    BY <1>1, <2>1, Least
  <2>3. m \in Nat /\ m \in 0 .. n_ /\ f[m] # g[m] /\ \A k \in 0 .. n_ : k < m => f[k] = g[k]
    BY <2>2
  <2>4. ~(m < limit)
    BY <2>3 DEF Follows
  <2>5. down[m] \in 0 .. n_ /\ down[m] < m
    BY <2>3, <2>4
  <2>6. f[down[m]] = g[down[m]]
    BY <2>3, <2>5
  <2>7. Follows(f, m, limit, First, down, Step) /\ Follows(g, m, limit, First, down, Step)
    BY <2>3
  <2>8. f[m] = Step[<<m, f[down[m]]>>] /\ g[m] = Step[<<m, g[down[m]]>>]
    BY <2>4, <2>7, Zenon DEF Follows
  <2> QED BY <2>3, <2>6, <2>8, Zenon
<1> QED BY <1>1

Parts(part, limit, First, down, Step) ==
  \A m \in Nat : FollowsUpTo(part[m], m, limit, First, down, Step)

LEMMA PartsAgree ==
  ASSUME NEW limit \in Nat \ {0}, NEW First, NEW down, Descends(down, limit), NEW Step, NEW part,
         Parts(part, limit, First, down, Step), NEW m \in Nat, NEW k \in 0 .. m
  PROVE  part[m][k] = part[k][k]
<1>1. k \in Nat /\ \A j \in 0 .. k : j \in 0 .. m
  OBVIOUS
<1>2. FollowsUpTo(part[m], k, limit, First, down, Step) /\ FollowsUpTo(part[k], k, limit, First, down, Step)
  BY <1>1 DEF Parts, FollowsUpTo
<1> QED BY <1>1, <1>2, RecursionAgrees

LEMMA Recursion ==
  ASSUME NEW V, NEW limit \in Nat \ {0}, NEW First \in [0 .. limit - 1 -> V],
         NEW down, Descends(down, limit),
         NEW Step \in [Nat \X V -> V]
  PROVE  \E f \in [Nat -> V] : \A k \in Nat : Follows(f, k, limit, First, down, Step)
<1> DEFINE part == [m \in Nat |-> CHOOSE f \in [Nat -> V] : FollowsUpTo(f, m, limit, First, down, Step)]
           whole == [m \in Nat |-> part[m][m]]
<1>1. ASSUME NEW m \in Nat PROVE part[m] \in [Nat -> V] /\ FollowsUpTo(part[m], m, limit, First, down, Step)
  BY RecursionUpTo DEF FollowsUpTo
<1> HIDE DEF part
<1>2. whole \in [Nat -> V]
  BY <1>1
<1>3. ASSUME NEW m \in Nat, NEW k \in 0 .. m PROVE part[m][k] = part[k][k]
  <2>1. Parts(part, limit, First, down, Step)
    BY <1>1 DEF Parts
  <2> QED BY <2>1, PartsAgree
<1>4. ASSUME NEW k \in Nat PROVE Follows(whole, k, limit, First, down, Step)
  <2>1. Follows(part[k], k, limit, First, down, Step)
    BY <1>1 DEF FollowsUpTo
  <2>2. CASE k < limit
    BY <2>1, <2>2 DEF Follows
  <2>3. CASE ~(k < limit)
    <3>1. down[k] \in 0 .. k
      BY <2>3 DEF Descends
    <3>2. whole[down[k]] = part[k][down[k]]
      BY <1>3, <3>1
    <3> QED BY <2>1, <2>3, <3>2 DEF Follows
  <2> QED BY <2>2, <2>3
<1> QED BY <1>2, <1>4

-----------------------------------------------------------------------------
(* A command fills the memory that is taken for it.                        *)

LEMMA NumeralTypes == Len(Numerals) = 10 /\ \A d \in 0 .. 9 : Numerals[d + 1] \in Symbols
<1>1. Len(Numerals) = 10 /\ DOMAIN Numerals = 1 .. 10
  BY DEF Numerals
<1>2. \A d \in 0 .. 9 : d + 1 \in 1 .. 10
  OBVIOUS
<1> QED BY <1>1, <1>2, SymbolsAssumption DEF ToSet

(* printf's decimal digits.                                                *)
PrintedIs(g, k) ==
  g[k] = IF k < 10 THEN <<Numerals[k + 1]>> ELSE Append(g[k \div 10], Numerals[(k % 10) + 1])

LEMMA Tenth == \A k \in Nat : /\ k \div 10 \in Nat /\ k % 10 \in 0 .. 9
                              /\ k >= 10 => k \div 10 < k
OBVIOUS

LEMMA PrintedExists == \E g : g = [k \in Nat |->
  IF k < 10 THEN <<Numerals[k + 1]>> ELSE Append(g[k \div 10], Numerals[(k % 10) + 1])]
<1> DEFINE First == [k \in 0 .. 9 |-> <<Numerals[k + 1]>>]
           down == [k \in Nat |-> k \div 10]
           Step == [p \in Nat \X Text |-> Append(p[2], Numerals[(p[1] % 10) + 1])]
<1>1. First \in [0 .. 9 -> Text]
  BY NumeralTypes DEF Text
<1>2. Descends(down, 10)
  BY Tenth DEF Descends
<1>3. Step \in [Nat \X Text -> Text]
  <2>1. ASSUME NEW p \in Nat \X Text PROVE Append(p[2], Numerals[(p[1] % 10) + 1]) \in Text
    <3>1. p[1] \in Nat /\ p[2] \in Text
      OBVIOUS
    <3>2. p[1] % 10 \in 0 .. 9
      BY <3>1, Tenth
    <3>3. Numerals[(p[1] % 10) + 1] \in Symbols
      BY <3>2, NumeralTypes
    <3> QED BY <3>1, <3>3, AppendProperties DEF Text
  <2> QED BY <2>1
<1>4. \A k \in Nat : down[k] = k \div 10
  OBVIOUS
<1>5. \A k \in Nat, t \in Text : Step[<<k, t>>] = Append(t, Numerals[(k % 10) + 1])
  OBVIOUS
<1>6. \A k \in 0 .. 9 : First[k] = <<Numerals[k + 1]>>
  OBVIOUS
<1>7. 10 \in Nat \ {0} /\ 10 - 1 = 9
  OBVIOUS
<1> HIDE DEF First, down, Step
<1>8. PICK f \in [Nat -> Text] : \A k \in Nat : Follows(f, k, 10, First, down, Step)
  BY <1>1, <1>2, <1>3, <1>7, Recursion
<1>9. ASSUME NEW k \in Nat PROVE PrintedIs(f, k)
  <2>1. CASE k < 10
    <3>1. k \in 0 .. 9
      BY <2>1
    <3> QED BY <1>6, <1>8, <2>1, <3>1 DEF Follows, PrintedIs
  <2>2. CASE ~(k < 10)
    <3>1. f[k \div 10] \in Text
      BY Tenth
    <3> QED BY <1>4, <1>5, <1>8, <2>2, <3>1 DEF Follows, PrintedIs
  <2> QED BY <2>1, <2>2
<1>10. f = [k \in Nat |-> f[k]]
  OBVIOUS
<1>11. f = [k \in Nat |-> IF k < 10 THEN <<Numerals[k + 1]>> ELSE Append(f[k \div 10], Numerals[(k % 10) + 1])]
  BY <1>9, <1>10 DEF PrintedIs
<1> QED BY <1>11

LEMMA PrintedUnfolds == \A k \in Nat : PrintedIs(Printed, k)
<1>1. Printed = [k \in Nat |->
        IF k < 10 THEN <<Numerals[k + 1]>> ELSE Append(Printed[k \div 10], Numerals[(k % 10) + 1])]
  BY PrintedExists, Zenon DEF Printed
<1> QED BY <1>1, Zenon DEF PrintedIs

LEMMA PrintedTypes == \A k \in Nat : Printed[k] \in Text
<1> DEFINE Bad == {k \in Nat : Printed[k] \notin Text}
<1>1. ASSUME Bad # {} PROVE FALSE
  <2>1. Bad \in SUBSET Nat
    OBVIOUS
  <2>2. PICK m \in Bad : \A k \in Bad : m <= k
    BY <1>1, <2>1, Least
  <2>3. m \in Nat /\ Printed[m] \notin Text /\ \A k \in Nat : k < m => Printed[k] \in Text
    BY <2>2
  <2>4. PrintedIs(Printed, m)
    BY <2>3, PrintedUnfolds
  <2>5. CASE m < 10
    <3>1. Numerals[m + 1] \in Symbols
      BY <2>3, <2>5, NumeralTypes
    <3> QED BY <2>3, <2>4, <2>5, <3>1 DEF PrintedIs, Text
  <2>6. CASE m >= 10
    <3>1. m \div 10 \in Nat /\ m \div 10 < m /\ m % 10 \in 0 .. 9
      BY <2>3, <2>6, Tenth
    <3>2. Printed[m \div 10] \in Text /\ Numerals[(m % 10) + 1] \in Symbols
      BY <2>3, <3>1, NumeralTypes
    <3> QED BY <2>3, <2>4, <2>6, <3>2, AppendProperties DEF PrintedIs, Text
  <2> QED BY <2>3, <2>5, <2>6
<1> QED BY <1>1

LEMMA PrintedLength ==
  \A k \in Nat : Len(Printed[k]) = IF k < 10 THEN 1 ELSE Len(Printed[k \div 10]) + 1
<1> SUFFICES ASSUME NEW k \in Nat
             PROVE  Len(Printed[k]) = IF k < 10 THEN 1 ELSE Len(Printed[k \div 10]) + 1
  OBVIOUS
<1>1. PrintedIs(Printed, k)
  BY PrintedUnfolds
<1>2. CASE k < 10
  BY <1>1, <1>2 DEF PrintedIs
<1>3. CASE k >= 10
  <2>1. Printed[k \div 10] \in Text /\ Numerals[(k % 10) + 1] \in Symbols
    BY PrintedTypes, NumeralTypes, Tenth
  <2> QED BY <1>1, <1>3, <2>1, AppendProperties DEF PrintedIs, Text
<1> QED BY <1>2, <1>3

(* The loop that counts digits takes four at a time.                       *)
CountedIs(g, v) == g[v] = IF v < 10000 THEN upToFour(v) ELSE 4 + g[v \div 10000]

LEMMA TenThousandth ==
  \A v \in Nat : /\ v \div 10000 \in Nat /\ (v >= 10000 => v \div 10000 < v)
                 /\ (((v \div 10) \div 10) \div 10) \div 10 = v \div 10000
OBVIOUS

LEMMA UpToFourTypes == \A v \in Nat : upToFour(v) \in Nat
BY DEF upToFour

LEMMA CountedExists ==
  \E g : g = [v \in Nat |-> IF v < 10000 THEN upToFour(v) ELSE 4 + g[v \div 10000]]
<1>0. PICK limit \in Nat \ {0} : limit = 10000
  OBVIOUS
<1> DEFINE First == [v \in 0 .. limit - 1 |-> upToFour(v)]
           down == [v \in Nat |-> v \div 10000]
           Step == [p \in Nat \X Nat |-> 4 + p[2]]
<1>1. First \in [0 .. limit - 1 -> Nat]
  BY UpToFourTypes
<1>2. Descends(down, limit)
  BY <1>0, TenThousandth DEF Descends
<1>3. Step \in [Nat \X Nat -> Nat]
  OBVIOUS
<1>4. \A v \in Nat : down[v] = v \div 10000
  OBVIOUS
<1>5. \A v \in Nat, t \in Nat : Step[<<v, t>>] = 4 + t
  OBVIOUS
<1>6. \A v \in 0 .. limit - 1 : First[v] = upToFour(v)
  OBVIOUS
<1> HIDE DEF First, down, Step
<1>7. \E f \in [Nat -> Nat] : \A v \in Nat : Follows(f, v, limit, First, down, Step)
  BY <1>1, <1>2, <1>3, Recursion
<1>8. PICK f \in [Nat -> Nat] : \A v \in Nat : Follows(f, v, limit, First, down, Step)
  BY <1>7
<1>9. ASSUME NEW v \in Nat PROVE CountedIs(f, v)
  <2>0. Follows(f, v, limit, First, down, Step)
    BY <1>8
  <2>1. CASE v < 10000
    <3>1. v \in 0 .. limit - 1
      <4>1. limit - 1 = 9999
        BY <1>0
      <4> QED BY <2>1, <4>1
    <3>2. First[v] = upToFour(v)
      BY <1>6, <3>1
    <3>3. f[v] = First[v]
      BY <1>0, <2>0, <2>1 DEF Follows
    <3> QED BY <2>1, <3>2, <3>3 DEF CountedIs
  <2>2. CASE ~(v < 10000)
    <3>1. f[v \div 10000] \in Nat
      BY TenThousandth
    <3>2. Step[<<v, f[down[v]]>>] = 4 + f[v \div 10000]
      BY <1>4, <1>5, <3>1
    <3> QED BY <1>0, <2>0, <2>2, <3>2 DEF Follows, CountedIs
  <2> QED BY <2>1, <2>2
<1>10. f = [v \in Nat |-> f[v]]
  OBVIOUS
<1>11. f = [v \in Nat |-> IF v < 10000 THEN upToFour(v) ELSE 4 + f[v \div 10000]]
  BY <1>9, <1>10 DEF CountedIs
<1> QED BY <1>11

LEMMA CountedUnfolds == \A v \in Nat : CountedIs(countDigits, v)
<1>1. countDigits = [v \in Nat |-> IF v < 10000 THEN upToFour(v) ELSE 4 + countDigits[v \div 10000]]
  BY CountedExists, SMT DEF countDigits
<1> QED BY <1>1, SMT DEF CountedIs

(* countDigits is the number of digits that printf writes.                 *)
LEMMA DigitsCounted == \A v \in Nat : countDigits[v] = Len(Printed[v])
<1> DEFINE Bad == {v \in Nat : countDigits[v] # Len(Printed[v])}
<1>1. ASSUME Bad # {} PROVE FALSE
  <2>1. Bad \in SUBSET Nat
    OBVIOUS
  <2>2. PICK v \in Bad : \A k \in Bad : v <= k
    BY <1>1, <2>1, Least
  <2>3. v \in Nat /\ countDigits[v] # Len(Printed[v]) /\ \A k \in Nat : k < v => countDigits[k] = Len(Printed[k])
    BY <2>2
  <2> DEFINE a == v \div 10
             b == a \div 10
             d == b \div 10
             e == d \div 10
  <2>4. a \in Nat /\ b \in Nat /\ d \in Nat /\ e \in Nat
    BY <2>3, Tenth
  <2>5. /\ v >= 10 <=> a >= 1
        /\ v >= 100 <=> a >= 10
        /\ v >= 1000 <=> b >= 10
        /\ v >= 10000 <=> d >= 10
    BY <2>3
  <2>6. e = v \div 10000 /\ (v >= 10000 => e < v)
    BY <2>3, TenThousandth
  <2> HIDE DEF a, b, d, e
  <2>7. /\ Len(Printed[v]) = IF v < 10 THEN 1 ELSE Len(Printed[a]) + 1
        /\ Len(Printed[a]) = IF a < 10 THEN 1 ELSE Len(Printed[b]) + 1
        /\ Len(Printed[b]) = IF b < 10 THEN 1 ELSE Len(Printed[d]) + 1
        /\ Len(Printed[d]) = IF d < 10 THEN 1 ELSE Len(Printed[e]) + 1
    BY <2>3, <2>4, PrintedLength DEF a, b, d, e
  <2>8. CountedIs(countDigits, v)
    BY <2>3, CountedUnfolds
  <2>9. /\ Len(Printed[v]) \in Nat /\ Len(Printed[a]) \in Nat /\ Len(Printed[b]) \in Nat
        /\ Len(Printed[d]) \in Nat /\ Len(Printed[e]) \in Nat
    BY <2>3, <2>4, PrintedTypes, LenProperties DEF Text
  <2>10. CASE v < 10000
    BY <2>3, <2>4, <2>5, <2>7, <2>8, <2>9, <2>10 DEF CountedIs, upToFour
  <2>11. CASE v >= 10000
    <3>1. countDigits[e] = Len(Printed[e])
      BY <2>3, <2>4, <2>6, <2>11
    <3>2. countDigits[v] = 4 + countDigits[e]
      BY <2>3, <2>6, <2>8, <2>11 DEF CountedIs
    <3>3. Len(Printed[v]) = Len(Printed[e]) + 4
      BY <2>3, <2>4, <2>5, <2>7, <2>9, <2>11
    <3> QED BY <2>3, <2>9, <3>1, <3>2, <3>3
  <2> QED BY <2>3, <2>10, <2>11
<1> QED BY <1>1

LEMMA Joined ==
  ASSUME NEW a, a \in Text, NEW b, b \in Text
  PROVE  a \o b \in Text /\ Len(a \o b) = Len(a) + Len(b)
BY ConcatProperties DEF Text

(* The lines of a command, one after the other.                            *)
Bulk(arg) == <<"$">> \o Printed[Len(arg)] \o NL \o arg \o NL
Heading(argv) == <<"*">> \o Printed[Len(argv)] \o NL

LEMMA SizeOfLines ==
  /\ \A arg \in Text : Bulk(arg) \in Text /\ Len(Bulk(arg)) = bulklen(Len(arg))
  /\ \A argv \in Seq(Text) : Heading(argv) \in Text /\ Len(Heading(argv)) = 1 + countDigits[Len(argv)] + 2
<1>1. NL \in Text /\ Len(NL) = 2 /\ <<"$">> \in Text /\ Len(<<"$">>) = 1 /\ <<"*">> \in Text /\ Len(<<"*">>) = 1
  BY SymbolsAssumption DEF NL, Text
<1>2. ASSUME NEW arg \in Text PROVE Bulk(arg) \in Text /\ Len(Bulk(arg)) = bulklen(Len(arg))
  <2> DEFINE d == Printed[Len(arg)]
             s1 == <<"$">> \o d
             s2 == s1 \o NL
             s3 == s2 \o arg
  <2>1. Len(arg) \in Nat
    BY LenProperties DEF Text
  <2>2. d \in Text /\ Len(d) \in Nat /\ countDigits[Len(arg)] = Len(d)
    BY <2>1, PrintedTypes, DigitsCounted, LenProperties DEF Text
  <2> HIDE DEF d
  <2>3. s1 \in Text /\ Len(s1) = 1 + Len(d)
    <3>1. s1 \in Text /\ Len(s1) = Len(<<"$">>) + Len(d)
      BY <1>1, <2>2, Joined
    <3> QED BY <1>1, <2>2, <3>1
  <2> HIDE DEF s1
  <2>4. s2 \in Text /\ Len(s2) = 1 + Len(d) + 2
    <3>1. s2 \in Text /\ Len(s2) = Len(s1) + Len(NL)
      BY <1>1, <2>2, <2>3, Joined
    <3> QED BY <1>1, <2>2, <2>3, <3>1
  <2> HIDE DEF s2
  <2>5. s3 \in Text /\ Len(s3) = 1 + Len(d) + 2 + Len(arg)
    <3>1. s3 \in Text /\ Len(s3) = Len(s2) + Len(arg)
      BY <2>1, <2>2, <2>4, Joined
    <3> QED BY <2>1, <2>2, <2>4, <3>1
  <2> HIDE DEF s3
  <2>6. s3 \o NL \in Text /\ Len(s3 \o NL) = 1 + Len(d) + 2 + Len(arg) + 2
    <3>1. s3 \o NL \in Text /\ Len(s3 \o NL) = Len(s3) + Len(NL)
      BY <1>1, <2>1, <2>2, <2>5, Joined
    <3> QED BY <1>1, <2>1, <2>2, <2>5, <3>1
  <2> QED BY <2>2, <2>6 DEF Bulk, bulklen, s3, s2, s1, d
<1>3. ASSUME NEW argv \in Seq(Text)
      PROVE  Heading(argv) \in Text /\ Len(Heading(argv)) = 1 + countDigits[Len(argv)] + 2
  <2> DEFINE d == Printed[Len(argv)]
             s1 == <<"*">> \o d
  <2>1. Len(argv) \in Nat
    BY LenProperties
  <2>2. d \in Text /\ Len(d) \in Nat /\ countDigits[Len(argv)] = Len(d)
    BY <2>1, PrintedTypes, DigitsCounted, LenProperties DEF Text
  <2> HIDE DEF d
  <2>3. s1 \in Text /\ Len(s1) = 1 + Len(d)
    <3>1. s1 \in Text /\ Len(s1) = Len(<<"*">>) + Len(d)
      BY <1>1, <2>2, Joined
    <3> QED BY <1>1, <2>2, <3>1
  <2> HIDE DEF s1
  <2>4. s1 \o NL \in Text /\ Len(s1 \o NL) = 1 + Len(d) + 2
    <3>1. s1 \o NL \in Text /\ Len(s1 \o NL) = Len(s1) + Len(NL)
      BY <1>1, <2>2, <2>3, Joined
    <3> QED BY <1>1, <2>2, <2>3, <3>1
  <2> QED BY <2>2, <2>4 DEF Heading, s1, d
<1> QED BY <1>2, <1>3

(* A loop over the arguments, as a function of how many were done.         *)
LoopIs(f, V, m, base, Turn) ==
  /\ f \in [0 .. m -> V] /\ f[0] = base
  /\ \A j \in 1 .. m : f[j] = Turn[<<j, f[j - 1]>>]

LEMMA Loop ==
  ASSUME NEW V, NEW m \in Nat, NEW base \in V, NEW Turn \in [(1 .. m) \X V -> V]
  PROVE  \E f : LoopIs(f, V, m, base, Turn)
<1>0. PICK limit \in Nat \ {0} : limit = 1
  OBVIOUS
<1> DEFINE First == [j \in 0 .. limit - 1 |-> base]
           down == [j \in Nat |-> IF j = 0 THEN 0 ELSE j - 1]
           Step == [p \in Nat \X V |-> IF p[1] \in 1 .. m THEN Turn[p] ELSE p[2]]
<1>1. First \in [0 .. limit - 1 -> V] /\ First[0] = base
  <2>1. 0 \in 0 .. limit - 1
    BY <1>0
  <2> QED BY <2>1
<1>2. Descends(down, limit) /\ \A j \in 1 .. m : down[j] = j - 1
  BY <1>0 DEF Descends
<1>3. Step \in [Nat \X V -> V]
  <2>1. ASSUME NEW p \in Nat \X V PROVE (IF p[1] \in 1 .. m THEN Turn[p] ELSE p[2]) \in V
    <3>1. p = <<p[1], p[2]>> /\ p[2] \in V
      OBVIOUS
    <3>2. CASE p[1] \in 1 .. m
      <4>1. p \in (1 .. m) \X V
        BY <3>1, <3>2
      <4> QED BY <3>2, <4>1
    <3>3. CASE p[1] \notin 1 .. m
      BY <3>1, <3>3
    <3> QED BY <3>2, <3>3
  <2> QED BY <2>1
<1>4. \A j \in 1 .. m, v \in V : Step[<<j, v>>] = Turn[<<j, v>>]
  OBVIOUS
<1> HIDE DEF First, down, Step
<1>5. PICK f \in [Nat -> V] : \A j \in Nat : Follows(f, j, limit, First, down, Step)
  BY <1>1, <1>2, <1>3, Recursion
<1> DEFINE g == [j \in 0 .. m |-> f[j]]
<1>6. g \in [0 .. m -> V]
  OBVIOUS
<1>7. g[0] = base
  <2>1. Follows(f, 0, limit, First, down, Step)
    BY <1>5
  <2> QED BY <1>0, <1>1, <2>1 DEF Follows
<1>8. ASSUME NEW j \in 1 .. m PROVE g[j] = Turn[<<j, g[j - 1]>>]
  <2>1. j \in Nat /\ ~(j < 1) /\ j \in 0 .. m /\ j - 1 \in 0 .. m /\ j - 1 \in Nat
    OBVIOUS
  <2>2. f[j] = Step[<<j, f[down[j]]>>]
    BY <1>0, <1>5, <2>1 DEF Follows
  <2>3. f[j] = Turn[<<j, f[j - 1]>>]
    BY <1>2, <1>4, <2>1, <2>2
  <2> QED BY <2>1, <2>3
<1> QED BY <1>6, <1>7, <1>8 DEF LoopIs

(* totlen and Protocol, unfolded.                                          *)
SizesAre(g, argv) ==
  /\ g[0] = 1 + countDigits[Len(argv)] + 2
  /\ \A j \in 1 .. Len(argv) : g[j] = g[j - 1] + bulklen(Len(argv[j]))

BytesAre(g, argv) ==
  /\ g[0] = Heading(argv)
  /\ \A j \in 1 .. Len(argv) : g[j] = g[j - 1] \o Bulk(argv[j])

LEMMA BytesUnfold ==
  ASSUME NEW argv \in Seq(Text)
  PROVE  \E g : BytesAre(g, argv) /\ Protocol(argv) = g[Len(argv)]
<1> DEFINE m == Len(argv)
           Turn == [p \in (1 .. m) \X Text |-> p[2] \o Bulk(argv[p[1]])]
           Def(g) == [j \in 0 .. m |-> IF j = 0 THEN Heading(argv) ELSE g[j - 1] \o Bulk(argv[j])]
<1>1. m \in Nat /\ \A j \in 1 .. m : argv[j] \in Text
  BY LenProperties
<1>2. Turn \in [(1 .. m) \X Text -> Text]
  <2>1. ASSUME NEW p \in (1 .. m) \X Text PROVE p[2] \o Bulk(argv[p[1]]) \in Text
    <3>1. p[1] \in 1 .. m /\ p[2] \in Text
      OBVIOUS
    <3>2. Bulk(argv[p[1]]) \in Text
      BY <1>1, <3>1, SizeOfLines
    <3> QED BY <3>1, <3>2, Joined
  <2> QED BY <2>1
<1>3. \A j \in 1 .. m, t \in Text : Turn[<<j, t>>] = t \o Bulk(argv[j])
  OBVIOUS
<1>4. Heading(argv) \in Text
  BY SizeOfLines
<1> HIDE DEF Turn, m
<1>5. PICK f : LoopIs(f, Text, m, Heading(argv), Turn)
  BY <1>1, <1>2, <1>4, Loop
<1>6. f = Def(f)
  <2>1. ASSUME NEW j \in 0 .. m
        PROVE  f[j] = IF j = 0 THEN Heading(argv) ELSE f[j - 1] \o Bulk(argv[j])
    <3>1. CASE j = 0
      BY <1>5, <3>1 DEF LoopIs
    <3>2. CASE j # 0
      <4>1. j \in 1 .. m /\ j - 1 \in 0 .. m
        BY <1>1, <3>2
      <4>2. f[j - 1] \in Text /\ f[j] = Turn[<<j, f[j - 1]>>]
        BY <1>5, <4>1 DEF LoopIs
      <4> QED BY <1>3, <3>2, <4>1, <4>2
    <3> QED BY <3>1, <3>2
  <2> QED BY <1>5, <2>1 DEF LoopIs
<1> DEFINE g == CHOOSE h : h = Def(h)
<1>7. g = Def(g)
  BY <1>6
<1>8. Protocol(argv) = g[m]
  BY DEF Protocol, Heading, Bulk, m
<1> HIDE DEF g
<1>9. BytesAre(g, argv)
  <2>1. 0 \in 0 .. m /\ \A j \in 1 .. m : j \in 0 .. m /\ j # 0
    BY <1>1
  <2> QED BY <1>7, <2>1 DEF BytesAre, m
<1> QED BY <1>8, <1>9 DEF m

LEMMA SizeTypes ==
  /\ \A arg \in Text : bulklen(Len(arg)) \in Int
  /\ \A argv \in Seq(Text) : 1 + countDigits[Len(argv)] + 2 \in Int
<1>1. \A k \in Nat : countDigits[k] \in Nat
  BY DigitsCounted, PrintedTypes, LenProperties DEF Text
<1>2. ASSUME NEW arg \in Text PROVE bulklen(Len(arg)) \in Int
  <2>1. Len(arg) \in Nat
    BY LenProperties DEF Text
  <2> QED BY <1>1, <2>1 DEF bulklen
<1>3. ASSUME NEW argv \in Seq(Text) PROVE 1 + countDigits[Len(argv)] + 2 \in Int
  <2>1. Len(argv) \in Nat
    BY LenProperties
  <2> QED BY <1>1, <2>1
<1> QED BY <1>2, <1>3

LEMMA SizesUnfold ==
  ASSUME NEW argv \in Seq(Text)
  PROVE  \E g : SizesAre(g, argv) /\ totlen(argv) = g[Len(argv)]
<1> DEFINE m == Len(argv)
           Turn == [p \in (1 .. m) \X Int |-> p[2] + bulklen(Len(argv[p[1]]))]
           Def(g) == [j \in 0 .. m |-> IF j = 0 THEN (1 + countDigits[Len(argv)] + 2) ELSE g[j - 1] + bulklen(Len(argv[j]))]
<1>1. m \in Nat /\ \A j \in 1 .. m : argv[j] \in Text
  BY LenProperties
<1>2. Turn \in [(1 .. m) \X Int -> Int]
  <2>1. ASSUME NEW p \in (1 .. m) \X Int PROVE p[2] + bulklen(Len(argv[p[1]])) \in Int
    <3>1. p[1] \in 1 .. m /\ p[2] \in Int
      OBVIOUS
    <3>2. bulklen(Len(argv[p[1]])) \in Int
      BY <1>1, <3>1, SizeTypes
    <3> QED BY <3>1, <3>2
  <2> QED BY <2>1
<1>3. \A j \in 1 .. m, t \in Int : Turn[<<j, t>>] = t + bulklen(Len(argv[j]))
  OBVIOUS
<1>4. 1 + countDigits[Len(argv)] + 2 \in Int
  BY SizeTypes
<1> HIDE DEF Turn, m
<1>5. PICK f : LoopIs(f, Int, m, (1 + countDigits[Len(argv)] + 2), Turn)
  BY <1>1, <1>2, <1>4, Loop
<1>6. f = Def(f)
  <2>1. ASSUME NEW j \in 0 .. m
        PROVE  f[j] = IF j = 0 THEN (1 + countDigits[Len(argv)] + 2) ELSE f[j - 1] + bulklen(Len(argv[j]))
    <3>1. CASE j = 0
      BY <1>5, <3>1 DEF LoopIs
    <3>2. CASE j # 0
      <4>1. j \in 1 .. m /\ j - 1 \in 0 .. m
        BY <1>1, <3>2
      <4>2. f[j - 1] \in Int /\ f[j] = Turn[<<j, f[j - 1]>>]
        BY <1>5, <4>1 DEF LoopIs
      <4> QED BY <1>3, <3>2, <4>1, <4>2
    <3> QED BY <3>1, <3>2
  <2> QED BY <1>5, <2>1 DEF LoopIs
<1> DEFINE g == CHOOSE h : h = Def(h)
<1>7. g = Def(g)
  BY <1>6
<1>8. totlen(argv) = g[m]
  BY DEF totlen, m
<1> HIDE DEF g
<1>9. SizesAre(g, argv)
  <2>1. 0 \in 0 .. m /\ \A j \in 1 .. m : j \in 0 .. m /\ j # 0
    BY <1>1
  <2> QED BY <1>7, <2>1 DEF SizesAre, m
<1> QED BY <1>8, <1>9 DEF m

(* The assertion of both functions that write a command, for any number of *)
(* arguments of any length.                                                *)
LEMMA Fills ==
  ASSUME NEW argv \in Seq(Text)
  PROVE  Protocol(argv) \in Text /\ Len(Protocol(argv)) = totlen(argv)
<1> DEFINE m == Len(argv)
<1>1. m \in Nat /\ \A j \in 1 .. m : argv[j] \in Text
  BY LenProperties
<1>2. PICK b : BytesAre(b, argv) /\ Protocol(argv) = b[m]
  BY BytesUnfold
<1>3. PICK z : SizesAre(z, argv) /\ totlen(argv) = z[m]
  BY SizesUnfold
<1> DEFINE Ok(j) == b[j] \in Text /\ Len(b[j]) = z[j]
           Bad == {j \in 0 .. m : ~Ok(j)}
<1>4. Ok(0)
  BY <1>2, <1>3, SizeOfLines DEF BytesAre, SizesAre
<1>5. ASSUME NEW j \in 1 .. m, Ok(j - 1) PROVE Ok(j)
  <2>1. b[j] = b[j - 1] \o Bulk(argv[j]) /\ z[j] = z[j - 1] + bulklen(Len(argv[j]))
    BY <1>2, <1>3 DEF BytesAre, SizesAre
  <2>2. Bulk(argv[j]) \in Text /\ Len(Bulk(argv[j])) = bulklen(Len(argv[j]))
    BY <1>1, SizeOfLines
  <2>3. b[j] \in Text /\ Len(b[j]) = Len(b[j - 1]) + Len(Bulk(argv[j]))
    BY <1>5, <2>1, <2>2, Joined
  <2> QED BY <1>5, <2>1, <2>2, <2>3
<1> HIDE DEF Ok, m
<1>6. ASSUME Bad # {} PROVE FALSE
  <2>1. Bad \in SUBSET Nat
    OBVIOUS
  <2>2. PICK j \in Bad : \A k \in Bad : j <= k
    BY <1>6, <2>1, Least
  <2>3. j \in 0 .. m /\ ~Ok(j) /\ \A k \in 0 .. m : k < j => Ok(k)
    BY <2>2
  <2>4. j # 0
    BY <1>4, <2>3
  <2>5. j \in 1 .. m /\ j - 1 \in 0 .. m /\ j - 1 < j
    BY <1>1, <2>3, <2>4
  <2> QED BY <1>5, <2>3, <2>5
<1>7. m \in 0 .. m
  BY <1>1
<1>8. Ok(m)
  BY <1>6, <1>7
<1> QED BY <1>2, <1>3, <1>8 DEF Ok, m

-----------------------------------------------------------------------------
(* Numbers and types that the reader finds in the bytes.                   *)

LEMMA LoopStays ==
  ASSUME NEW m \in Nat, NEW V, NEW g, g[0] \in V, \A j \in 1 .. m : g[j - 1] \in V => g[j] \in V
  PROVE  g[m] \in V
<1> DEFINE Bad == {j \in 0 .. m : g[j] \notin V}
<1>1. ASSUME Bad # {} PROVE FALSE
  <2>1. Bad \in SUBSET Nat
    OBVIOUS
  <2>2. PICK j \in Bad : \A k \in Bad : j <= k
    BY <1>1, <2>1, Least
  <2>3. j \in 1 .. m /\ j - 1 \in 0 .. m /\ j - 1 < j /\ g[j] \notin V
    BY <2>2
  <2>4. g[j - 1] \in V
    BY <2>2, <2>3
  <2> QED BY <2>3, <2>4
<1>2. m \in 0 .. m
  OBVIOUS
<1> QED BY <1>1, <1>2

LEMMA ValueTypes == \A d \in DOMAIN Value : Value[d] \in 0 .. 9
<1> SUFFICES ASSUME NEW d \in DOMAIN Value PROVE Value[d] \in 0 .. 9
  OBVIOUS
<1>1. d \in ToSet(Numerals) /\ Value[d] = (CHOOSE i \in 1 .. 10 : Numerals[i] = d) - 1
  BY DEF Value
<1>2. DOMAIN Numerals = 1 .. 10
  BY DEF Numerals
<1>3. \E i \in 1 .. 10 : Numerals[i] = d
  BY <1>1, <1>2 DEF ToSet
<1>4. (CHOOSE i \in 1 .. 10 : Numerals[i] = d) \in 1 .. 10
  BY <1>3
<1> QED BY <1>1, <1>4

LEMMA string2llTypes ==
  ASSUME NEW text, text \in Text
  PROVE  string2ll(text) \subseteq Int
<1> DEFINE negative == text # <<>> /\ text[1] = "-"
           digits == IF negative THEN Tail(text) ELSE text
           AddDigit(v, d) ==
             IF v = -1 \/ d \notin DOMAIN Value \/ v > ULLONG_MAX \div 10 THEN -1
             ELSE IF v * 10 > ULLONG_MAX - Value[d] THEN -1 ELSE v * 10 + Value[d]
           m == Len(digits)
           Turn == [p \in (1 .. m) \X Int |-> AddDigit(p[2], digits[p[1]])]
           Def(g) == [i \in 0 .. m |-> IF i = 0 THEN 0 ELSE AddDigit(g[i - 1], digits[i])]
<1>1. digits \in Text /\ m \in Nat
  BY HeadTailProperties, LenProperties DEF Text
<1>2. ASSUME NEW v \in Int, NEW d PROVE AddDigit(v, d) \in Int
  <2>1. CASE d \in DOMAIN Value
    <3>1. Value[d] \in Int
      BY <2>1, ValueTypes
    <3> QED BY <3>1
  <2>2. CASE d \notin DOMAIN Value
    BY <2>2
  <2> QED BY <2>1, <2>2
<1> HIDE DEF AddDigit, digits, m
<1>3. Turn \in [(1 .. m) \X Int -> Int]
  <2>1. ASSUME NEW p \in (1 .. m) \X Int PROVE AddDigit(p[2], digits[p[1]]) \in Int
    BY <1>2
  <2> QED BY <2>1
<1>4. \A j \in 1 .. m, t \in Int : Turn[<<j, t>>] = AddDigit(t, digits[j])
  OBVIOUS
<1> HIDE DEF Turn
<1>5. PICK f : LoopIs(f, Int, m, 0, Turn)
  <2>1. 0 \in Int
    OBVIOUS
  <2> QED BY <1>1, <1>3, <2>1, Loop
<1>6. f = Def(f)
  <2>1. ASSUME NEW j \in 0 .. m
        PROVE  f[j] = IF j = 0 THEN 0 ELSE AddDigit(f[j - 1], digits[j])
    <3>1. CASE j = 0
      BY <1>5, <3>1 DEF LoopIs
    <3>2. CASE j # 0
      <4>1. j \in 1 .. m /\ j - 1 \in 0 .. m
        BY <1>1, <3>2
      <4>2. f[j - 1] \in Int /\ f[j] = Turn[<<j, f[j - 1]>>]
        BY <1>5, <4>1 DEF LoopIs
      <4> QED BY <1>4, <3>2, <4>1, <4>2
    <3> QED BY <3>1, <3>2
  <2> QED BY <1>5, <2>1 DEF LoopIs
<1> DEFINE g == CHOOSE h : h = Def(h)
<1>7. g = Def(g)
  BY <1>6
<1> HIDE DEF g
<1>8. g[m] \in Int
  <2>1. g[0] \in Int
    BY <1>1, <1>7
  <2>2. ASSUME NEW j \in 1 .. m, g[j - 1] \in Int PROVE g[j] \in Int
    <3>1. j \in 0 .. m /\ j # 0
      BY <1>1
    <3>2. g[j] = AddDigit(g[j - 1], digits[j])
      BY <1>7, <3>1
    <3> QED BY <1>2, <2>2, <3>2
  <2> QED BY <1>1, <2>1, <2>2, LoopStays
<1>9. string2ll(text) \subseteq {0, g[m], -g[m]}
  BY DEF string2ll, g, m, digits, AddDigit
<1> QED BY <1>8, <1>9

LEMMA TypeOfTypes == \A b \in DOMAIN TypeOf : TypeOf[b] \in Kinds
BY DEF TypeOf, Kinds

-----------------------------------------------------------------------------
(* What the reader's steps do to the stack and to the objects.             *)

LEMMA ArrayTypes ==
  \A o \in Objects : /\ o.type # "null"
                     /\ o.type = "array" => o \in Arrays /\ o.element \in Seq(Nat)
BY DEF Objects, Arrays, Leaf_

(* One slot of an array changes.                                           *)
Updated(p, o, k, v) ==
  /\ p.type = "array" /\ p.element \in Seq(Nat)
  /\ Len(p.element) = Len(o.element) /\ DOMAIN p.element = DOMAIN o.element
  /\ \A j \in DOMAIN o.element : p.element[j] = IF j = k THEN v ELSE o.element[j]

LEMMA ArrayUpdate ==
  ASSUME NEW o \in Arrays, NEW k \in DOMAIN o.element, NEW v \in Nat
  PROVE  [o EXCEPT !.element[k] = v] \in Arrays /\ Updated([o EXCEPT !.element[k] = v], o, k, v)
<1>1. o.element \in Seq(Nat) /\ o.type = "array"
  BY DEF Arrays
<1> DEFINE e == [o.element EXCEPT ![k] = v]
<1>2. /\ e \in Seq(Nat) /\ Len(e) = Len(o.element) /\ DOMAIN e = DOMAIN o.element
      /\ \A j \in DOMAIN o.element : e[j] = IF j = k THEN v ELSE o.element[j]
  BY <1>1, ExceptSeq
<1>3. [o EXCEPT !.element[k] = v] = [o EXCEPT !.element = e]
  OBVIOUS
<1> HIDE DEF e
<1>4. [o EXCEPT !.element = e] \in Arrays /\ [o EXCEPT !.element = e].type = "array" /\ [o EXCEPT !.element = e].element = e
  BY <1>1, <1>2 DEF Arrays
<1>5. [o EXCEPT !.element = e] \in Arrays /\ Updated([o EXCEPT !.element = e], o, k, v)
  BY <1>2, <1>4 DEF Updated
<1> QED BY <1>3, <1>5

(* The slot that the top of the stack works at.                            *)
Target(stack) == stack[Len(stack) - 1].obj
Slot(stack)   == stack[Len(stack)].idx + 1

LEMMA TopLevel ==
  ASSUME NEW stack \in Seq(Task), NEW objs \in Seq(Objects), Stacked(stack, objs), Len(stack) > 1
  PROVE  /\ Target(stack) \in DOMAIN objs /\ objs[Target(stack)] \in Arrays
         /\ Slot(stack) \in DOMAIN objs[Target(stack)].element
         /\ \A i \in 2 .. Len(stack) - 1 : stack[i - 1].obj # Target(stack)
<1>1. Len(stack) \in Nat /\ \A i \in 1 .. Len(stack) : stack[i] \in Task
  BY LenProperties
<1>2. Len(stack) \in 2 .. Len(stack) /\ Len(stack) - 1 \in 1 .. Len(stack) - 1
  BY <1>1
<1>3. LevelAt(stack, objs, Len(stack), FALSE)
  <2>1. LevelAt(stack, objs, Len(stack), Len(stack) < Len(stack))
    BY <1>2 DEF Stacked
  <2>2. ~(Len(stack) < Len(stack))
    BY <1>1
  <2> QED BY <2>1, <2>2 DEF LevelAt
<1> DEFINE o == objs[Target(stack)]
<1>4. /\ Target(stack) \in DOMAIN objs /\ o.type = "array"
      /\ stack[Len(stack)].idx >= 0 /\ stack[Len(stack)].idx < Len(o.element)
  BY <1>3 DEF LevelAt, Target
<1>5. o \in Objects
  BY <1>4
<1>6. o \in Arrays /\ o.element \in Seq(Nat)
  BY <1>4, <1>5, ArrayTypes
<1>7. Slot(stack) \in DOMAIN o.element
  <2>1. Len(o.element) \in Nat /\ DOMAIN o.element = 1 .. Len(o.element)
    BY <1>6, LenProperties
  <2>2. stack[Len(stack)].idx \in Int
    BY <1>1, <1>2 DEF Task
  <2> QED BY <1>4, <2>1, <2>2 DEF Slot
<1>8. ASSUME NEW i \in 2 .. Len(stack) - 1 PROVE stack[i - 1].obj # Target(stack)
  <2>1. i - 1 \in 1 .. Len(stack) - 1 /\ i - 1 < Len(stack) - 1 /\ i - 1 \in 1 .. Len(stack)
    BY <1>1
  <2>2. stack[i - 1].obj < Target(stack)
    BY <1>2, <2>1 DEF Stacked, Rising, Target
  <2>3. stack[i - 1].obj \in Nat /\ Target(stack) \in Nat
    <3>1. Len(stack) - 1 \in 1 .. Len(stack)
      BY <1>1, <1>2
    <3>2. stack[i - 1] \in Task /\ stack[Len(stack) - 1] \in Task
      BY <1>1, <2>1, <3>1
    <3> QED BY <3>2 DEF Task, Target
  <2> QED BY <2>2, <2>3
<1> QED BY <1>4, <1>6, <1>7, <1>8

(* Every level has filled the slot it works at.                            *)
Full(stack, objs) == \A i \in 2 .. Len(stack) : LevelAt(stack, objs, i, TRUE)

LEMMA AtLeastTwo ==
  ASSUME NEW stack \in Seq(Task), stack # <<>>, Len(stack) # 1
  PROVE  Len(stack) > 1
<1>1. Len(stack) \in Nat /\ Len(stack) # 0
  BY EmptySeq, LenProperties
<1>2. \A k \in Nat : k # 0 /\ k # 1 => k > 1
  OBVIOUS
<1> QED BY <1>1, <1>2, Zenon

(* An array has no elements yet when it is created.                        *)
Fresh(object) == object \in Objects /\ (object.type = "array" => \A j \in DOMAIN object.element : object.element[j] = 0)

(* A new object, in the slot that the top of the stack works at.           *)
Placed(new, objs, stack, object) ==
  /\ new \in Seq(Objects) /\ Len(new) = Len(objs) + 1 /\ new[Len(objs) + 1] = object
  /\ \A x \in DOMAIN objs : x # Target(stack) => new[x] = objs[x]
  /\ Updated(new[Target(stack)], objs[Target(stack)], Slot(stack), Len(objs) + 1)

LEMMA Filling ==
  ASSUME NEW stack \in Seq(Task), NEW objs \in Seq(Objects), Stacked(stack, objs), Linked(objs),
         NEW object, Fresh(object), NEW new, Placed(new, objs, stack, object),
         Len(stack) > 1
  PROVE  Linked(new) /\ Full(stack, new)
<1> USE DEF Placed, Fresh
<1> DEFINE t == Target(stack)
           k == Slot(stack)
           o == objs[t]
           id == Len(objs) + 1
<1>1. Len(objs) \in Nat /\ DOMAIN objs = 1 .. Len(objs) /\ DOMAIN new = 1 .. id
  BY LenProperties
<1>2. /\ t \in DOMAIN objs /\ o \in Arrays /\ k \in DOMAIN o.element
      /\ \A i \in 2 .. Len(stack) - 1 : stack[i - 1].obj # t
  BY TopLevel
<1>3. /\ new[t].type = "array"
      /\ Len(new[t].element) = Len(o.element)
      /\ DOMAIN new[t].element = DOMAIN o.element
      /\ \A j \in DOMAIN o.element : new[t].element[j] = IF j = k THEN id ELSE o.element[j]
  BY DEF Updated
<1>4. \A x \in DOMAIN objs : x # t => new[x] = objs[x]
  OBVIOUS
<1>5. o.type = "array"
  BY <1>2 DEF Arrays
<1> HIDE DEF t, k, o, id
<1>6. Linked(new)
  <2> SUFFICES ASSUME NEW i \in DOMAIN new, new[i].type = "array", NEW j \in DOMAIN new[i].element
               PROVE  new[i].element[j] = 0 \/ new[i].element[j] \in i + 1 .. id
    BY DEF Linked, id
  <2>1. CASE i = id
    <3>1. new[i] = object
      BY <2>1 DEF id
    <3> QED BY <3>1
  <2>2. CASE i \in DOMAIN objs /\ i # t
    <3>1. new[i] = objs[i]
      BY <1>4, <2>2
    <3>2. objs[i].element[j] = 0 \/ objs[i].element[j] \in i + 1 .. Len(objs)
      BY <2>2, <3>1 DEF Linked
    <3>3. objs[i].element[j] \in i + 1 .. Len(objs) => objs[i].element[j] \in i + 1 .. id
      BY <1>1, <2>2 DEF id
    <3> QED BY <3>1, <3>2, <3>3
  <2>3. CASE i = t
    <3>1. j \in DOMAIN o.element
      BY <1>3, <2>3
    <3>2. CASE j = k
      <4>1. new[i].element[j] = id
        BY <1>3, <2>3, <3>1, <3>2
      <4>2. id \in t + 1 .. id
        BY <1>1, <1>2 DEF id
      <4> QED BY <2>3, <4>1, <4>2
    <3>3. CASE j # k
      <4>1. new[i].element[j] = o.element[j]
        BY <1>3, <2>3, <3>1, <3>3
      <4>2. o.element[j] = 0 \/ o.element[j] \in t + 1 .. Len(objs)
        BY <1>2, <1>5, <3>1 DEF Linked, o
      <4>3. o.element[j] \in t + 1 .. Len(objs) => o.element[j] \in t + 1 .. id
        BY <1>1, <1>2 DEF id
      <4> QED BY <2>3, <4>1, <4>2, <4>3
    <3> QED BY <3>2, <3>3
  <2>4. i = id \/ i \in DOMAIN objs
    BY <1>1 DEF id
  <2> QED BY <2>1, <2>2, <2>3, <2>4
<1>7. ASSUME NEW i \in 2 .. Len(stack) PROVE LevelAt(stack, new, i, TRUE)
  <2>1. Len(stack) \in Nat
    BY LenProperties
  <2>2. LevelAt(stack, objs, i, i < Len(stack))
    BY DEF Stacked
  <2>3. CASE i < Len(stack)
    <3>1. i \in 2 .. Len(stack) - 1
      BY <2>1, <2>3
    <3>2. stack[i - 1].obj # t /\ stack[i - 1].obj \in DOMAIN objs
      BY <1>2, <2>2, <3>1 DEF LevelAt
    <3>3. new[stack[i - 1].obj] = objs[stack[i - 1].obj] /\ stack[i - 1].obj \in DOMAIN new
      BY <1>1, <1>4, <3>2 DEF id
    <3> QED BY <2>2, <2>3, <3>3 DEF LevelAt
  <2>4. CASE i = Len(stack)
    <3>1. stack[i - 1].obj = t /\ stack[i].idx + 1 = k
      BY <2>4 DEF t, k, Target, Slot
    <3>2. /\ stack[i - 1].type = "array" /\ stack[i].idx >= 0 /\ stack[i].idx < stack[i - 1].elements
          /\ Len(o.element) = stack[i - 1].elements
          /\ \A j \in DOMAIN o.element : o.element[j] # 0 <=> j <= stack[i].idx
      BY <2>1, <2>2, <2>4, <3>1 DEF LevelAt, o
    <3>3. t \in DOMAIN new /\ id # 0
      BY <1>1, <1>2 DEF id
    <3>4. stack[i].idx \in Int
      <4>1. stack[i] \in Task
        BY LenProperties
      <4> QED BY <4>1 DEF Task
    <3>5. ASSUME NEW j \in DOMAIN o.element
          PROVE  new[t].element[j] # 0 <=> (j <= stack[i].idx \/ j = stack[i].idx + 1)
      <4>1. j \in Int
        <5>1. o.element \in Seq(Nat)
          BY <1>2 DEF Arrays
        <5> QED BY <5>1, LenProperties
      <4>2. CASE j = k
        BY <1>3, <3>1, <3>3, <4>2
      <4>3. CASE j # k
        BY <1>3, <3>1, <3>2, <4>3
      <4> QED BY <4>2, <4>3
    <3> QED BY <1>3, <3>1, <3>2, <3>3, <3>5 DEF LevelAt
  <2>5. i < Len(stack) \/ i = Len(stack)
    BY <2>1
  <2> QED BY <2>3, <2>4, <2>5, Zenon
<1> QED BY <1>6, <1>7 DEF Full

(* createStringObject and its siblings keep everything but the objects.    *)
Made(new, rd, object) ==
  /\ new \in Readers
  /\ new.buf = rd.buf /\ new.pos = rd.pos /\ new.err = rd.err /\ new.rstack = rd.rstack
  /\ Len(new.objs) = Len(rd.objs) + 1 /\ new.objs[Len(rd.objs) + 1] = object
  /\ Linked(new.objs) /\ Full(rd.rstack, new.objs)
  /\ new.reply \in DOMAIN new.objs

LEMMA ReaderTypes ==
  ASSUME NEW rd, rd \in Readers
  PROVE  /\ rd.buf \in Text /\ rd.pos \in Nat /\ rd.err \in Errors /\ rd.reply \in Nat
         /\ rd.rstack \in Seq(Task) /\ Len(rd.rstack) \in Nat
         /\ \A i \in 1 .. Len(rd.rstack) : rd.rstack[i] \in Task
         /\ rd.objs \in Seq(Objects) /\ Len(rd.objs) \in Nat /\ DOMAIN rd.objs = 1 .. Len(rd.objs)
         /\ Len(rd.buf) \in Nat
<1>1. /\ rd.buf \in Text /\ rd.pos \in Nat /\ rd.err \in Errors /\ rd.reply \in Nat
      /\ rd.rstack \in Seq(Task) /\ rd.objs \in Seq(Objects)
  BY DEF Readers
<1> QED BY <1>1, LenProperties DEF Text

LEMMA CreateOK ==
  ASSUME NEW rd, ReaderOK(rd), rd.rstack # <<>>, NEW object, Fresh(object)
  PROVE  Made(Create(rd, object), rd, object)
<1> DEFINE id == Len(rd.objs) + 1
           all == Append(rd.objs, object)
           stack == rd.rstack
           t == Target(stack)
           k == Slot(stack)
           put == [all EXCEPT ![t].element[k] = id]
<1>1. rd \in Readers /\ Stacked(stack, rd.objs) /\ Linked(rd.objs) /\ object \in Objects
  BY DEF ReaderOK, Fresh
<1>2. /\ stack \in Seq(Task) /\ Len(stack) \in Nat /\ rd.objs \in Seq(Objects)
      /\ Len(rd.objs) \in Nat /\ DOMAIN rd.objs = 1 .. Len(rd.objs)
  BY <1>1, ReaderTypes
<1>3. /\ all \in Seq(Objects) /\ Len(all) = id /\ all[id] = object
      /\ \A x \in DOMAIN rd.objs : all[x] = rd.objs[x]
  BY <1>1, <1>2, AppendProperties
<1>4. id \in Nat /\ id \in 1 .. id /\ \A x \in DOMAIN rd.objs : x \in 1 .. id /\ x # id
  BY <1>2
<1>5. Len(rd.rstack) # 1 => Len(rd.rstack) > 1
  <2>1. rd.rstack \in Seq(Task)
    BY <1>2
  <2> QED BY <2>1, AtLeastTwo
<1>6. CASE Len(stack) = 1
  <2> DEFINE new == [rd EXCEPT !.objs = all, !.reply = id]
  <2>1. Create(rd, object) = new
    BY <1>6 DEF Create
  <2> HIDE DEF all, id
  <2>2. /\ new \in Readers /\ new.buf = rd.buf /\ new.pos = rd.pos /\ new.err = rd.err
        /\ new.rstack = rd.rstack /\ new.objs = all /\ new.reply = id
    BY <1>1, <1>3, <1>4 DEF Readers
  <2> HIDE DEF new
  <2>3. Full(stack, all)
    BY <1>6 DEF Full
  <2>4. DOMAIN all = 1 .. id
    BY <1>3, LenProperties
  <2>5. Linked(all)
    <3> SUFFICES ASSUME NEW i \in 1 .. id, all[i].type = "array", NEW j \in DOMAIN all[i].element
                 PROVE  all[i].element[j] = 0 \/ all[i].element[j] \in i + 1 .. id
      BY <1>3, <2>4 DEF Linked
    <3>1. CASE i = id
      BY <1>3, <3>1 DEF Fresh
    <3>2. CASE i # id
      <4>1. i \in DOMAIN rd.objs
        BY <1>2, <3>2 DEF id
      <4>2. rd.objs[i].element[j] = 0 \/ rd.objs[i].element[j] \in i + 1 .. Len(rd.objs)
        BY <1>1, <1>3, <4>1 DEF Linked
      <4>3. rd.objs[i].element[j] \in i + 1 .. Len(rd.objs) => rd.objs[i].element[j] \in i + 1 .. id
        BY <1>2 DEF id
      <4> QED BY <1>3, <4>1, <4>2, <4>3
    <3> QED BY <3>1, <3>2
  <2> QED BY <1>3, <1>4, <2>1, <2>2, <2>3, <2>4, <2>5 DEF Made, id
<1>7. CASE Len(stack) # 1
  <2> DEFINE new == [rd EXCEPT !.objs = put]
  <2>1. Create(rd, object) = new
    BY <1>7, Zenon DEF Create, Target, Slot
  <2>2. t \in DOMAIN rd.objs /\ rd.objs[t] \in Arrays /\ k \in DOMAIN rd.objs[t].element
    BY <1>1, <1>2, <1>5, <1>7, TopLevel
  <2>3. t \in 1 .. id /\ t # id /\ all[t] = rd.objs[t] /\ t \in DOMAIN all
    <3>1. DOMAIN all = 1 .. id
      BY <1>3, LenProperties
    <3> QED BY <1>3, <1>4, <2>2, <3>1
  <2> HIDE DEF all, id, t, k
  <2> DEFINE p == [all[t] EXCEPT !.element[k] = id]
  <2>4. put = [all EXCEPT ![t] = p]
    OBVIOUS
  <2>5. p \in Arrays /\ Updated(p, rd.objs[t], k, id)
    BY <1>4, <2>2, <2>3, ArrayUpdate
  <2> HIDE DEF p, put
  <2>6. p \in Objects
    BY <2>5 DEF Objects
  <2>7. /\ put \in Seq(Objects) /\ Len(put) = id
        /\ put[id] = object /\ put[t] = p /\ \A x \in DOMAIN rd.objs : x # t => put[x] = rd.objs[x]
    BY <1>3, <1>4, <2>3, <2>4, <2>6, ExceptSeq
  <2>8. Linked(put) /\ Full(stack, put)
    <3>1. Placed(put, rd.objs, stack, object)
      BY <2>5, <2>7 DEF Placed, t, k, id
    <3>2. Len(stack) > 1
      BY <1>5, <1>7
    <3> HIDE DEF stack
    <3> QED BY <1>1, <1>2, <3>1, <3>2, Filling
  <2>9. /\ new \in Readers /\ new.buf = rd.buf /\ new.pos = rd.pos /\ new.err = rd.err
        /\ new.rstack = rd.rstack /\ new.objs = put /\ new.reply = rd.reply
    BY <1>1, <2>7 DEF Readers
  <2> HIDE DEF new
  <2>10. rd.reply \in DOMAIN put
    <3>1. rd.reply \in DOMAIN rd.objs /\ DOMAIN put = 1 .. id
      BY <1>5, <1>7, <2>7, LenProperties DEF ReaderOK
    <3> QED BY <1>4, <3>1
  <2> QED BY <2>1, <2>7, <2>8, <2>9, <2>10 DEF Made, id
<1> QED BY <1>6, <1>7, Zenon

LEMMA Greatest ==
  ASSUME NEW m \in Nat, NEW S \in SUBSET (1 .. m), S # {}
  PROVE  \E i \in S : \A j \in S : j <= i
<1> DEFINE Far == {m - i : i \in S}
<1>1. Far \in SUBSET Nat /\ Far # {}
  <2>1. \A i \in S : i \in 1 .. m /\ m - i \in Nat
    <3>1. \A i \in 1 .. m : m - i \in Nat
      OBVIOUS
    <3> QED BY <3>1
  <2> QED BY <2>1
<1>2. PICK least \in Far : \A k \in Far : least <= k
  BY <1>1, Least
<1>3. PICK i \in S : least = m - i
  OBVIOUS
<1>4. ASSUME NEW j \in S PROVE j <= i
  <2>1. m - j \in Far
    OBVIOUS
  <2>2. m - i <= m - j
    BY <1>2, <1>3, <2>1
  <2> QED BY <2>2
<1> QED BY <1>4

LEMMA NewTasks ==
  ASSUME NEW i \in Int
  PROVE  NewTask(i) \in Task /\ NewTask(i).idx = i
BY DEF NewTask, Task

(* Two stacks with the same levels up to m.                                *)
Agree(a, b, m) == \A i \in 1 .. m : a[i] = b[i]

LEMMA SameLevel ==
  ASSUME NEW a, NEW b, NEW m, Agree(a, b, m), NEW i \in 1 .. m, i - 1 \in 1 .. m,
         NEW objs, NEW filled, LevelAt(a, objs, i, filled)
  PROVE  LevelAt(b, objs, i, filled)
BY DEF Agree, LevelAt

LEMMA NextTask ==
  ASSUME NEW stack \in Seq(Task), NEW objs \in Seq(Objects), Len(stack) <= MaxDepth + 1,
         Full(stack, objs), Rising(stack)
  PROVE  moveToNextTask(stack) \in Seq(Task) /\ Stacked(moveToNextTask(stack), objs)
<1> DEFINE open == {i \in 2 .. Len(stack) : stack[i].idx # stack[i - 1].elements - 1}
           i == CHOOSE i \in open : \A j \in open : j <= i
           below == SubSeq(stack, 1, i - 1)
           top == NewTask(stack[i].idx + 1)
           next == Append(below, top)
<1>1. /\ Len(stack) \in Nat /\ MaxDepth \in Nat
      /\ \A k \in 1 .. Len(stack) : stack[k] \in Task
  BY BoundsAssumption, LenProperties
<1>2. CASE open = {}
  <2>1. moveToNextTask(stack) = <<>>
    BY <1>2 DEF moveToNextTask
  <2>2. <<>> \in Seq(Task) /\ Len(<<>>) = 0
    OBVIOUS
  <2>3. 0 <= MaxDepth + 1
    BY BoundsAssumption
  <2> QED BY <2>1, <2>2, <2>3 DEF Stacked, Rising
<1>3. CASE open # {}
  <2>1. moveToNextTask(stack) = next
    BY <1>3 DEF moveToNextTask
  <2>2. i \in open
    <3>1. open \in SUBSET (1 .. Len(stack))
      BY <1>1
    <3>2. \E k \in open : \A j \in open : j <= k
      BY <1>1, <1>3, <3>1, Greatest
    <3> QED BY <3>2
  <2> HIDE DEF i
  <2>3. /\ i \in 2 .. Len(stack) /\ i \in 1 .. Len(stack) /\ i - 1 \in 1 .. Len(stack)
        /\ stack[i].idx # stack[i - 1].elements - 1
    BY <1>1, <2>2
  <2> HIDE DEF open
  <2>4. below \in Seq(Task) /\ Len(below) = i - 1 /\ \A k \in 1 .. i - 1 : below[k] = stack[k]
    <3>1. \A k \in 1 .. i - 1 : k \in 1 .. Len(stack)
      BY <1>1, <2>3
    <3>2. below \in Seq(Task)
      BY <1>1, <2>3, <3>1, SubSeqProperties
    <3>3. Len(below) = (i - 1) - 1 + 1 /\ \A k \in 1 .. (i - 1) - 1 + 1 : below[k] = stack[1 + k - 1]
      BY <1>1, <2>3, <3>1, SubSeqProperties
    <3> QED BY <2>3, <3>2, <3>3
  <2>5. stack[i] \in Task /\ stack[i].idx \in Int /\ stack[i - 1].elements \in Int
    BY <1>1, <2>3 DEF Task
  <2>6. top \in Task /\ top.idx = stack[i].idx + 1
    BY <2>5, NewTasks
  <2> HIDE DEF below, top
  <2>7. next \in Seq(Task) /\ Len(next) = i /\ next[i] = top /\ Agree(stack, next, i - 1)
    <3>1. next \in Seq(Task) /\ Len(next) = Len(below) + 1 /\ next[Len(below) + 1] = top
          /\ \A k \in 1 .. Len(below) : next[k] = below[k]
      BY <2>4, <2>6, AppendProperties
    <3>2. Len(below) + 1 = i
      BY <2>3, <2>4
    <3>3. Agree(stack, next, i - 1)
      BY <2>4, <3>1 DEF Agree
    <3> QED BY <3>1, <3>2, <3>3
  <2> HIDE DEF next
  <2>8. ASSUME NEW k \in 2 .. i PROVE LevelAt(next, objs, k, k < i)
    <3>1. k \in 2 .. Len(stack)
      BY <1>1, <2>3
    <3>2. LevelAt(stack, objs, k, TRUE)
      BY <3>1 DEF Full
    <3>3. CASE k < i
      <4>1. k \in 1 .. i - 1 /\ k - 1 \in 1 .. i - 1
        BY <2>3, <3>3
      <4>2. LevelAt(next, objs, k, TRUE)
        BY <2>7, <3>2, <4>1, SameLevel
      <4> QED BY <3>3, <4>2 DEF LevelAt
    <3>4. CASE k = i
      <4>1. next[k] = top /\ next[k - 1] = stack[k - 1]
        <5>1. i - 1 \in 1 .. i - 1
          BY <2>3
        <5> QED BY <2>7, <3>4, <5>1 DEF Agree
      <4> DEFINE b == stack[k - 1]
                 slots == objs[b.obj].element
                 was == stack[k].idx
      <4>2. /\ b.type = "array" /\ b.obj \in DOMAIN objs /\ objs[b.obj].type = "array"
            /\ objs[b.obj] \in Objects /\ was >= 0 /\ was < b.elements /\ Len(slots) = b.elements
            /\ \A j \in DOMAIN slots : slots[j] # 0 <=> (j <= was \/ j = was + 1)
        BY <3>2 DEF LevelAt
      <4>3. was \in Int /\ b.elements \in Int /\ was # b.elements - 1 /\ top.idx = was + 1
        BY <2>3, <2>5, <2>6, <3>4
      <4> HIDE DEF b, slots, was
      <4>4. top.idx >= 0 /\ top.idx < b.elements
        <5>1. was >= 0 /\ was < b.elements
          BY <4>2
        <5> HIDE <4>2
        <5> QED BY <4>3, <5>1
      <4>5. ASSUME NEW j \in DOMAIN slots PROVE slots[j] # 0 <=> (j <= top.idx \/ (j = top.idx + 1 /\ FALSE))
        <5>1. slots[j] # 0 <=> (j <= was \/ j = was + 1)
          BY <4>2
        <5>2. j \in Int
          <6>1. slots \in Seq(Nat)
            BY <4>2, ArrayTypes DEF b, slots
          <6>2. DOMAIN slots = 1 .. Len(slots) /\ Len(slots) \in Nat
            BY <6>1, LenProperties
          <6> QED BY <6>2
        <5>3. (j <= was \/ j = was + 1) <=> j <= was + 1
          BY <4>3, <5>2
        <5> QED BY <4>3, <5>1, <5>3
      <4>6. ~(k < i)
        BY <2>3, <3>4
      <4> QED BY <4>1, <4>2, <4>4, <4>5, <4>6 DEF LevelAt, b, slots, was
    <3>5. k < i \/ k = i
      BY <2>3
    <3> QED BY <3>3, <3>4, <3>5, Zenon
  <2>9. Rising(next)
    <3> SUFFICES ASSUME NEW a \in 1 .. i - 1, NEW b \in 1 .. i - 1, a < b
                 PROVE  next[a].obj < next[b].obj
      <4>1. Len(next) - 1 = i - 1
        BY <2>7
      <4> QED BY <4>1 DEF Rising
    <3>1. a \in 1 .. Len(stack) - 1 /\ b \in 1 .. Len(stack) - 1
      BY <1>1, <2>3
    <3>2. stack[a].obj < stack[b].obj
      BY <3>1 DEF Rising
    <3> QED BY <2>7, <3>2 DEF Agree
  <2>10. i <= MaxDepth + 1
    BY <1>1, <2>3
  <2> QED BY <2>1, <2>7, <2>8, <2>9, <2>10 DEF Stacked
<1> QED BY <1>2, <1>3

-----------------------------------------------------------------------------
(* What the steps make of a reader.                                        *)

LEMMA Texts ==
  ASSUME NEW a, a \in Text, NEW b, b \in Text
  PROVE  /\ a \o b \in Text /\ Len(a \o b) = Len(a) + Len(b) /\ Len(a) \in Nat /\ Len(b) \in Nat
         /\ <<>> \in Text
BY ConcatProperties, LenProperties DEF Text

LEMMA SubTexts ==
  ASSUME NEW a, a \in Text, NEW i \in Nat, i > 0, NEW j \in Int, j <= Len(a)
  PROVE  SubSeq(a, i, j) \in Text
<1>1. a \in Seq(Symbols) /\ Len(a) \in Nat
  BY LenProperties DEF Text
<1>2. \A k \in i .. j : k \in 1 .. Len(a)
  BY <1>1
<1>3. CASE i <= j + 1
  <2>1. \A k \in i .. j : a[k] \in Symbols
    BY <1>1, <1>2, LenProperties
  <2> QED BY <1>1, <1>2, <1>3, SubSeqProperties DEF Text
<1>4. CASE i > j + 1
  <2>1. SubSeq(a, i, j) = <<>>
    BY <1>4
  <2> QED BY <2>1 DEF Text
<1> QED BY <1>3, <1>4

LEMMA PlainChange ==
  ASSUME NEW rd, ReaderOK(rd), NEW new \in Readers, new.rstack = rd.rstack, new.objs = rd.objs,
         new.reply = rd.reply, new.pos <= Len(new.buf)
  PROVE  ReaderOK(new)
BY DEF ReaderOK

LEMMA NewReaderOK ==
  ASSUME NEW e \in Errors
  PROVE  ReaderOK([NewReader EXCEPT !.err = e]) /\ ReaderOK(NewReader)
<1>1. \A f \in Errors : ReaderOK([buf |-> <<>>, pos |-> 0, err |-> f, rstack |-> <<>>, objs |-> <<>>, reply |-> 0])
  <2> TAKE f \in Errors
  <2>1. <<>> \in Text /\ <<>> \in Seq(Task) /\ <<>> \in Seq(Objects) /\ Len(<<>>) = 0 /\ MaxDepth \in Nat
    BY BoundsAssumption DEF Text
  <2> DEFINE rd == [buf |-> <<>>, pos |-> 0, err |-> f, rstack |-> <<>>, objs |-> <<>>, reply |-> 0]
  <2>2. rd \in Readers /\ rd.pos = 0 /\ rd.buf = <<>> /\ rd.rstack = <<>> /\ rd.objs = <<>>
    BY <2>1 DEF Readers
  <2> HIDE DEF rd
  <2>3. Stacked(<<>>, <<>>)
    BY <2>1 DEF Stacked, Rising
  <2>4. Linked(<<>>)
    BY DEF Linked
  <2> QED BY <2>1, <2>2, <2>3, <2>4 DEF ReaderOK, rd
<1>2. "0" \in Errors
  BY DEF Errors
<1> QED BY <1>1, <1>2 DEF NewReader

(* Only the type of the top task changes.                                  *)
Retyped(a, b) ==
  /\ b \in Seq(Task) /\ Len(b) = Len(a)
  /\ Agree(a, b, Len(a) - 1)
  /\ b[Len(a)].idx = a[Len(a)].idx

LEMMA RetypedOK ==
  ASSUME NEW a \in Seq(Task), a # <<>>, NEW b, Retyped(a, b), NEW objs, Stacked(a, objs)
  PROVE  Stacked(b, objs)
<1>1. Len(a) \in Nat
  BY LenProperties
<1>2. Len(b) = Len(a) /\ Agree(a, b, Len(a) - 1) /\ b[Len(a)].idx = a[Len(a)].idx
  BY DEF Retyped
<1>3. ASSUME NEW i \in 2 .. Len(a) PROVE LevelAt(b, objs, i, i < Len(a))
  <2>1. LevelAt(a, objs, i, i < Len(a))
    BY DEF Stacked
  <2>2. i - 1 \in 1 .. Len(a) - 1
    BY <1>1
  <2>3. b[i - 1] = a[i - 1]
    BY <1>2, <2>2 DEF Agree
  <2>4. b[i].idx = a[i].idx
    <3>1. CASE i \in 1 .. Len(a) - 1
      BY <1>2, <3>1 DEF Agree
    <3>2. CASE i = Len(a)
      BY <1>2, <3>2
    <3>3. i \in 1 .. Len(a) - 1 \/ i = Len(a)
      BY <1>1
    <3> QED BY <3>1, <3>2, <3>3
  <2> QED BY <2>1, <2>3, <2>4 DEF LevelAt
<1>4. Rising(b)
  <2>1. Rising(a)
    BY DEF Stacked
  <2> QED BY <1>2, <2>1 DEF Rising, Agree
<1>5. Len(b) <= MaxDepth + 1
  BY <1>2 DEF Stacked
<1> QED BY <1>2, <1>3, <1>4, <1>5 DEF Stacked

(* The type byte is taken: the top of the stack is typed, a byte is read.  *)
LEMMA TypedOK ==
  ASSUME ReaderOK(r), r.rstack # <<>>, ~NoByte,
         Untyped => r.buf[r.pos + 1] \in DOMAIN TypeOf
  PROVE  /\ ReaderOK(Typed) /\ Typed.rstack # <<>> /\ Len(Typed.rstack) = Len(r.rstack)
<1>1. /\ r \in Readers /\ r.rstack \in Seq(Task) /\ Len(r.rstack) \in Nat /\ r.pos \in Nat /\ Len(r.buf) \in Nat
      /\ r.pos <= Len(r.buf) /\ Stacked(r.rstack, r.objs)
  BY ReaderTypes DEF ReaderOK
<1>2. CASE ~Untyped
  BY <1>2 DEF Typed
<1>3. CASE Untyped
  <2> DEFINE d == ridx + 1
             task == [r.rstack[d] EXCEPT !.type = TypeOf[r.buf[r.pos + 1]]]
             stack == [r.rstack EXCEPT ![d] = task]
             new == [r EXCEPT !.pos = r.pos + 1, !.rstack = stack]
  <2>1. Typed = new
    BY <1>3 DEF Typed
  <2>2. d = Len(r.rstack) /\ d \in Nat /\ d \in 1 .. Len(r.rstack)
    <3>1. Len(r.rstack) # 0
      BY <1>1, EmptySeq
    <3> QED BY <1>1, <3>1 DEF ridx
  <2>3. TypeOf[r.buf[r.pos + 1]] \in Kinds \cup {"none"}
    BY <1>3, TypeOfTypes
  <2>4. r.rstack[d] \in Task
    BY <1>1, <2>2, LenProperties
  <2> HIDE DEF d
  <2>5. task \in Task /\ task.idx = r.rstack[d].idx
    BY <2>3, <2>4 DEF Task
  <2> HIDE DEF task
  <2>6. /\ stack \in Seq(Task) /\ Len(stack) = Len(r.rstack) /\ stack[d] = task
        /\ \A j \in 1 .. Len(r.rstack) : j # d => stack[j] = r.rstack[j]
    <3>1. DOMAIN r.rstack = 1 .. Len(r.rstack)
      BY <1>1, LenProperties
    <3> QED BY <1>1, <2>2, <2>5, <3>1, ExceptSeq
  <2> HIDE DEF stack
  <2>7. Retyped(r.rstack, stack)
    <3>1. \A j \in 1 .. Len(r.rstack) - 1 : j \in 1 .. Len(r.rstack) /\ j # d
      BY <1>1, <2>2
    <3> QED BY <2>2, <2>5, <2>6, <3>1 DEF Retyped, Agree
  <2>8. Stacked(stack, r.objs)
    BY <1>1, <2>7, RetypedOK
  <2>9. r.pos + 1 <= Len(r.buf) /\ r.pos + 1 \in Nat
    <3>1. r.pos # Len(r.buf)
      BY <1>3 DEF NoByte
    <3> QED BY <1>1, <3>1
  <2>10. /\ new \in Readers /\ new.rstack = stack /\ new.objs = r.objs /\ new.buf = r.buf
         /\ new.pos = r.pos + 1 /\ new.reply = r.reply
    BY <1>1, <2>6, <2>9 DEF Readers
  <2> HIDE DEF new
  <2>11. ReaderOK(new)
    BY <2>6, <2>8, <2>9, <2>10 DEF ReaderOK
  <2>12. stack # <<>>
    <3>1. Len(stack) # 0
      BY <2>2, <2>6
    <3> QED BY <3>1
  <2> QED BY <2>1, <2>6, <2>10, <2>11, <2>12
<1> QED BY <1>2, <1>3

(* An item is complete: its object is made, and the finished arrays left.  *)
Finished(rd, object) == [Create(rd, object) EXCEPT !.rstack = moveToNextTask(@)]

LEMMA FinishedOK ==
  ASSUME NEW rd, ReaderOK(rd), rd.rstack # <<>>, NEW object, Fresh(object)
  PROVE  /\ ReaderOK(Finished(rd, object)) /\ Finished(rd, object).reply \in DOMAIN Finished(rd, object).objs
         /\ Finished(rd, object) \in Readers
<1> DEFINE a == Create(rd, object)
           stack == moveToNextTask(a.rstack)
           new == [a EXCEPT !.rstack = stack]
<1>1. Finished(rd, object) = new
  BY DEF Finished
<1>2. Made(a, rd, object)
  BY CreateOK
<1>3. rd \in Readers /\ rd.pos <= Len(rd.buf) /\ Stacked(rd.rstack, rd.objs)
  BY DEF ReaderOK
<1>4. /\ a \in Readers /\ a.rstack = rd.rstack /\ a.pos <= Len(a.buf)
      /\ Linked(a.objs) /\ Full(a.rstack, a.objs) /\ a.reply \in DOMAIN a.objs
  BY <1>2, <1>3 DEF Made
<1> HIDE DEF a
<1>5. /\ a.rstack \in Seq(Task) /\ a.objs \in Seq(Objects) /\ Len(a.rstack) <= MaxDepth + 1 /\ Rising(a.rstack)
  BY <1>3, <1>4, ReaderTypes DEF Stacked
<1>6. stack \in Seq(Task) /\ Stacked(stack, a.objs)
  BY <1>4, <1>5, NextTask
<1> HIDE DEF stack
<1>7. /\ new \in Readers /\ new.rstack = stack /\ new.objs = a.objs /\ new.reply = a.reply
      /\ new.buf = a.buf /\ new.pos = a.pos
  BY <1>4, <1>6 DEF Readers
<1> HIDE DEF new
<1> QED BY <1>1, <1>4, <1>6, <1>7 DEF ReaderOK

LEMMA FreshObjects ==
  ASSUME NEW text, text \in Text, NEW k \in Int
  PROVE  /\ \A type \in {"error", "status", "string"} : Fresh(String(type, text))
         /\ Fresh(Integer(k)) /\ Fresh(Nil)
         /\ k >= 0 => Fresh(Array(k)) /\ Array(k) \in Arrays /\ Len(Array(k).element) = k
<1>1. \A type \in {"error", "status", "string"} : Fresh(String(type, text))
  BY DEF Fresh, String, Objects, Leaf_
<1>2. Fresh(Integer(k)) /\ Fresh(Nil)
  BY DEF Fresh, Integer, Nil, Objects, Leaf_
<1>3. ASSUME k >= 0 PROVE Fresh(Array(k)) /\ Array(k) \in Arrays /\ Len(Array(k).element) = k
  <2> DEFINE e == [i \in 1 .. k |-> 0]
  <2>1. k \in Nat /\ e \in [1 .. k -> Nat]
    BY <1>3
  <2>2. e \in Seq(Nat) /\ Len(e) = k /\ \A j \in DOMAIN e : e[j] = 0
    BY <2>1
  <2> HIDE DEF e
  <2>3. Array(k) = [type |-> "array", element |-> e]
    BY DEF Array, e
  <2> QED BY <2>2, <2>3 DEF Fresh, Objects, Arrays
<1> QED BY <1>1, <1>2, <1>3

Opened(new, task, k, id) == new = [task EXCEPT !.elements = k, !.obj = id]

LEMMA TaskOfArray ==
  ASSUME NEW task \in Task, NEW k \in Nat, NEW id \in Nat, NEW new, Opened(new, task, k, id)
  PROVE  new \in Task /\ new.idx = task.idx /\ new.type = task.type /\ new.elements = k /\ new.obj = id
<1>1. PICK u : u = [task EXCEPT !.elements = k]
  OBVIOUS
<1>2. u \in Task /\ u.idx = task.idx /\ u.type = task.type /\ u.elements = k
  BY <1>1 DEF Task
<1>3. new = [u EXCEPT !.obj = id]
  BY <1>1 DEF Opened
<1> QED BY <1>2, <1>3 DEF Task

LEMMA DeeperOK ==
  ASSUME NEW rd, ReaderOK(rd), rd.rstack # <<>>, NEW d, d = Len(rd.rstack), d # MaxDepth + 1,
         rd.rstack[d].type = "array", NEW k \in Nat, k > 0
  PROVE  ReaderOK(Deeper(Create(rd, Array(k)), d, k)) /\ Deeper(Create(rd, Array(k)), d, k).rstack # <<>>
<1> DEFINE a == Create(rd, Array(k))
           id == Len(rd.objs) + 1
           old == rd.rstack
           task == [old[d] EXCEPT !.elements = k, !.obj = id]
           typed == [old EXCEPT ![d] = task]
           stack == Append(typed, NewTask(0))
           new == [a EXCEPT !.rstack = stack]
<1>1. Fresh(Array(k)) /\ Array(k).type = "array" /\ Len(Array(k).element) = k
      /\ \A j \in DOMAIN Array(k).element : Array(k).element[j] = 0
  <2>1. k \in Int /\ k >= 0
    OBVIOUS
  <2>2. <<>> \in Text
    BY DEF Text
  <2> QED BY <2>1, <2>2, FreshObjects DEF Fresh, Array
<1>2. Made(a, rd, Array(k))
  BY <1>1, CreateOK
<1>3. /\ rd \in Readers /\ rd.pos <= Len(rd.buf) /\ Stacked(old, rd.objs) /\ old \in Seq(Task)
      /\ Len(old) \in Nat /\ Len(rd.objs) \in Nat
      /\ DOMAIN rd.objs = 1 .. Len(rd.objs) /\ DOMAIN old = 1 .. Len(old) /\ \A i \in 1 .. Len(old) : old[i] \in Task
  BY ReaderTypes, LenProperties DEF ReaderOK
<1>4. /\ a \in Readers /\ a.rstack = old /\ a.pos <= Len(a.buf) /\ Len(a.objs) = id
      /\ a.objs[id] = Array(k) /\ Linked(a.objs) /\ Full(old, a.objs) /\ a.reply \in DOMAIN a.objs
  BY <1>2, <1>3 DEF Made
<1>5. /\ d \in Nat /\ d \in 1 .. d /\ d \in DOMAIN old /\ d <= MaxDepth + 1 /\ d < MaxDepth + 1 /\ MaxDepth \in Nat
  <2>1. Len(old) # 0
    BY <1>3, EmptySeq
  <2>2. d <= MaxDepth + 1 /\ MaxDepth \in Nat
    BY BoundsAssumption DEF Stacked, ReaderOK
  <2> QED BY <1>3, <2>1, <2>2
<1>6. id \in Nat /\ id > 0 /\ DOMAIN a.objs = 1 .. id /\ id \in DOMAIN a.objs
  <2>1. a.objs \in Seq(Objects)
    BY <1>4, ReaderTypes
  <2> QED BY <1>3, <1>4, <2>1, LenProperties
<1> HIDE DEF a
<1>7. Deeper(a, d, k) = new
  <2> DEFINE With(stack_, id_) ==
               [a EXCEPT !.rstack = Append([stack_ EXCEPT ![d] = [stack_[d] EXCEPT !.elements = k, !.obj = id_]], NewTask(0))]
  <2>1. Deeper(a, d, k) = With(a.rstack, Len(a.objs))
    BY DEF Deeper
  <2>2. With(old, id) = new
    OBVIOUS
  <2> HIDE DEF With
  <2> QED BY <1>4, <2>1, <2>2, Zenon
<1> HIDE DEF id, old, task
<1>8. task \in Task /\ task.idx = old[d].idx /\ task.type = "array" /\ task.elements = k /\ task.obj = id
  <2>1. old[d] \in Task /\ old[d].type = "array"
    BY <1>3, <1>5 DEF old
  <2>2. Opened(task, old[d], k, id)
    BY DEF task, Opened
  <2> QED BY <1>6, <2>1, <2>2, TaskOfArray
<1>9. typed \in Seq(Task) /\ Len(typed) = d /\ typed[d] = task /\ \A i \in 1 .. d : i # d => typed[i] = old[i]
  <2>1. Len(old) = d
    BY DEF old
  <2> QED BY <1>3, <1>5, <1>8, <2>1, ExceptSeq
<1> HIDE DEF typed
<1>10. /\ stack \in Seq(Task) /\ Len(stack) = d + 1 /\ stack[d + 1] = NewTask(0) /\ stack[d] = task
       /\ \A i \in 1 .. d : i # d => stack[i] = old[i]
  <2>1. NewTask(0) \in Task
    BY NewTasks
  <2> QED BY <1>5, <1>9, <2>1, AppendProperties
<1> HIDE DEF stack
<1>11. ASSUME NEW i \in 2 .. d + 1 PROVE LevelAt(stack, a.objs, i, i < d + 1)
  <2>1. CASE i = d + 1
    <3>1. NewTask(0).idx = 0
      BY NewTasks
    <3>2. stack[i - 1] = task /\ stack[i] = NewTask(0)
      BY <1>5, <1>10, <2>1
    <3>3. ASSUME NEW j \in DOMAIN Array(k).element PROVE ~(j <= 0)
      BY DEF Array
    <3>4. ~(i < d + 1)
      BY <1>5, <2>1
    <3> QED BY <1>1, <1>4, <1>6, <1>8, <3>1, <3>2, <3>3, <3>4 DEF LevelAt
  <2>2. CASE i \in 2 .. d
    <3>1. LevelAt(old, a.objs, i, TRUE)
      BY <1>4, <2>2 DEF Full, old
    <3>2. i \in 1 .. d /\ i - 1 \in 1 .. d /\ i - 1 # d /\ i < d + 1
      BY <1>5, <2>2
    <3>3. stack[i - 1] = old[i - 1] /\ stack[i].idx = old[i].idx
      BY <1>8, <1>10, <3>2
    <3> QED BY <3>1, <3>2, <3>3 DEF LevelAt
  <2>3. i = d + 1 \/ i \in 2 .. d
    BY <1>5
  <2> QED BY <2>1, <2>2, <2>3, Zenon
<1>12. ASSUME NEW i \in 1 .. d, i # d PROVE stack[i] = old[i] /\ old[i].obj \in 1 .. id - 1
  <2>1. i + 1 \in 2 .. Len(rd.rstack) /\ (i + 1) - 1 = i
    BY <1>5, <1>12
  <2>2. old[i].obj \in DOMAIN rd.objs
    BY <1>3, <2>1 DEF Stacked, LevelAt, old
  <2>3. old[i].obj \in 1 .. id - 1
    BY <1>3, <2>2 DEF id
  <2> QED BY <1>10, <1>12, <2>3
<1>13. Rising(stack)
  <2> SUFFICES ASSUME NEW i \in 1 .. d, NEW j \in 1 .. d, i < j PROVE stack[i].obj < stack[j].obj
    <3>1. Len(stack) - 1 = d
      BY <1>5, <1>10
    <3> QED BY <3>1 DEF Rising
  <2>1. i # d
    BY <1>5
  <2>2. stack[i] = old[i] /\ old[i].obj \in 1 .. id - 1
    BY <1>12, <2>1
  <2>3. CASE j = d
    <3>1. stack[j].obj = id
      BY <1>8, <1>10, <2>3
    <3> QED BY <1>6, <2>2, <3>1
  <2>4. CASE j # d
    <3>1. stack[j] = old[j]
      BY <1>12, <2>4
    <3>2. i \in 1 .. d - 1 /\ j \in 1 .. d - 1 /\ Len(old) = d
      BY <1>5, <2>1, <2>4 DEF old
    <3>3. old[i].obj < old[j].obj
      BY <1>3, <3>2 DEF Stacked, Rising
    <3> QED BY <2>2, <3>1, <3>3
  <2> QED BY <2>3, <2>4
<1>14. Stacked(stack, a.objs)
  <2>1. d + 1 <= MaxDepth + 1
    BY <1>5
  <2> QED BY <1>10, <1>11, <1>13, <2>1 DEF Stacked
<1>15. /\ new \in Readers /\ new.rstack = stack /\ new.objs = a.objs /\ new.reply = a.reply
       /\ new.buf = a.buf /\ new.pos = a.pos
  BY <1>4, <1>10 DEF Readers
<1> HIDE DEF new
<1>16. stack # <<>>
  <2>1. d + 1 # 0
    BY <1>5
  <2> QED BY <1>10, <2>1
<1> QED BY <1>4, <1>7, <1>14, <1>15, <1>16 DEF ReaderOK, a

-----------------------------------------------------------------------------
(* The reply that is handed out is not NULL.                               *)

LEMMA TreeNotNull ==
  ASSUME NEW objs \in Seq(Objects), Linked(objs), NEW root \in DOMAIN objs
  PROVE  Tree(objs, root) # NULL
<1> DEFINE m == Len(objs)
           Node(g, i) == [type |-> "array", element |-> [j \in DOMAIN objs[i].element |-> g[objs[i].element[j]]]]
           Body(g, i) == IF i = 0 THEN NULL ELSE IF objs[i].type # "array" THEN objs[i] ELSE Node(g, i)
           Def(g) == [i \in 0 .. m |-> Body(g, i)]
           Good(g, from) == /\ g = [i \in 0 .. m |-> g[i]] /\ g[0] = NULL
                            /\ \A i \in 1 .. m : i >= from => g[i] = Body(g, i)
           S == {from \in 1 .. m + 1 : \E g : Good(g, from)}
<1>1. m \in Nat /\ DOMAIN objs = 1 .. m
  BY LenProperties
<1>2. m + 1 \in S
  <2>1. PICK g : g = [i \in 0 .. m |-> NULL]
    OBVIOUS
  <2>2. g = [i \in 0 .. m |-> g[i]] /\ g[0] = NULL
    BY <1>1, <2>1
  <2>3. \A i \in 1 .. m : ~(i >= m + 1)
    BY <1>1
  <2>4. Good(g, m + 1)
    BY <2>2, <2>3
  <2> HIDE DEF Good
  <2> QED BY <1>1, <2>4
<1>3. PICK from \in S : \A k \in S : from <= k
  <2>1. S \in SUBSET Nat
    BY <1>1
  <2> HIDE DEF S
  <2> QED BY <1>2, <2>1, Least
<1>4. PICK g : Good(g, from)
  BY <1>3
<1>5. from \in 1 .. m + 1
  BY <1>3
<1>6. from = 1
  <2> SUFFICES ASSUME from # 1 PROVE FALSE
    OBVIOUS
  <2> DEFINE p == from - 1
  <2>1. p \in 1 .. m /\ p \in 1 .. m + 1 /\ p # 0 /\ from = p + 1
    BY <1>1, <1>5
  <2> HIDE DEF p
  <2> DEFINE h == [i \in 0 .. m |-> IF i = p THEN Body(g, p) ELSE g[i]]
  <2>2. h = [i \in 0 .. m |-> h[i]] /\ h[0] = NULL /\ h[p] = Body(g, p)
        /\ \A i \in 0 .. m : i # p => h[i] = g[i]
    <3> HIDE DEF Body
    <3>1. p \in 0 .. m /\ 0 \in 0 .. m
      BY <1>1, <2>1
    <3> QED BY <1>4, <2>1, <3>1
  <2> HIDE DEF h
  <2>3. ASSUME NEW i \in 1 .. m, i >= p PROVE Body(h, i) = Body(g, i)
    <3>1. CASE objs[i].type # "array"
      BY <3>1
    <3>2. CASE objs[i].type = "array"
      <4>1. ASSUME NEW j \in DOMAIN objs[i].element PROVE h[objs[i].element[j]] = g[objs[i].element[j]]
        <5>1. objs[i].element[j] = 0 \/ objs[i].element[j] \in i + 1 .. m
          BY <1>1, <3>2 DEF Linked
        <5>2. objs[i].element[j] \in 0 .. m /\ objs[i].element[j] # p
          BY <1>1, <2>1, <2>3, <5>1
        <5> QED BY <2>2, <5>2
      <4>2. Node(h, i) = Node(g, i)
        BY <4>1
      <4> QED BY <3>2, <4>2
    <3> QED BY <3>1, <3>2
  <2>4. ASSUME NEW i \in 1 .. m, i >= p PROVE h[i] = Body(h, i)
    <3>1. Body(h, i) = Body(g, i)
      BY <2>3, <2>4
    <3>2. CASE i = p
      <4> HIDE DEF Body
      <4> QED BY <2>2, <3>1, <3>2
    <3>3. CASE i # p
      <4>1. g[i] = Body(g, i)
        <5>1. i >= from
          BY <2>1, <2>4, <3>3
        <5> HIDE DEF Body
        <5> QED BY <1>4, <5>1
      <4>2. h[i] = g[i]
        <5>1. i \in 0 .. m
          BY <1>1
        <5> QED BY <2>2, <3>3, <5>1
      <4> HIDE DEF Body
      <4> QED BY <3>1, <4>1, <4>2
    <3> QED BY <3>2, <3>3
  <2>5. Good(h, p)
    <3> HIDE DEF Body
    <3> QED BY <2>2, <2>4
  <2> HIDE DEF Good
  <2>6. p \in S
    BY <2>1, <2>5
  <2> HIDE DEF S
  <2> QED BY <1>3, <2>1, <2>6
<1>7. g = Def(g)
  <2>1. \A i \in 0 .. m : g[i] = Body(g, i)
    <3> SUFFICES ASSUME NEW i \in 0 .. m PROVE g[i] = Body(g, i)
      OBVIOUS
    <3>1. CASE i = 0
      BY <1>4, <3>1
    <3>2. CASE i # 0
      <4>1. i \in 1 .. m /\ i >= from
        BY <1>1, <1>6, <3>2
      <4> HIDE DEF Body
      <4> QED BY <1>4, <4>1
    <3> QED BY <3>1, <3>2
  <2> HIDE DEF Body
  <2> QED BY <1>4, <2>1
<1> DEFINE T == CHOOSE f : f = Def(f)
<1>8. T = Def(T)
  <2> HIDE DEF Def
  <2> QED BY <1>7
<1>9. Tree(objs, root) = T[root]
  BY DEF Tree
<1> HIDE DEF T
<1>10. T[root] = Body(T, root) /\ root # 0
  <2>1. root \in 0 .. m /\ root # 0
    BY <1>1
  <2> HIDE DEF Body
  <2> QED BY <1>8, <2>1
<1>11. Body(T, root).type # "null"
  <2>1. objs[root] \in Objects
    BY <1>1, LenProperties
  <2>2. objs[root].type # "null"
    BY <2>1, ArrayTypes
  <2>3. CASE objs[root].type # "array"
    BY <1>10, <2>2, <2>3
  <2>4. CASE objs[root].type = "array"
    BY <1>10, <2>4
  <2> QED BY <2>3, <2>4
<1>12. NULL.type = "null"
  BY DEF NULL
<1> HIDE DEF Body
<1> QED BY <1>9, <1>10, <1>11, <1>12

-----------------------------------------------------------------------------
(* The invariant is kept.                                                  *)

LEMMA InitKeeps == Init => IInv
<1> SUFFICES ASSUME Init PROVE IInv
  OBVIOUS
<1>1. Types
  <2>1. Len(calls) \in Nat
    BY CallsAssumption DEF Init
  <2>2. <<>> \in Text
    BY DEF Text
  <2> QED BY <2>1, <2>2 DEF Init, Types, Places, NoContext, Contexts, Errors, Open
<1>2. Context
  BY DEF Init, Context, NoSocketLost, NoContext
<1>3. ReaderOK(r)
  <2>1. "0" \in Errors
    BY DEF Errors
  <2> QED BY <2>1, NewReaderOK DEF Init
<1> QED BY <1>1, <1>2, <1>3 DEF Init, IInv, Complete, NullHasReason

(* Nothing is said of a context's error but when a command returns.        *)
LEMMA Changed ==
  ASSUME NEW ctx \in Contexts, NEW e \in Errors
  PROVE  /\ [ctx EXCEPT !.err = e] \in Contexts /\ [ctx EXCEPT !.err = e].err = e
         /\ [ctx EXCEPT !.err = e].alive = ctx.alive /\ [ctx EXCEPT !.err = e].fd = ctx.fd
BY DEF Contexts

LEMMA Calling ==
  ASSUME Types, NEW k \in 1 .. Len(calls)
  PROVE  Asked(calls[k]) \subseteq Seq(Text) /\ calls[k].bytes \in Text
BY CallsAssumption DEF Types

LEMMA Appending ==
  ASSUME Types, NEW k \in 1 .. Len(calls), redisAppendCommand(k)
  PROVE  /\ c' \in Contexts /\ c'.alive = c.alive /\ c'.fd = c.fd /\ pc' \in {"reply", "return"}
         /\ pc' = "return" => c'.err # "0"
<1>1. c \in Contexts /\ "OTHER" \in Errors /\ "OOM" \in Errors
  BY DEF Types, Errors
<1>2. CASE \E argv \in Asked(calls[k]) :
             c' = [c EXCEPT !.obuf = @ \o Protocol(argv), !.phase = "first"] /\ pc' = "reply"
  <2>1. PICK argv \in Asked(calls[k]) :
          c' = [c EXCEPT !.obuf = @ \o Protocol(argv), !.phase = "first"] /\ pc' = "reply"
    BY <1>2
  <2>2. Protocol(argv) \in Text
    BY Calling, Fills
  <2>3. c.obuf \o Protocol(argv) \in Text
    BY <1>1, <2>2, Texts DEF Contexts
  <2> QED BY <1>1, <2>1, <2>3 DEF Contexts
<1>3. CASE c' = redisSetError("OTHER") /\ ReturnNull
  BY <1>1, <1>3, Changed DEF redisSetError, ReturnNull
<1>4. CASE c' = redisSetError("OOM") /\ ReturnNull
  BY <1>1, <1>4, Changed DEF redisSetError, ReturnNull
<1> QED BY <1>2, <1>3, <1>4 DEF redisAppendCommand

LEMMA StartCommandKeeps ==
  ASSUME IInv, StartCommand
  PROVE  IInv'
<1> USE DEF IInv
<1>1. n + 1 \in 1 .. Len(calls) /\ Len(calls) \in Nat /\ calls' = calls /\ n' = n + 1 /\ r' = r /\ sockets' = sockets
      /\ wire' = wire /\ served' = served
  BY CallsAssumption DEF StartCommand, Types
<1>2. /\ c' \in Contexts /\ c'.alive = c.alive /\ c'.fd = c.fd /\ pc' \in {"reply", "return", "resolve"}
      /\ (pc' = "resolve" <=> ~c.alive) /\ (pc' = "return" => c'.err # "0")
  <2>1. CASE c.alive /\ redisAppendCommand(n + 1)
    BY <1>1, <2>1, Appending
  <2>2. CASE ~c.alive /\ pc' = "resolve" /\ c' = c
    BY <2>2 DEF Types
  <2> QED BY <2>1, <2>2 DEF StartCommand
<1>3. Types'
  BY <1>1, <1>2 DEF Types, Places
<1>4. Context'
  BY <1>1, <1>2 DEF Context, NoSocketLost
<1>5. ReaderOK(r')
  BY <1>1
<1> QED BY <1>2, <1>3, <1>4, <1>5 DEF Complete, NullHasReason

(* redisFree leaves no socket and a context that is not alive.             *)
LEMMA Freeing ==
  ASSUME IInv, Freed
  PROVE  /\ c' \in Contexts /\ ~c'.alive /\ ReaderOK(r') /\ sockets' = {}
         /\ DOMAIN wire' = {"up", "down", "state"} /\ wire'.down \in Text
<1> USE DEF IInv
<1>1. <<>> \in Text /\ "0" \in Errors
  BY DEF Text, Errors
<1>2. c' \in Contexts /\ ~c'.alive
  BY <1>1 DEF Freed, NoContext, Contexts
<1>3. ReaderOK(r')
  BY <1>1, NewReaderOK DEF Freed
<1>4. sockets' = {}
  BY DEF Freed, Context, NoSocketLost
<1> QED BY <1>1, <1>2, <1>3, <1>4 DEF Freed, Open

LEMMA EndCommandKeeps ==
  ASSUME IInv, EndCommand
  PROVE  IInv'
<1> USE DEF IInv
<1>1. pc' = "app" /\ calls' = calls /\ n' = n /\ served' = served
  BY DEF EndCommand
<1>2. CASE c' = c /\ r' = r /\ wire' = wire /\ sockets' = sockets
  BY <1>1, <1>2 DEF Types, Places, Context, NoSocketLost, Complete, NullHasReason
<1>3. CASE Freed
  <2>1. /\ c' \in Contexts /\ ~c'.alive /\ ReaderOK(r') /\ sockets' = {}
        /\ DOMAIN wire' = {"up", "down", "state"} /\ wire'.down \in Text
    BY <1>3, Freeing
  <2> QED BY <1>1, <2>1 DEF Types, Places, Context, NoSocketLost, Complete, NullHasReason
<1> QED BY <1>2, <1>3 DEF EndCommand

LEMMA ConnectFailedKeeps ==
  ASSUME IInv, ConnectFailed
  PROVE  IInv'
<1> USE DEF IInv
<1>1. pc = "failed" /\ pc' = "return" /\ calls' = calls /\ n' = n /\ served' = served /\ Freed
  BY DEF ConnectFailed, ReturnNull
<1>2. /\ c' \in Contexts /\ ~c'.alive /\ ReaderOK(r') /\ sockets' = {}
      /\ DOMAIN wire' = {"up", "down", "state"} /\ wire'.down \in Text
  BY <1>1, Freeing
<1> QED BY <1>1, <1>2 DEF Types, Places, Context, NoSocketLost, Complete, NullHasReason

LEMMA ResolveKeeps ==
  ASSUME IInv, Resolve
  PROVE  IInv'
<1> USE DEF IInv
<1> DEFINE fresh == [NoContext EXCEPT !.alive = TRUE, !.addr = 1]
<1>1. /\ pc = "resolve" /\ calls' = calls /\ n' = n /\ served' = served /\ wire' = wire
      /\ sockets' = sockets /\ r' = NewReader
      /\ \/ pc' = "socket" /\ c' = fresh
         \/ pc' = "failed" /\ c' = [fresh EXCEPT !.err = "OTHER"]
  BY DEF Resolve, ConnectError
<1>2. fresh \in Contexts /\ fresh.alive /\ fresh.fd = 0 /\ "OTHER" \in Errors
  <2>1. <<>> \in Text
    BY DEF Text
  <2>2. NoContext \in Contexts /\ NoContext.fd = 0
    BY <2>1 DEF NoContext, Contexts, Errors
  <2>3. PICK ctx : ctx = [NoContext EXCEPT !.alive = TRUE]
    OBVIOUS
  <2>4. ctx \in Contexts /\ ctx.alive /\ ctx.fd = 0
    BY <2>2, <2>3 DEF Contexts
  <2>5. fresh = [ctx EXCEPT !.addr = 1]
    BY <2>3
  <2> HIDE DEF fresh
  <2> QED BY <2>4, <2>5 DEF Contexts, Errors
<1> HIDE DEF fresh
<1>3. c' \in Contexts /\ c'.alive /\ c'.fd = 0 /\ pc' \in {"socket", "failed"}
  <2>1. PICK failed : failed = [fresh EXCEPT !.err = "OTHER"]
    OBVIOUS
  <2>2. failed \in Contexts /\ failed.alive /\ failed.fd = 0
    BY <1>2, <2>1 DEF Contexts
  <2>3. CASE pc' = "socket" /\ c' = fresh
    BY <1>2, <2>3
  <2>4. CASE pc' = "failed" /\ c' = failed
    BY <2>2, <2>4
  <2> QED BY <1>1, <2>1, <2>3, <2>4
<1>4. sockets = {}
  BY <1>1 DEF Context, NoSocketLost
<1>5. ReaderOK(r')
  <2>1. "0" \in Errors
    BY DEF Errors
  <2> QED BY <1>1, <2>1, NewReaderOK
<1>6. Types'
  BY <1>1, <1>3 DEF Types, Places
<1>7. Context'
  BY <1>1, <1>3, <1>4 DEF Context, NoSocketLost
<1> QED BY <1>3, <1>5, <1>6, <1>7 DEF Complete, NullHasReason

(* A step of connecting, once it is known what becomes of the context and  *)
(* of the sockets.                                                         *)
ConnectStep ==
  /\ c' \in Contexts /\ c'.alive
  /\ sockets' = IF c'.fd > 0 THEN {c'.fd} ELSE {}
  /\ pc' \in {"socket", "connect", "wait", "ready", "failed"}
  /\ pc' = "socket" => c'.fd <= 0

LEMMA Connected ==
  ASSUME IInv, pc # "app", Connecting, wire' = wire, ConnectStep
  PROVE  IInv'
<1> USE DEF IInv
<1>1. calls' = calls /\ n' = n /\ r' = r /\ served' = served
  BY DEF Connecting
<1>2. Types'
  BY <1>1 DEF Types, Places, ConnectStep
<1>3. Context'
  BY DEF Context, NoSocketLost, ConnectStep
<1> QED BY <1>1, <1>2, <1>3 DEF Complete, NullHasReason, ConnectStep

LEMMA WithContext ==
  ASSUME IInv, pc \in {"socket", "connect", "wait", "ready"}
  PROVE  /\ c \in Contexts /\ c.alive /\ c.fd \in Int /\ c.addr \in Int
         /\ sockets = (IF c.fd > 0 THEN {c.fd} ELSE {}) /\ sockets \ {c.fd} = {}
         /\ Closed \in Contexts /\ Closed.alive /\ Closed.fd = -1
         /\ "OTHER" \in Errors /\ "IO" \in Errors /\ pc # "app"
<1> USE DEF IInv
<1>1. c \in Contexts /\ c.fd \in Int /\ c.addr \in Int
  BY DEF Types, Contexts
<1>2. c.alive
  BY DEF Context
<1>3. sockets = (IF c.fd > 0 THEN {c.fd} ELSE {}) /\ sockets \ {c.fd} = {}
  BY <1>2 DEF Context, NoSocketLost
<1>4. Closed \in Contexts /\ Closed.alive /\ Closed.fd = -1
  BY <1>1, <1>2 DEF Closed, Contexts
<1> QED BY <1>1, <1>2, <1>3, <1>4 DEF Errors

(* An attempt ends: the context keeps its socket, or has been closed.      *)
LEMMA AttemptEnds ==
  ASSUME IInv, pc \in {"socket", "connect", "wait", "ready"},
         NEW e \in {"OTHER", "IO"},
         \/ ConnectError(c, e) /\ sockets' = sockets
         \/ ConnectError(Closed, e) /\ sockets' = {}
  PROVE  ConnectStep
<1>1. e \in Errors
  BY DEF Errors
<1>2. CASE ConnectError(c, e) /\ sockets' = sockets
  BY <1>1, <1>2, WithContext, Changed DEF ConnectError, ConnectStep
<1>3. CASE ConnectError(Closed, e) /\ sockets' = {}
  BY <1>1, <1>3, WithContext, Changed DEF ConnectError, ConnectStep
<1> QED BY <1>2, <1>3

LEMMA SocketKeeps ==
  ASSUME IInv, Socket
  PROVE  IInv'
<1>1. pc = "socket" /\ Connecting /\ wire' = wire
  BY DEF Socket
<1> SUFFICES ConnectStep
  BY <1>1, Connected
<1>2. c.fd <= 0 /\ sockets = {} /\ sockets \ {c.fd} = {}
  BY <1>1, WithContext DEF IInv, Context
<1>3. CASE ConnectError(c, "OTHER") /\ sockets' = sockets
  BY <1>1, <1>3, AttemptEnds
<1>4. CASE pc' = pc /\ sockets' = sockets /\ c' = [c EXCEPT !.addr = @ + 1]
  <2>1. c' \in Contexts /\ c'.alive /\ c'.fd = c.fd
    BY <1>1, <1>4, WithContext DEF Contexts
  <2> QED BY <1>1, <1>2, <1>4, <2>1, WithContext DEF ConnectStep
<1>5. CASE LET s == CHOOSE f \in 1 .. 1 + Cardinality(sockets) : f \notin sockets
           IN  sockets' = sockets \cup {s} /\ pc' = "connect" /\ c' = [c EXCEPT !.fd = s]
  <2> DEFINE s == CHOOSE f \in 1 .. 1 + Cardinality(sockets) : f \notin sockets
  <2>1. Cardinality(sockets) = 0
    BY <1>2, FS_EmptySet
  <2>2. 1 \in 1 .. 1 + Cardinality(sockets) /\ 1 \notin sockets
    BY <1>2, <2>1
  <2>3. s \in 1 .. 1 + Cardinality(sockets)
    BY <2>2
  <2> HIDE DEF s
  <2>4. s \in Int /\ s > 0
    <3>1. \A m \in Int : \A x \in 1 .. m : x \in Int /\ x > 0
      OBVIOUS
    <3>2. 1 + Cardinality(sockets) \in Int
      BY <2>1
    <3> QED BY <2>3, <3>1, <3>2
  <2>5. sockets' = sockets \cup {s} /\ pc' = "connect" /\ c' = [c EXCEPT !.fd = s]
    BY <1>5 DEF s
  <2>6. c' \in Contexts /\ c'.alive /\ c'.fd = s
    BY <1>1, <2>4, <2>5, WithContext DEF Contexts
  <2> QED BY <1>2, <2>4, <2>5, <2>6 DEF ConnectStep
<1>6. CASE ConnectError(Closed, "IO") /\ sockets' = sockets
  BY <1>1, <1>2, <1>6, AttemptEnds
<1> QED BY <1>3, <1>4, <1>5, <1>6 DEF Socket

LEMMA ConnectKeeps ==
  ASSUME IInv, Connect
  PROVE  IInv'
<1>1. pc = "connect" /\ Connecting /\ wire' = wire
  BY DEF Connect
<1> SUFFICES ConnectStep
  BY <1>1, Connected
<1>2. CASE pc' \in {"wait", "ready"} /\ c' = c /\ sockets' = sockets
  BY <1>1, <1>2, WithContext DEF ConnectStep
<1>3. CASE NextAddress
  <2>1. pc' = "socket" /\ c' = [Closed EXCEPT !.addr = @ + 1] /\ sockets' = {}
    BY <1>1, <1>3, WithContext DEF NextAddress, redisContextCloseFd
  <2>2. c' \in Contexts /\ c'.alive /\ c'.fd = -1
    BY <1>1, <2>1, WithContext DEF Contexts
  <2> QED BY <2>1, <2>2 DEF ConnectStep
<1>4. CASE ConnectError(Closed, "IO") /\ redisContextCloseFd
  <2>1. sockets' = {}
    BY <1>1, <1>4, WithContext DEF redisContextCloseFd
  <2> QED BY <1>1, <1>4, <2>1, AttemptEnds
<1> QED BY <1>2, <1>3, <1>4 DEF Connect

LEMMA WaitReadyKeeps ==
  ASSUME IInv, WaitReady
  PROVE  IInv'
<1>1. pc = "wait" /\ Connecting /\ wire' = wire
  BY DEF WaitReady
<1> SUFFICES ConnectStep
  BY <1>1, Connected
<1>2. CASE pc' = "ready" /\ c' = c /\ sockets' = sockets
  BY <1>1, <1>2, WithContext DEF ConnectStep
<1>3. CASE ConnectError(Closed, "IO") /\ redisContextCloseFd
  <2>1. sockets' = {}
    BY <1>1, <1>3, WithContext DEF redisContextCloseFd
  <2> QED BY <1>1, <1>3, <2>1, AttemptEnds
<1>4. CASE ConnectError(c, "IO") /\ sockets' = sockets
  BY <1>1, <1>4, AttemptEnds
<1> QED BY <1>2, <1>3, <1>4 DEF WaitReady

LEMMA ReadyKeeps ==
  ASSUME IInv, Ready
  PROVE  IInv'
<1>1. pc = "ready" /\ calls' = calls /\ n' = n /\ r' = r
  BY DEF Ready
<1>2. n \in 1 .. Len(calls) /\ n - 1 \in Nat
  <2>1. Len(calls) \in Nat
    BY CallsAssumption DEF IInv, Types
  <2> QED BY <1>1, <2>1 DEF IInv, Types
<1>3. CASE /\ wire' = Open /\ served' = [nth |-> n - 1, argv |-> <<>>]
           /\ redisAppendCommand(n) /\ sockets' = sockets
  <2>1. /\ c' \in Contexts /\ c'.alive = c.alive /\ c'.fd = c.fd /\ pc' \in {"reply", "return"}
        /\ pc' = "return" => c'.err # "0"
    BY <1>2, <1>3, Appending DEF IInv
  <2>2. DOMAIN wire' = {"up", "down", "state"} /\ wire'.down \in Text /\ served'.nth \in Nat
    BY <1>2, <1>3 DEF Open, Text
  <2>3. Types'
    BY <1>1, <1>2, <2>1, <2>2 DEF IInv, Types, Places
  <2>4. Context'
    BY <1>1, <1>3, <2>1 DEF IInv, Context, NoSocketLost
  <2> QED BY <1>1, <2>1, <2>3, <2>4 DEF IInv, Complete, NullHasReason
<1>4. CASE /\ ConnectError(Closed, "IO") /\ redisContextCloseFd
           /\ UNCHANGED <<wire, served, answer>>
  <2>1. sockets' = {}
    BY <1>1, <1>4, WithContext DEF redisContextCloseFd
  <2>2. ConnectStep
    BY <1>1, <1>4, <2>1, AttemptEnds
  <2> QED BY <1>1, <1>4, <2>2, Connected DEF Connecting
<1> QED BY <1>3, <1>4 DEF Ready

(* A step of the reader or of the buffers, once it is known what becomes   *)
(* of the reader and what is returned.                                     *)
ReplyStep ==
  /\ c' \in Contexts /\ c'.alive = c.alive /\ c'.fd = c.fd
  /\ ReaderOK(r')
  /\ pc' \in {"reply", "item", "emit", "write", "read", "return"}
  /\ pc' = "item" /\ r'.rstack = <<>> => r'.reply \in DOMAIN r'.objs
  /\ pc' = "emit" => r'.rstack # <<>>
  /\ pc' = "return" => answer' # NULL \/ c'.err # "0"

LEMMA Replying ==
  ASSUME IInv, pc \in {"reply", "item", "emit", "write", "read"}, calls' = calls, n' = n, sockets' = sockets,
         served' = served, DOMAIN wire' = {"up", "down", "state"}, wire'.down \in Text, ReplyStep
  PROVE  IInv'
<1> USE DEF IInv
<1>1. Types'
  BY DEF Types, Places, ReplyStep
<1>2. Context'
  BY DEF Context, NoSocketLost, ReplyStep
<1> QED BY <1>1, <1>2 DEF Complete, NullHasReason, ReplyStep

LEMMA Parses ==
  ASSUME IInv, pc \in {"reply", "item", "emit", "write", "read"}, Unwired, ReplyStep
  PROVE  IInv'
<1>1. DOMAIN wire = {"up", "down", "state"} /\ wire.down \in Text
  BY DEF IInv, Types
<1>2. calls' = calls /\ n' = n /\ sockets' = sockets /\ served' = served /\ wire' = wire
  BY DEF Unwired
<1> QED BY <1>1, <1>2, Replying

LEMMA ErrorStep ==
  ASSUME IInv, NEW rd, NEW e \in {"OOM", "PROTOCOL"}, ReaderError(rd, e)
  PROVE  ReplyStep
<1>1. e \in Errors /\ e # "0" /\ c \in Contexts
  BY DEF Errors, IInv, Types
<1>2. ReaderOK(r')
  BY <1>1, NewReaderOK DEF ReaderError
<1>3. c' \in Contexts /\ c'.alive = c.alive /\ c'.fd = c.fd /\ c'.err # "0" /\ pc' = "return"
  BY <1>1, Changed DEF ReaderError, ReturnNull, redisSetError
<1> QED BY <1>2, <1>3 DEF ReplyStep

LEMMA NeedMoreStep ==
  ASSUME IInv, NEW rd, ReaderOK(rd), rd.rstack # <<>>, NeedMore(rd)
  PROVE  ReplyStep
BY DEF IInv, Types, NeedMore, ReplyStep

LEMMA ItemDoneStep ==
  ASSUME IInv, NEW rd, ReaderOK(rd), rd.rstack # <<>>, NEW object, Fresh(object), ItemDone(rd, object)
  PROVE  ReplyStep
<1>1. CASE r' = Finished(rd, object) /\ pc' = "item" /\ c' = c
  BY <1>1, FinishedOK DEF IInv, Types, ReplyStep
<1>2. CASE ReaderError(rd, "OOM")
  BY <1>2, ErrorStep
<1> QED BY <1>1, <1>2 DEF ItemDone, Finished

(* A line ends within the buffer.                                          *)
LEMMA LineEnds ==
  ASSUME NEW rd, ReaderOK(rd), NEW s \in seekNewline(rd.buf, rd.pos + 1)
  PROVE  s \in Nat /\ s > rd.pos /\ s + 1 <= Len(rd.buf) /\ Line(rd, s) \in Text
<1>1. rd \in Readers /\ rd.pos \in Nat /\ Len(rd.buf) \in Nat /\ rd.buf \in Text
  BY ReaderTypes DEF ReaderOK
<1>2. s \in rd.pos + 1 .. Len(rd.buf) - 1
  BY DEF seekNewline
<1>3. s \in Nat /\ s > rd.pos /\ s + 1 <= Len(rd.buf)
  BY <1>1, <1>2
<1>4. s - 1 \in Int /\ s - 1 <= Len(rd.buf) /\ rd.pos + 1 \in Nat /\ rd.pos + 1 > 0
  BY <1>1, <1>3
<1> QED BY <1>1, <1>3, <1>4, SubTexts DEF Line

LEMMA Behind ==
  ASSUME NEW rd, ReaderOK(rd), NEW p \in Nat, p <= Len(rd.buf)
  PROVE  ReaderOK([rd EXCEPT !.pos = p]) /\ [rd EXCEPT !.pos = p].rstack = rd.rstack
<1> DEFINE new == [rd EXCEPT !.pos = p]
<1>1. /\ new \in Readers /\ new.rstack = rd.rstack /\ new.objs = rd.objs /\ new.buf = rd.buf /\ new.pos = p
      /\ new.reply = rd.reply
  BY DEF ReaderOK, Readers
<1> HIDE DEF new
<1>2. ReaderOK(new)
  BY <1>1, PlainChange
<1> QED BY <1>1, <1>2 DEF new

LEMMA GetReplyKeeps ==
  ASSUME IInv, GetReply
  PROVE  IInv'
<1>1. pc = "reply" /\ Unwired
  BY DEF GetReply
<1>2. ReaderOK(r) /\ c \in Contexts /\ r \in Readers /\ r.err \in Errors
  BY ReaderTypes DEF IInv, ReaderOK, Types
<1> SUFFICES ReplyStep
  BY <1>1, Parses
<1>3. CASE r.err # "0" /\ c' = redisSetError(r.err) /\ ReturnNull /\ r' = r
  <2>1. c' \in Contexts /\ c'.alive = c.alive /\ c'.fd = c.fd /\ c'.err # "0" /\ pc' = "return"
    BY <1>2, <1>3, Changed DEF redisSetError, ReturnNull
  <2> QED BY <1>2, <1>3, <2>1 DEF ReplyStep
<1>4. CASE NoReplyYet /\ c' = c /\ r' = r
  BY <1>2, <1>4 DEF ReplyStep, NoReplyYet
<1>5. CASE /\ pc' = "item" /\ c' = c
           /\ r' = [r EXCEPT !.rstack = IF @ = <<>> THEN <<NewTask(-1)>> ELSE @]
  <2>1. CASE r.rstack # <<>>
    <3>1. r' = r
      BY <1>2, <1>5, <2>1 DEF Readers
    <3> QED BY <1>2, <1>5, <2>1, <3>1 DEF ReplyStep
  <2>2. CASE r.rstack = <<>>
    <3> DEFINE stack == <<NewTask(-1)>>
    <3>1. stack \in Seq(Task) /\ Len(stack) = 1 /\ stack # <<>>
      <4>1. NewTask(-1) \in Task
        BY NewTasks
      <4> QED BY <4>1
    <3> HIDE DEF stack
    <3>2. r' = [r EXCEPT !.rstack = stack]
      BY <1>5, <2>2 DEF stack
    <3>3. r' \in Readers /\ r'.rstack = stack /\ r'.objs = r.objs /\ r'.pos = r.pos /\ r'.buf = r.buf /\ r'.reply = r.reply
      BY <1>2, <3>1, <3>2 DEF Readers
    <3>4. Stacked(stack, r.objs)
      <4>1. 1 <= MaxDepth + 1
        BY BoundsAssumption
      <4> QED BY <3>1, <4>1 DEF Stacked, Rising
    <3>5. ReaderOK(r')
      <4>1. r.pos <= Len(r.buf) /\ Linked(r.objs)
        BY <1>2 DEF ReaderOK
      <4>2. ~(Len(stack) > 1)
        BY <3>1
      <4> QED BY <3>3, <3>4, <4>1, <4>2 DEF ReaderOK
    <3> QED BY <1>2, <1>5, <3>1, <3>3, <3>5 DEF ReplyStep
  <2> QED BY <2>1, <2>2
<1> QED BY <1>3, <1>4, <1>5 DEF GetReply

LEMMA ItemTypeKeeps ==
  ASSUME IInv, ItemType
  PROVE  IInv'
<1>1. pc = "item" /\ Unwired /\ r.rstack # <<>> /\ ReaderOK(r)
  BY DEF ItemType, Parsing, IInv
<1> SUFFICES ReplyStep
  BY <1>1, Parses
<1>2. CASE NeedMore(r)
  BY <1>1, <1>2, NeedMoreStep
<1>3. CASE ReaderError(r, "PROTOCOL")
  BY <1>3, ErrorStep
<1> QED BY <1>2, <1>3 DEF ItemType, ProtocolError

(* The reader with the type byte taken, in the actions that parse an item. *)
LEMMA ItemStarts ==
  ASSUME IInv, NEW types, ItemOf(types)
  PROVE  /\ pc = "item" /\ ReaderOK(Typed) /\ Typed.rstack # <<>> /\ Len(Typed.rstack) = Len(r.rstack)
         /\ Last(Typed.rstack).type \in types
BY TypedOK DEF ItemOf, Parsing, IInv

LEMMA LineItemKeeps ==
  ASSUME IInv, LineItem
  PROVE  IInv'
<1>1. Unwired /\ ItemOf({"error", "status", "integer"})
  BY DEF LineItem
<1>2. PICK rd : rd = Typed
  OBVIOUS
<1>3. pc = "item" /\ ReaderOK(rd) /\ rd.rstack # <<>> /\ Last(rd.rstack).type \in {"error", "status", "integer"}
  BY <1>1, <1>2, ItemStarts
<1> SUFFICES ReplyStep
  BY <1>1, <1>3, Parses
<1> DEFINE type == Last(rd.rstack).type
           behind(s) == [rd EXCEPT !.pos = s + 1]
<1>4. CASE NeedMore(rd)
  BY <1>3, <1>4, NeedMoreStep
<1>5. ASSUME NEW s \in seekNewline(rd.buf, rd.pos + 1),
             \/ type # "integer" /\ ItemDone(behind(s), String(type, Line(rd, s)))
             \/ type = "integer" /\ \E v \in string2ll(Line(rd, s)) : ItemDone(behind(s), Integer(v))
             \/ ReaderError(r, "PROTOCOL")
      PROVE  ReplyStep
  <2>1. Line(rd, s) \in Text /\ s + 1 \in Nat /\ s + 1 <= Len(rd.buf)
    BY <1>3, LineEnds
  <2>2. ReaderOK(behind(s)) /\ behind(s).rstack # <<>>
    BY <1>3, <2>1, Behind
  <2> HIDE DEF behind
  <2>3. CASE type # "integer" /\ ItemDone(behind(s), String(type, Line(rd, s)))
    <3>1. type \in {"error", "status", "string"}
      BY <1>3, <2>3
    <3>2. Fresh(String(type, Line(rd, s)))
      BY <2>1, <3>1, FreshObjects
    <3> QED BY <2>2, <2>3, <3>2, ItemDoneStep
  <2>4. CASE \E v \in string2ll(Line(rd, s)) : ItemDone(behind(s), Integer(v))
    <3>1. PICK v \in string2ll(Line(rd, s)) : ItemDone(behind(s), Integer(v))
      BY <2>4
    <3>2. v \in Int
      BY <2>1, string2llTypes
    <3>3. Fresh(Integer(v))
      BY <2>1, <3>2, FreshObjects
    <3> QED BY <2>2, <3>1, <3>3, ItemDoneStep
  <2>5. CASE ReaderError(r, "PROTOCOL")
    BY <2>5, ErrorStep
  <2> QED BY <1>5, <2>3, <2>4, <2>5
<1> QED BY <1>2, <1>4, <1>5 DEF LineItem, ProtocolError

LEMMA BulkItemKeeps ==
  ASSUME IInv, BulkItem
  PROVE  IInv'
<1>1. Unwired /\ ItemOf({"string"})
  BY DEF BulkItem
<1>2. PICK rd : rd = Typed
  OBVIOUS
<1>3. pc = "item" /\ ReaderOK(rd) /\ rd.rstack # <<>>
  BY <1>1, <1>2, ItemStarts
<1> SUFFICES ReplyStep
  BY <1>1, <1>3, Parses
<1> DEFINE to(p) == [rd EXCEPT !.pos = p]
           Content(s, l) == String("string", SubSeq(rd.buf, s + 2, s + 1 + l))
<1>4. CASE NeedMore(rd)
  BY <1>3, <1>4, NeedMoreStep
<1>5. CASE ReaderError(r, "PROTOCOL")
  BY <1>5, ErrorStep
<1>6. ASSUME NEW s \in seekNewline(rd.buf, rd.pos + 1), NEW l \in string2ll(Line(rd, s)),
             \/ ItemDone(to(s + 1), Nil)
             \/ l >= 0 /\ s + 1 + l + 2 <= Len(rd.buf) /\ ItemDone(to(s + 1 + l + 2), Content(s, l))
      PROVE  ReplyStep
  <2>1. Line(rd, s) \in Text /\ s \in Nat /\ s + 1 \in Nat /\ s + 1 <= Len(rd.buf)
    BY <1>3, LineEnds
  <2>2. l \in Int
    BY <2>1, string2llTypes
  <2>3. CASE ItemDone(to(s + 1), Nil)
    <3>1. ReaderOK(to(s + 1)) /\ to(s + 1).rstack # <<>>
      BY <1>3, <2>1, Behind
    <3>2. Fresh(Nil)
      BY <2>1, <2>2, FreshObjects
    <3> HIDE DEF to
    <3> QED BY <2>3, <3>1, <3>2, ItemDoneStep
  <2>4. CASE l >= 0 /\ s + 1 + l + 2 <= Len(rd.buf) /\ ItemDone(to(s + 1 + l + 2), Content(s, l))
    <3> DEFINE p == s + 1 + l + 2
    <3>1. p \in Nat /\ p <= Len(rd.buf)
      BY <2>1, <2>2, <2>4
    <3>2. SubSeq(rd.buf, s + 2, s + 1 + l) \in Text
      <4>1. rd.buf \in Text /\ Len(rd.buf) \in Nat
        BY <1>3, ReaderTypes DEF ReaderOK
      <4>2. s + 2 \in Nat /\ s + 2 > 0 /\ s + 1 + l \in Int /\ s + 1 + l <= Len(rd.buf)
        BY <2>1, <2>2, <2>4, <4>1
      <4> QED BY <4>1, <4>2, SubTexts
    <3>3. Fresh(Content(s, l))
      BY <2>2, <3>2, FreshObjects
    <3>4. ItemDone(to(p), Content(s, l))
      BY <2>4
    <3> HIDE DEF p, Content
    <3>5. ReaderOK(to(p)) /\ to(p).rstack # <<>>
      BY <1>3, <3>1, Behind
    <3> HIDE DEF to
    <3> QED BY <3>3, <3>4, <3>5, ItemDoneStep
  <2> QED BY <1>6, <2>3, <2>4
<1> QED BY <1>2, <1>4, <1>5, <1>6 DEF BulkItem, ProtocolError

LEMMA MultiBulkItemKeeps ==
  ASSUME IInv, MultiBulkItem
  PROVE  IInv'
<1>1. Unwired /\ ItemOf({"array"})
  BY DEF MultiBulkItem
<1>2. PICK rd : rd = Typed
  OBVIOUS
<1>3. /\ pc = "item" /\ ReaderOK(rd) /\ rd.rstack # <<>> /\ Len(rd.rstack) = Len(r.rstack)
      /\ Last(rd.rstack).type = "array"
  <2>1. /\ pc = "item" /\ ReaderOK(rd) /\ rd.rstack # <<>> /\ Len(rd.rstack) = Len(r.rstack)
        /\ Last(rd.rstack).type \in {"array"}
    BY <1>1, <1>2, ItemStarts
  <2> QED BY <2>1
<1> SUFFICES ReplyStep
  BY <1>1, <1>3, Parses
<1> DEFINE behind(s) == [rd EXCEPT !.pos = s + 1]
<1>4. CASE NeedMore(rd)
  BY <1>3, <1>4, NeedMoreStep
<1>5. CASE ReaderError(r, "PROTOCOL")
  BY <1>5, ErrorStep
<1>6. ASSUME ~TooDeep, NEW s \in seekNewline(rd.buf, rd.pos + 1), NEW k \in string2ll(Line(rd, s)),
             \/ ItemDone(behind(s), Nil)
             \/ ItemDone(behind(s), Array(0))
             \/ /\ k \in 1 .. INT_MAX /\ pc' = pc /\ c' = c
                /\ r' = Deeper(Create(behind(s), Array(k)), ridx + 1, k)
             \/ ReaderError(behind(s), "OOM")
      PROVE  ReplyStep
  <2>1. Line(rd, s) \in Text /\ s \in Nat /\ s + 1 \in Nat /\ s + 1 <= Len(rd.buf)
    BY <1>3, LineEnds
  <2>2. k \in Int /\ 0 \in Int /\ 0 >= 0
    BY <2>1, string2llTypes
  <2>3. ReaderOK(behind(s)) /\ behind(s).rstack = rd.rstack /\ behind(s).rstack # <<>>
    BY <1>3, <2>1, Behind
  <2> HIDE DEF behind
  <2>4. CASE ItemDone(behind(s), Nil)
    <3>1. Fresh(Nil)
      BY <2>1, <2>2, FreshObjects
    <3> QED BY <2>3, <2>4, <3>1, ItemDoneStep
  <2>5. CASE ItemDone(behind(s), Array(0))
    <3>1. Fresh(Array(0))
      BY <2>1, <2>2, FreshObjects
    <3> QED BY <2>3, <2>5, <3>1, ItemDoneStep
  <2>6. CASE /\ k \in 1 .. INT_MAX /\ pc' = pc /\ c' = c
             /\ r' = Deeper(Create(behind(s), Array(k)), ridx + 1, k)
    <3>1. k \in Nat /\ k > 0
      BY <2>2, <2>6, BoundsAssumption
    <3> DEFINE d == ridx + 1
    <3>2. d = Len(behind(s).rstack) /\ d # MaxDepth + 1
      <4>1. Len(r.rstack) \in Nat /\ MaxDepth \in Nat
        BY BoundsAssumption, ReaderTypes DEF IInv, ReaderOK
      <4>2. Len(behind(s).rstack) = Len(r.rstack)
        BY <1>3, <2>3
      <4> QED BY <1>6, <4>1, <4>2 DEF TooDeep, ridx
    <3>3. behind(s).rstack[d].type = "array"
      BY <1>3, <2>3, <3>2 DEF Last
    <3> HIDE DEF d
    <3>4. ReaderOK(r') /\ r'.rstack # <<>>
      BY <2>3, <2>6, <3>1, <3>2, <3>3, DeeperOK DEF d
    <3>5. c \in Contexts
      BY DEF IInv, Types
    <3> QED BY <1>3, <2>6, <3>4, <3>5 DEF ReplyStep
  <2>7. CASE ReaderError(behind(s), "OOM")
    BY <2>7, ErrorStep
  <2> QED BY <1>6, <2>4, <2>5, <2>6, <2>7
<1> QED BY <1>2, <1>4, <1>5, <1>6 DEF MultiBulkItem, ProtocolError

LEMMA EmitKeeps ==
  ASSUME IInv, Emit
  PROVE  IInv'
<1>1. Unwired /\ c' = c /\ pc \in {"item", "emit"} /\ (pc = "emit" => r.rstack # <<>>)
      /\ (r.rstack = <<>> => r.reply \in DOMAIN r.objs) /\ ReaderOK(r) /\ c \in Contexts
  BY DEF Emit, IInv, Complete, Types
<1> SUFFICES ReplyStep
  BY <1>1, Parses
<1>2. PICK cut : cut = IF r.pos >= DiscardAt
                       THEN [r EXCEPT !.buf = SubSeq(@, r.pos + 1, Len(@)), !.pos = 0] ELSE r
  OBVIOUS
<1>3. /\ r \in Readers /\ r.buf \in Text /\ r.pos \in Nat /\ Len(r.buf) \in Nat /\ r.objs \in Seq(Objects)
      /\ Linked(r.objs)
  BY <1>1, ReaderTypes DEF ReaderOK
<1>4. ReaderOK(cut) /\ cut.rstack = r.rstack
  <2>1. CASE r.pos >= DiscardAt
    <3> DEFINE left == SubSeq(r.buf, r.pos + 1, Len(r.buf))
    <3>1. left \in Text
      BY <1>3, SubTexts
    <3> HIDE DEF left
    <3>2. PICK u : u = [r EXCEPT !.buf = left]
      OBVIOUS
    <3>3. u \in Readers /\ u.buf = left /\ u.rstack = r.rstack /\ u.objs = r.objs /\ u.reply = r.reply
      BY <1>3, <3>1, <3>2 DEF Readers
    <3>4. cut = [u EXCEPT !.pos = 0]
      BY <1>2, <2>1, <3>2 DEF left
    <3>5. /\ cut \in Readers /\ cut.pos = 0 /\ cut.buf = left /\ cut.rstack = r.rstack /\ cut.objs = r.objs
          /\ cut.reply = r.reply
      BY <3>3, <3>4 DEF Readers
    <3>6. cut.pos <= Len(cut.buf)
      <4>1. Len(left) \in Nat
        BY <3>1, Texts
      <4> QED BY <3>5, <4>1
    <3> QED BY <1>1, <3>5, <3>6, PlainChange
  <2>2. CASE ~(r.pos >= DiscardAt)
    BY <1>1, <1>2, <2>2
  <2> QED BY <2>1, <2>2
<1>5. CASE /\ r.rstack = <<>> /\ answer' = Tree(r.objs, r.reply) /\ pc' = "return"
           /\ r' = [cut EXCEPT !.reply = 0, !.objs = <<>>]
  <2>1. answer' # NULL
    BY <1>1, <1>3, <1>5, TreeNotNull
  <2>2. PICK u : u = [cut EXCEPT !.reply = 0]
    OBVIOUS
  <2>3. u \in Readers /\ u.buf = cut.buf /\ u.pos = cut.pos /\ u.rstack = cut.rstack
    BY <1>4, <2>2 DEF Readers, ReaderOK
  <2>4. r' = [u EXCEPT !.objs = <<>>]
    BY <1>5, <2>2
  <2>5. r' \in Readers /\ r'.buf = cut.buf /\ r'.pos = cut.pos /\ r'.rstack = <<>> /\ r'.objs = <<>>
    BY <1>4, <1>5, <2>3, <2>4 DEF Readers
  <2>6. ReaderOK(r')
    <3>1. Len(<<>>) = 0 /\ MaxDepth \in Nat
      BY BoundsAssumption
    <3>2. Stacked(<<>>, <<>>) /\ Linked(<<>>)
      BY <3>1 DEF Stacked, Rising, Linked
    <3>3. cut.pos <= Len(cut.buf)
      BY <1>4 DEF ReaderOK
    <3> QED BY <2>5, <3>1, <3>2, <3>3 DEF ReaderOK
  <2> QED BY <1>1, <1>5, <2>1, <2>6 DEF ReplyStep
<1>6. CASE r.rstack # <<>> /\ r' = cut /\ NoReplyYet
  BY <1>1, <1>4, <1>6 DEF ReplyStep, NoReplyYet
<1> QED BY <1>2, <1>5, <1>6 DEF Emit

LEMMA BufferWriteKeeps ==
  ASSUME IInv, BufferWrite
  PROVE  IInv'
<1>1. /\ pc = "write" /\ calls' = calls /\ n' = n /\ r' = r /\ served' = served /\ sockets' = sockets
      /\ ReaderOK(r) /\ c \in Contexts /\ DOMAIN wire = {"up", "down", "state"} /\ wire.down \in Text
  BY DEF BufferWrite, IInv, Types
<1>2. CASE c.err # "0" /\ ReturnNull /\ c' = c /\ wire' = wire
  <2>1. ReplyStep
    BY <1>1, <1>2 DEF ReplyStep, ReturnNull
  <2> QED BY <1>1, <1>2, <2>1, Replying
<1>3. ASSUME NEW k \in 1 .. Len(c.obuf), NEW left, left = SubSeq(c.obuf, k + 1, Len(c.obuf)),
             c' = [c EXCEPT !.obuf = left, !.phase = IF left = <<>> THEN "next" ELSE @],
             wire' = IF wire.state = "open" THEN [wire EXCEPT !.up = @ \o SubSeq(c.obuf, 1, k)] ELSE wire,
             pc' = IF left = <<>> THEN "read" ELSE "write"
      PROVE  IInv'
  <2>1. c.obuf \in Text /\ Len(c.obuf) \in Nat
    BY <1>1, LenProperties DEF Contexts, Text
  <2>2. left \in Text
    <3>1. k + 1 \in Nat /\ k + 1 > 0
      OBVIOUS
    <3> QED BY <1>3, <2>1, <3>1, SubTexts
  <2>3. c' \in Contexts /\ c'.alive = c.alive /\ c'.fd = c.fd
    <3>1. PICK u : u = [c EXCEPT !.obuf = left]
      OBVIOUS
    <3>2. u \in Contexts /\ u.alive = c.alive /\ u.fd = c.fd /\ u.phase = c.phase
      BY <1>1, <2>2, <3>1 DEF Contexts
    <3>3. PICK phase : phase = IF left = <<>> THEN "next" ELSE c.phase
      OBVIOUS
    <3>4. phase \in {"first", "next"}
      BY <1>1, <3>3 DEF Contexts
    <3>5. c' = [u EXCEPT !.phase = phase]
      BY <1>3, <3>1, <3>3
    <3> QED BY <3>2, <3>4, <3>5 DEF Contexts
  <2>4. ReplyStep
    BY <1>1, <1>3, <2>3 DEF ReplyStep
  <2>5. DOMAIN wire' = {"up", "down", "state"} /\ wire'.down \in Text
    BY <1>1, <1>3
  <2> QED BY <1>1, <2>4, <2>5, Replying
<1>4. CASE IoError /\ wire' = wire
  <2>1. ReplyStep
    <3>1. "IO" \in Errors
      BY DEF Errors
    <3> QED BY <1>1, <1>4, <3>1, Changed DEF ReplyStep, IoError, ReturnNull, redisSetError
  <2> QED BY <1>1, <1>4, <2>1, Replying
<1>5. CASE pc' = pc /\ c' = c /\ wire' = wire
  <2>1. ReplyStep
    BY <1>1, <1>5 DEF ReplyStep
  <2> QED BY <1>1, <1>5, <2>1, Replying
<1> QED BY <1>2, <1>3, <1>4, <1>5 DEF BufferWrite

LEMMA BufferReadKeeps ==
  ASSUME IInv, BufferRead
  PROVE  IInv'
<1>1. /\ pc = "read" /\ calls' = calls /\ n' = n /\ served' = served /\ sockets' = sockets
      /\ ReaderOK(r) /\ c \in Contexts /\ DOMAIN wire = {"up", "down", "state"} /\ wire.down \in Text
  BY DEF BufferRead, IInv, Types
<1>2. CASE c.err # "0" /\ ReturnNull /\ c' = c /\ r' = r /\ wire' = wire
  <2>1. ReplyStep
    BY <1>1, <1>2 DEF ReplyStep, ReturnNull
  <2> QED BY <1>1, <1>2, <2>1, Replying
<1>3. ASSUME NEW k \in 1 .. Len(wire.down), r' = [r EXCEPT !.buf = @ \o SubSeq(wire.down, 1, k)],
             wire' = [wire EXCEPT !.down = SubSeq(@, k + 1, Len(@))], pc' = "reply", c' = c
      PROVE  IInv'
  <2> DEFINE piece == SubSeq(wire.down, 1, k)
             buf == r.buf \o piece
  <2>1. Len(wire.down) \in Nat /\ k \in Nat /\ k <= Len(wire.down)
    <3>1. Len(wire.down) \in Nat
      BY <1>1, LenProperties DEF Text
    <3> QED BY <3>1
  <2>2. piece \in Text /\ SubSeq(wire.down, k + 1, Len(wire.down)) \in Text
    <3>1. k + 1 \in Nat /\ k + 1 > 0 /\ k \in Int /\ 1 \in Nat /\ 1 > 0
      BY <2>1
    <3> QED BY <1>1, <2>1, <3>1, SubTexts
  <2>3. DOMAIN wire' = {"up", "down", "state"} /\ wire'.down \in Text
    BY <1>1, <1>3, <2>2
  <2> HIDE DEF piece
  <2>4. r \in Readers /\ r.buf \in Text /\ r.pos \in Nat /\ r.pos <= Len(r.buf)
    BY <1>1, ReaderTypes DEF ReaderOK
  <2>5. buf \in Text /\ Len(buf) = Len(r.buf) + Len(piece) /\ Len(r.buf) \in Nat /\ Len(piece) \in Nat
    BY <2>2, <2>4, Texts
  <2>6. r' = [r EXCEPT !.buf = buf]
    BY <1>3 DEF piece
  <2> HIDE DEF buf
  <2>7. /\ r' \in Readers /\ r'.buf = buf /\ r'.pos = r.pos /\ r'.rstack = r.rstack /\ r'.objs = r.objs
        /\ r'.reply = r.reply
    BY <2>4, <2>5, <2>6 DEF Readers
  <2>8. r'.pos <= Len(r'.buf)
    BY <2>4, <2>5, <2>7
  <2>9. ReaderOK(r')
    BY <1>1, <2>7, <2>8, PlainChange
  <2>10. ReplyStep
    BY <1>1, <1>3, <2>9 DEF ReplyStep
  <2> QED BY <1>1, <2>3, <2>10, Replying
<1>4. CASE c' = redisSetError("EOF") /\ ReturnNull /\ r' = r /\ wire' = wire
  <2>1. ReplyStep
    <3>1. "EOF" \in Errors
      BY DEF Errors
    <3> QED BY <1>1, <1>4, <3>1, Changed DEF ReplyStep, ReturnNull, redisSetError
  <2> QED BY <1>1, <1>4, <2>1, Replying
<1>5. CASE IoError /\ r' = r /\ wire' = wire
  <2>1. ReplyStep
    <3>1. "IO" \in Errors
      BY DEF Errors
    <3> QED BY <1>1, <1>5, <3>1, Changed DEF ReplyStep, IoError, ReturnNull, redisSetError
  <2> QED BY <1>1, <1>5, <2>1, Replying
<1>6. CASE pc' = "reply" /\ c' = c /\ r' = r /\ wire' = wire
  <2>1. ReplyStep
    BY <1>1, <1>6 DEF ReplyStep
  <2> QED BY <1>1, <1>6, <2>1, Replying
<1> QED BY <1>2, <1>3, <1>4, <1>5, <1>6 DEF BufferRead

LEMMA ExecuteKeeps ==
  ASSUME IInv, Execute
  PROVE  IInv'
<1> USE DEF IInv
<1>1. PICK command \in FirstCommand(wire.up) :
        /\ served' = [nth |-> served.nth + 1, argv |-> command.argv]
        /\ wire' = [wire EXCEPT !.up = command.rest, !.down = @ \o calls[served.nth + 1].bytes]
  BY DEF Execute
<1>2. /\ calls' = calls /\ n' = n /\ pc' = pc /\ c' = c /\ r' = r /\ answer' = answer /\ sockets' = sockets
      /\ served.nth < Len(calls) /\ Len(calls) \in Nat /\ served.nth \in Nat
      /\ DOMAIN wire = {"up", "down", "state"} /\ wire.down \in Text
  BY CallsAssumption DEF Execute, Types
<1>3. served.nth + 1 \in 1 .. Len(calls) /\ served.nth + 1 \in Nat
  BY <1>2
<1>4. calls[served.nth + 1].bytes \in Text
  BY <1>3, Calling
<1>5. wire.down \o calls[served.nth + 1].bytes \in Text
  BY <1>2, <1>4, Texts
<1>6. DOMAIN wire' = {"up", "down", "state"} /\ wire'.down \in Text /\ served'.nth \in Nat
  BY <1>1, <1>2, <1>3, <1>5
<1>7. Types'
  BY <1>2, <1>6 DEF Types
<1> QED BY <1>2, <1>7 DEF Context, NoSocketLost, Complete, NullHasReason

LEMMA LostKeeps ==
  ASSUME IInv, Lost
  PROVE  IInv'
<1> USE DEF IInv
<1>1. /\ calls' = calls /\ n' = n /\ pc' = pc /\ c' = c /\ r' = r /\ answer' = answer /\ sockets' = sockets
      /\ served' = served /\ DOMAIN wire = {"up", "down", "state"} /\ wire.down \in Text
      /\ wire' \in {[wire EXCEPT !.state = "closed", !.up = <<>>], [Open EXCEPT !.state = "reset"]}
  BY DEF Lost, Types
<1>2. DOMAIN wire' = {"up", "down", "state"} /\ wire'.down \in Text
  <2>1. <<>> \in Text
    BY DEF Text
  <2> QED BY <1>1, <2>1 DEF Open
<1>3. Types'
  BY <1>1, <1>2 DEF Types
<1> QED BY <1>1, <1>3 DEF Context, NoSocketLost, Complete, NullHasReason

LEMMA StepKeeps == IInv /\ [Next]_vars => IInv'
<1> SUFFICES ASSUME IInv, [Next]_vars PROVE IInv'
  OBVIOUS
<1>1. CASE UNCHANGED vars
  BY <1>1 DEF vars, IInv, Types, Context, NoSocketLost, Complete, NullHasReason
<1>2. CASE Command
  <2>1. CASE StartCommand \/ EndCommand \/ Resolve \/ Socket \/ Connect \/ WaitReady \/ Ready \/ ConnectFailed
    BY <2>1, StartCommandKeeps, EndCommandKeeps, ResolveKeeps, SocketKeeps, ConnectKeeps, WaitReadyKeeps,
       ReadyKeeps, ConnectFailedKeeps
  <2>2. CASE GetReply \/ ItemType \/ LineItem \/ BulkItem \/ MultiBulkItem \/ Emit \/ BufferWrite \/ BufferRead
    BY <2>2, GetReplyKeeps, ItemTypeKeeps, LineItemKeeps, BulkItemKeeps, MultiBulkItemKeeps, EmitKeeps,
       BufferWriteKeeps, BufferReadKeeps
  <2> QED BY <1>2, <2>1, <2>2 DEF Command
<1>3. CASE Execute
  BY <1>3, ExecuteKeeps
<1>4. CASE Lost
  BY <1>4, LostKeeps
<1> QED BY <1>1, <1>2, <1>3, <1>4 DEF Next

LEMMA Invariance == Spec => []IInv
<1>1. Init => IInv
  BY InitKeeps
<1>2. IInv /\ [Next]_vars => IInv'
  BY StepKeeps
<1> QED BY <1>1, <1>2, PTL DEF Spec

-----------------------------------------------------------------------------
(* The library keeps no socket but the one of its context: whichever of    *)
(* socket, fcntl, connect, poll and setsockopt fails, for whichever of the *)
(* addresses, the descriptor is closed before the next one is opened or    *)
(* the context is given up (net.c, redisFree).                             *)
THEOREM SocketsKept == Spec => []NoSocketLost
<1>1. IInv => NoSocketLost
  BY DEF IInv, Context
<1> QED BY <1>1, Invariance, PTL

(* The assertions of read.c and of hiredis.c hold: a command fills exactly *)
(* the memory counted for it, whatever its arguments; and whatever bytes   *)
(* come as replies, the task stack stays within rstack and the elements of *)
(* every array that is being read are stored in order, each in its slot.   *)
THEOREM AssertionsHold == Spec => []ReaderAssertions
<1>1. ASSUME IInv PROVE ReaderAssertions
  <2>1. ReaderOK(r) /\ Types /\ r.pos <= Len(r.buf) /\ Stacked(r.rstack, r.objs) /\ Len(r.rstack) \in Nat /\ MaxDepth \in Nat
    BY <1>1, BoundsAssumption, ReaderTypes DEF IInv, ReaderOK
  <2>2. ASSUME pc = "write", NEW argv \in Asked(calls[n]) PROVE Len(Protocol(argv)) = totlen(argv)
    <3>1. n \in 1 .. Len(calls)
      <4>1. Len(calls) \in Nat
        BY <2>1, CallsAssumption DEF Types
      <4> QED BY <2>1, <2>2, <4>1 DEF Types
    <3>2. argv \in Seq(Text)
      BY <2>1, <3>1, Calling
    <3> QED BY <3>2, Fills
  <2>3. ridx <= MaxDepth
    BY <2>1 DEF Stacked, ridx
  <2>4. ASSUME NEW i \in 2 .. Len(r.rstack) PROVE LevelAt(r.rstack, r.objs, i, i < Len(r.rstack))
    BY <2>1 DEF Stacked
  <2> QED BY <2>1, <2>2, <2>3, <2>4 DEF ReaderAssertions, LevelAt
<1>2. IInv => ReaderAssertions
  BY <1>1
<1> QED BY <1>2, Invariance, PTL

(* The first half of the promise of __redisBlockForReply's comment, "the   *)
(* error field in the context will be set when NULL is returned": a NULL   *)
(* that redisCommand returns on a context is never without an error, so    *)
(* that an array or a nil can not be taken for a failure.                  *)
THEOREM NullHasAReason == Spec => []NullHasReason
<1>1. IInv => NullHasReason
  BY DEF IInv
<1> QED BY <1>1, Invariance, PTL

-----------------------------------------------------------------------------
(* What Redis makes of the bytes of a command: texts that are cut and put  *)
(* together.                                                               *)

LEMMA Indexed ==
  ASSUME NEW a, a \in Text
  PROVE  /\ Len(a) \in Nat /\ DOMAIN a = 1 .. Len(a)
         /\ \A i \in 1 .. Len(a) : a[i] \in Symbols
         /\ a = <<>> <=> Len(a) = 0
BY LenProperties, EmptySeq DEF Text

LEMMA JoinedAt ==
  ASSUME NEW a, a \in Text, NEW b, b \in Text
  PROVE  /\ \A i \in 1 .. Len(a) : (a \o b)[i] = a[i]
         /\ \A i \in 1 .. Len(b) : (a \o b)[Len(a) + i] = b[i]
<1>1. Len(a) \in Nat /\ Len(b) \in Nat
  BY Indexed
<1>2. \A i \in 1 .. Len(a) + Len(b) : (a \o b)[i] = IF i <= Len(a) THEN a[i] ELSE b[i - Len(a)]
  BY ConcatProperties DEF Text
<1> QED BY <1>1, <1>2

Joins(s, a, b) == a \in Text /\ b \in Text /\ s = a \o b

LEMMA JoinedIs ==
  ASSUME NEW s, NEW a, NEW b, Joins(s, a, b)
  PROVE  /\ s \in Text /\ Len(s) = Len(a) + Len(b) /\ Len(a) \in Nat /\ Len(b) \in Nat
         /\ \A i \in 1 .. Len(a) : s[i] = a[i]
         /\ \A i \in 1 .. Len(b) : s[Len(a) + i] = b[i]
BY Joined, JoinedAt, Indexed DEF Joins

LEMMA Equal ==
  ASSUME NEW a, a \in Text, NEW b, b \in Text, Len(a) = Len(b), \A i \in 1 .. Len(a) : a[i] = b[i]
  PROVE  a = b
BY SeqEqual DEF Text

(* A part of a text.                                                       *)
LEMMA Part ==
  ASSUME NEW a, a \in Text, NEW i \in Nat \ {0}, NEW k \in Nat, k <= Len(a)
  PROVE  /\ SubSeq(a, i, k) \in Text
         /\ Len(SubSeq(a, i, k)) = IF i <= k THEN k - i + 1 ELSE 0
         /\ \A j \in 1 .. k - i + 1 : SubSeq(a, i, k)[j] = a[i + j - 1]
<1>1. \A j \in i .. k : a[j] \in Symbols
  BY Indexed
<1> QED BY <1>1, SubSeqProperties DEF Text

IsPart(s, a, i, k) ==
  /\ a \in Text /\ i \in Nat \ {0} /\ k \in Nat /\ k <= Len(a) /\ i <= k + 1
  /\ s = SubSeq(a, i, k)

PartFacts(s, a, i, k) ==
  /\ s \in Text /\ Len(s) = k - i + 1
  /\ \A j \in 1 .. k - i + 1 : s[j] = a[i + j - 1]

LEMMA PartIs ==
  ASSUME NEW s, NEW a, NEW i, NEW k, IsPart(s, a, i, k)
  PROVE  PartFacts(s, a, i, k)
<1> USE DEF IsPart
<1>1. Len(s) = IF i <= k THEN k - i + 1 ELSE 0
  BY Part
<1> QED BY <1>1, Part DEF PartFacts

LEMMA Halves ==
  ASSUME NEW a, a \in Text, NEW b, b \in Text
  PROVE  /\ SubSeq(a \o b, 1, Len(a)) = a
         /\ SubSeq(a \o b, Len(a) + 1, Len(a \o b)) = b
<1>1. Len(a) \in Nat /\ Len(b) \in Nat
  BY Indexed
<1> DEFINE ab == a \o b
<1>2. ab \in Text /\ Len(ab) = Len(a) + Len(b)
  BY Joined
<1>3. /\ \A i \in 1 .. Len(a) : ab[i] = a[i]
      /\ \A i \in 1 .. Len(b) : ab[Len(a) + i] = b[i]
  BY JoinedAt
<1> HIDE DEF ab
<1>4. SubSeq(ab, 1, Len(a)) = a
  <2>1. Len(a) <= Len(ab) /\ Len(a) - 1 + 1 = Len(a)
    BY <1>1, <1>2
  <2>2. /\ SubSeq(ab, 1, Len(a)) \in Text
        /\ Len(SubSeq(ab, 1, Len(a))) = IF 1 <= Len(a) THEN Len(a) - 1 + 1 ELSE 0
        /\ \A j \in 1 .. Len(a) - 1 + 1 : SubSeq(ab, 1, Len(a))[j] = ab[1 + j - 1]
    BY <1>1, <1>2, <2>1, Part
  <2>3. Len(SubSeq(ab, 1, Len(a))) = Len(a) /\ \A j \in 1 .. Len(a) : SubSeq(ab, 1, Len(a))[j] = ab[j]
    BY <1>1, <2>2
  <2> QED BY <1>3, <2>2, <2>3, Equal
<1>5. SubSeq(ab, Len(a) + 1, Len(ab)) = b
  <2>1. Len(a) + 1 \in Nat \ {0} /\ Len(ab) \in Nat /\ Len(ab) - (Len(a) + 1) + 1 = Len(b)
    BY <1>1, <1>2
  <2> DEFINE t == SubSeq(ab, Len(a) + 1, Len(ab))
  <2>2. /\ t \in Text
        /\ Len(t) = IF Len(a) + 1 <= Len(ab) THEN Len(ab) - (Len(a) + 1) + 1 ELSE 0
        /\ \A j \in 1 .. Len(ab) - (Len(a) + 1) + 1 : t[j] = ab[Len(a) + 1 + j - 1]
    BY <1>2, <2>1, Part
  <2> HIDE DEF t
  <2>3. Len(t) = Len(b) /\ \A j \in 1 .. Len(b) : t[j] = ab[Len(a) + j]
    <3>1. Len(t) = Len(b)
      BY <1>1, <1>2, <2>1, <2>2
    <3>2. ASSUME NEW j \in 1 .. Len(b)
          PROVE  t[j] = ab[Len(a) + j]
      <4>1. t[j] = ab[Len(a) + 1 + j - 1]
        BY <2>1, <2>2
      <4>2. Len(a) + 1 + j - 1 = Len(a) + j
        BY <1>1
      <4> QED BY <4>1, <4>2
    <3> QED BY <3>1, <3>2
  <2> QED BY <1>3, <2>2, <2>3, Equal DEF t
<1> QED BY <1>4, <1>5 DEF ab

LEMMA Regroup ==
  ASSUME NEW a, a \in Text, NEW b, b \in Text, NEW d, d \in Text
  PROVE  (a \o b) \o d = a \o (b \o d)
BY ConcatAssociative DEF Text

AreTexts(a, b, d) == a \in Text /\ b \in Text /\ d \in Text
Regrouped(a, b, d) == (a \o b) \o d = a \o (b \o d)

LEMMA Regrouping ==
  ASSUME NEW a, NEW b, NEW d, AreTexts(a, b, d)
  PROVE  Regrouped(a, b, d)
BY Regroup DEF AreTexts, Regrouped

LEMMA CancelLeft ==
  ASSUME NEW a, a \in Text, NEW b, b \in Text, NEW d, d \in Text, a \o b = a \o d
  PROVE  b = d
BY ConcatSimplifications DEF Text

(* A text cut in two ways: the longer first piece begins with the shorter. *)
TwoCuts(p, q, a, b) == p \in Text /\ q \in Text /\ a \in Text /\ b \in Text /\ p \o q = a \o b
Continues(p, q, a, b) == \E t \in Text : p = a \o t /\ t \o q = b

LEMMA Cut ==
  ASSUME NEW p, NEW q, NEW a, NEW b, TwoCuts(p, q, a, b), Len(a) <= Len(p)
  PROVE  Continues(p, q, a, b)
<1>0. a \in Text /\ b \in Text /\ p \in Text /\ q \in Text /\ p \o q = a \o b
  BY DEF TwoCuts
<1>1. Len(a) \in Nat /\ Len(p) \in Nat
  BY <1>0, Indexed
<1> DEFINE t == SubSeq(p, Len(a) + 1, Len(p))
<1>2. Len(a) + 1 \in Nat \ {0}
  BY <1>0, <1>1
<1>3. t \in Text /\ Len(t) = Len(p) - Len(a) /\ \A j \in 1 .. Len(t) : t[j] = p[Len(a) + j]
  BY <1>0, <1>1, <1>2, Part
<1> HIDE DEF t
<1>4. a \o t \in Text /\ Len(a \o t) = Len(p)
  BY <1>0, <1>1, <1>3, Joined
<1>5. ASSUME NEW i \in 1 .. Len(p) PROVE p[i] = (a \o t)[i]
  <2>1. CASE i <= Len(a)
    <3>1. i \in 1 .. Len(a)
      BY <1>0, <1>1, <2>1
    <3>2. p[i] = (p \o q)[i] /\ a[i] = (a \o b)[i] /\ a[i] = (a \o t)[i]
      BY <1>0, <1>3, <1>5, <3>1, JoinedAt
    <3> QED BY <1>0, <3>2
  <2>2. CASE i > Len(a)
    <3>1. i - Len(a) \in 1 .. Len(t) /\ i = Len(a) + (i - Len(a))
      BY <1>0, <1>1, <1>3, <1>5, <2>2
    <3> QED BY <1>0, <1>3, <3>1, JoinedAt
  <2>3. i <= Len(a) \/ i > Len(a)
    BY <1>0, <1>1
  <2> QED BY <1>0, <2>1, <2>2, <2>3, Zenon
<1>6. p = a \o t
  BY <1>0, <1>4, <1>5, Equal
<1>7. t \o q \in Text /\ (a \o t) \o q = a \o (t \o q)
  <2>1. a \in Text /\ t \in Text /\ q \in Text
    BY <1>0, <1>3
  <2> QED BY <2>1, Joined, Regroup
<1>8. a \o (t \o q) = a \o b
  BY <1>0, <1>6, <1>7
<1> QED BY <1>0, <1>3, <1>6, <1>7, <1>8, CancelLeft DEF Continues

(* Digits and the numbers they stand for.                                  *)
NumberIs(g, digits) ==
  /\ g[0] = 0
  /\ \A i \in 1 .. Len(digits) : g[i] = 10 * g[i - 1] + Value[digits[i]]

LEMMA DigitsAre ==
  /\ \A d \in 0 .. 9 : Numerals[d + 1] \in DOMAIN Value /\ Value[Numerals[d + 1]] = d
  /\ "CR" \notin DOMAIN Value /\ DOMAIN Value \subseteq Symbols
<1>1. DOMAIN Value = ToSet(Numerals)
  BY DEF Value
<1>2. DOMAIN Numerals = 1 .. 10
  BY DEF Numerals
<1>3. ASSUME NEW d \in 0 .. 9
      PROVE  Numerals[d + 1] \in DOMAIN Value /\ Value[Numerals[d + 1]] = d
  <2>1. d + 1 \in 1 .. 10
    OBVIOUS
  <2>2. Numerals[d + 1] \in ToSet(Numerals)
    BY <1>2, <2>1 DEF ToSet
  <2>3. Value[Numerals[d + 1]] = (CHOOSE i \in 1 .. 10 : Numerals[i] = Numerals[d + 1]) - 1
    BY <2>2 DEF Value
  <2>4. \A i \in 1 .. 10 : Numerals[i] = Numerals[d + 1] <=> i = d + 1
    BY <2>1 DEF Numerals
  <2>5. (CHOOSE i \in 1 .. 10 : Numerals[i] = Numerals[d + 1]) = d + 1
    BY <2>1, <2>4
  <2>6. Value[Numerals[d + 1]] = d
    <3>1. Value[Numerals[d + 1]] = (d + 1) - 1
      BY <2>3, <2>5, Zenon
    <3> QED BY <3>1
  <2> QED BY <1>1, <2>2, <2>6, Zenon
<1>4. "CR" \notin ToSet(Numerals)
  BY <1>2 DEF ToSet, Numerals
<1> QED BY <1>1, <1>3, <1>4, SymbolsAssumption

LEMMA NumberUnfolds ==
  ASSUME NEW digits, digits \in Text, \A i \in 1 .. Len(digits) : digits[i] \in DOMAIN Value
  PROVE  \E g : NumberIs(g, digits) /\ NumberOf(digits) = g[Len(digits)] /\ NumberOf(digits) \in Nat
<1> DEFINE m == Len(digits)
           Turn == [p \in (1 .. m) \X Nat |-> 10 * p[2] + Value[digits[p[1]]]]
           Def(g) == [i \in 0 .. m |-> IF i = 0 THEN 0 ELSE 10 * g[i - 1] + Value[digits[i]]]
<1>1. m \in Nat /\ \A i \in 1 .. m : Value[digits[i]] \in Nat
  BY Indexed, ValueTypes
<1>2. Turn \in [(1 .. m) \X Nat -> Nat]
  <2>1. ASSUME NEW p \in (1 .. m) \X Nat PROVE 10 * p[2] + Value[digits[p[1]]] \in Nat
    <3>1. p[1] \in 1 .. m /\ p[2] \in Nat
      OBVIOUS
    <3>2. Value[digits[p[1]]] \in Nat
      BY <1>1, <3>1
    <3> QED BY <3>1, <3>2
  <2> QED BY <2>1
<1>3. \A j \in 1 .. m, t \in Nat : Turn[<<j, t>>] = 10 * t + Value[digits[j]]
  OBVIOUS
<1> HIDE DEF Turn, m
<1>4. PICK f : LoopIs(f, Nat, m, 0, Turn)
  <2>1. 0 \in Nat
    OBVIOUS
  <2> QED BY <1>1, <1>2, <2>1, Loop
<1>5. f = Def(f)
  <2>1. ASSUME NEW j \in 0 .. m
        PROVE  f[j] = IF j = 0 THEN 0 ELSE 10 * f[j - 1] + Value[digits[j]]
    <3>1. CASE j = 0
      BY <1>4, <3>1 DEF LoopIs
    <3>2. CASE j # 0
      <4>1. j \in 1 .. m /\ j - 1 \in 0 .. m
        BY <1>1, <3>2
      <4>2. f[j - 1] \in Nat /\ f[j] = Turn[<<j, f[j - 1]>>]
        BY <1>4, <4>1 DEF LoopIs
      <4> QED BY <1>3, <3>2, <4>1, <4>2
    <3> QED BY <3>1, <3>2
  <2> QED BY <1>4, <2>1 DEF LoopIs
<1> DEFINE g == CHOOSE h : h = Def(h)
<1>6. g = Def(g)
  BY <1>5
<1>7. NumberOf(digits) = g[m]
  BY DEF NumberOf, m
<1> HIDE DEF g
<1>8. NumberIs(g, digits)
  <2>1. 0 \in 0 .. m /\ \A j \in 1 .. m : j \in 0 .. m /\ j # 0
    BY <1>1
  <2> QED BY <1>6, <2>1 DEF NumberIs, m
<1>9. g[m] \in Nat
  <2>1. g[0] \in Nat
    BY <1>8 DEF NumberIs
  <2>2. ASSUME NEW j \in 1 .. m, g[j - 1] \in Nat PROVE g[j] \in Nat
    <3>1. g[j] = 10 * g[j - 1] + Value[digits[j]] /\ Value[digits[j]] \in Nat
      BY <1>1, <1>8 DEF NumberIs, m
    <3> QED BY <2>2, <3>1
  <2> QED BY <1>1, <2>1, <2>2, LoopStays
<1> QED BY <1>7, <1>8, <1>9 DEF m

(* One more digit.                                                         *)
LEMMA NumberAppends ==
  ASSUME NEW digits, digits \in Text, \A i \in 1 .. Len(digits) : digits[i] \in DOMAIN Value,
         NEW d \in DOMAIN Value
  PROVE  NumberOf(Append(digits, d)) = 10 * NumberOf(digits) + Value[d]
<1> DEFINE more == Append(digits, d)
           m == Len(digits)
<1>1. m \in Nat /\ d \in Symbols
  BY Indexed, DigitsAre
<1>2. /\ more \in Text /\ Len(more) = m + 1 /\ more[m + 1] = d
      /\ \A i \in 1 .. m : more[i] = digits[i]
  BY <1>1, AppendProperties DEF Text
<1> HIDE DEF more
<1>3. \A i \in 1 .. Len(more) : more[i] \in DOMAIN Value
  <2>1. \A i \in 1 .. Len(more) : i \in 1 .. m \/ i = m + 1
    BY <1>1, <1>2
  <2> QED BY <1>2, <2>1
<1>4. PICK g : NumberIs(g, digits) /\ NumberOf(digits) = g[m]
  BY NumberUnfolds
<1>5. PICK h : NumberIs(h, more) /\ NumberOf(more) = h[m + 1]
  BY <1>2, <1>3, NumberUnfolds
<1> DEFINE Bad == {i \in 0 .. m : g[i] # h[i]}
<1>6. ASSUME Bad # {} PROVE FALSE
  <2>1. Bad \in SUBSET Nat
    OBVIOUS
  <2>2. PICK i \in Bad : \A k \in Bad : i <= k
    BY <1>6, <2>1, Least
  <2>3. i \in 0 .. m /\ g[i] # h[i] /\ \A k \in 0 .. m : k < i => g[k] = h[k]
    BY <2>2
  <2>4. i # 0
    BY <1>4, <1>5, <2>3 DEF NumberIs
  <2>5. i \in 1 .. m /\ i \in 1 .. Len(more) /\ i - 1 \in 0 .. m /\ i - 1 < i
    BY <1>1, <1>2, <2>3, <2>4
  <2>6. g[i - 1] = h[i - 1] /\ digits[i] = more[i]
    BY <1>2, <2>3, <2>5
  <2>7. g[i] = 10 * g[i - 1] + Value[digits[i]] /\ h[i] = 10 * h[i - 1] + Value[more[i]]
    BY <1>4, <1>5, <2>5 DEF NumberIs
  <2> QED BY <2>3, <2>6, <2>7
<1>7. g[m] = h[m]
  <2>1. m \in 0 .. m
    BY <1>1
  <2> QED BY <1>6, <2>1
<1>8. m + 1 \in 1 .. Len(more) /\ m + 1 - 1 = m
  BY <1>1, <1>2
<1>9. h[m + 1] = 10 * h[m] + Value[d]
  BY <1>2, <1>5, <1>8 DEF NumberIs
<1> QED BY <1>4, <1>5, <1>7, <1>9 DEF more

(* printf's digits are read back as the number printed.                    *)
LEMMA PrintedReadsBack ==
  \A k \in Nat : /\ \A i \in 1 .. Len(Printed[k]) : Printed[k][i] \in DOMAIN Value
                 /\ NumberOf(Printed[k]) = k
<1> DEFINE Ok(k) == /\ \A i \in 1 .. Len(Printed[k]) : Printed[k][i] \in DOMAIN Value
                    /\ NumberOf(Printed[k]) = k
           Bad == {k \in Nat : ~Ok(k)}
<1>1. ASSUME NEW k \in Nat, k < 10 PROVE Ok(k)
  <2>1. k \in 0 .. 9
    BY <1>1
  <2> DEFINE d == Numerals[k + 1]
             text == <<d>>
  <2>2. d \in DOMAIN Value /\ Value[d] = k /\ d \in Symbols
    BY <2>1, DigitsAre
  <2>3. Printed[k] = text
    BY <1>1, PrintedUnfolds DEF PrintedIs
  <2> HIDE DEF d
  <2>4. text \in Text /\ Len(text) = 1 /\ text[1] = d
    BY <2>2 DEF Text
  <2> HIDE DEF text
  <2>5. \A i \in 1 .. Len(text) : text[i] \in DOMAIN Value
    BY <2>2, <2>4
  <2>6. PICK g : NumberIs(g, text) /\ NumberOf(text) = g[Len(text)]
    BY <2>4, <2>5, NumberUnfolds
  <2>7. g[1] = 10 * g[1 - 1] + Value[text[1]] /\ g[0] = 0
    <3>1. 1 \in 1 .. Len(text)
      BY <2>4
    <3> QED BY <2>6, <3>1 DEF NumberIs
  <2>8. g[1] = k
    <3>1. 1 - 1 = 0
      OBVIOUS
    <3> QED BY <2>2, <2>4, <2>7, <3>1
  <2> QED BY <2>3, <2>4, <2>5, <2>6, <2>8
<1>2. ASSUME NEW k \in Nat, k >= 10, Ok(k \div 10) PROVE Ok(k)
  <2>1. k \div 10 \in Nat /\ k % 10 \in 0 .. 9 /\ k = 10 * (k \div 10) + (k % 10)
    BY Tenth
  <2> DEFINE front == Printed[k \div 10]
             d == Numerals[(k % 10) + 1]
  <2>2. d \in DOMAIN Value /\ Value[d] = k % 10 /\ d \in Symbols
    BY <2>1, DigitsAre
  <2>3. Printed[k] = Append(front, d)
    <3>1. ~(k < 10)
      BY <1>2
    <3> QED BY <3>1, PrintedUnfolds DEF PrintedIs
  <2>4. front \in Text /\ (\A i \in 1 .. Len(front) : front[i] \in DOMAIN Value) /\ NumberOf(front) = k \div 10
    BY <1>2, <2>1, PrintedTypes
  <2> HIDE DEF front, d
  <2>5. NumberOf(Append(front, d)) = 10 * NumberOf(front) + Value[d]
    BY <2>2, <2>4, NumberAppends
  <2>6. NumberOf(Printed[k]) = k
    BY <2>1, <2>2, <2>3, <2>4, <2>5
  <2>7. \A i \in 1 .. Len(Printed[k]) : Printed[k][i] \in DOMAIN Value
    <3>1. /\ Len(front) \in Nat /\ Len(Printed[k]) = Len(front) + 1 /\ Printed[k][Len(front) + 1] = d
          /\ \A i \in 1 .. Len(front) : Printed[k][i] = front[i]
      BY <2>2, <2>3, <2>4, Indexed, AppendProperties DEF Text
    <3>2. \A i \in 1 .. Len(Printed[k]) : i \in 1 .. Len(front) \/ i = Len(front) + 1
      BY <3>1
    <3> QED BY <2>2, <2>4, <3>1, <3>2
  <2> QED BY <2>6, <2>7
<1> HIDE DEF Ok
<1>3. ASSUME Bad # {} PROVE FALSE
  <2>1. Bad \in SUBSET Nat
    OBVIOUS
  <2>2. PICK k \in Bad : \A j \in Bad : k <= j
    BY <1>3, <2>1, Least
  <2>3. k \in Nat /\ ~Ok(k) /\ \A j \in Nat : j < k => Ok(j)
    BY <2>2
  <2>4. k >= 10
    BY <1>1, <2>3
  <2>5. k \div 10 \in Nat /\ k \div 10 < k
    BY <2>3, <2>4, Tenth
  <2> QED BY <1>2, <2>3, <2>4, <2>5
<1>4. \A k \in Nat : Ok(k)
  BY <1>3
<1> QED BY <1>4 DEF Ok

(* The line in front of a list of arguments or of an argument.             *)
LineFor(x, k) == (<<x>> \o Printed[k]) \o NL

LEMMA FrontLine ==
  ASSUME NEW x \in Symbols, NEW k \in Nat
  PROVE  LET m == Len(Printed[k])
             f == LineFor(x, k)
         IN  /\ m \in Nat /\ f \in Text /\ Len(f) = m + 3
             /\ \A i \in 2 .. m + 1 : f[i] = Printed[k][i - 1] /\ f[i] \in DOMAIN Value /\ f[i] # "CR"
             /\ f[m + 2] = "CR"
<1> DEFINE d == Printed[k]
           m == Len(d)
           s == <<x>> \o d
           f == s \o NL
<1>1. d \in Text /\ m \in Nat /\ \A i \in 1 .. m : d[i] \in DOMAIN Value
  BY PrintedTypes, PrintedReadsBack, Indexed
<1> HIDE DEF d
<1>2. <<x>> \in Text /\ Len(<<x>>) = 1 /\ NL \in Text /\ Len(NL) = 2 /\ NL[1] = "CR"
  BY SymbolsAssumption DEF NL, Text
<1>3. s \in Text /\ Len(s) = m + 1 /\ \A i \in 1 .. m : s[1 + i] = d[i]
  <2>1. s \in Text /\ Len(s) = Len(<<x>>) + Len(d) /\ \A i \in 1 .. Len(d) : s[Len(<<x>>) + i] = d[i]
    BY <1>1, <1>2, Joined, JoinedAt
  <2> QED BY <1>1, <1>2, <2>1
<1> HIDE DEF s, m
<1> HIDE DEF f
<1>4. f \in Text /\ Len(f) = m + 3 /\ (\A i \in 1 .. m + 1 : f[i] = s[i]) /\ f[m + 2] = "CR"
  <2>1. /\ f \in Text /\ Len(f) = Len(s) + Len(NL) /\ (\A i \in 1 .. Len(s) : f[i] = s[i])
        /\ \A i \in 1 .. Len(NL) : f[Len(s) + i] = NL[i]
    <3>1. Joins(f, s, NL)
      BY <1>2, <1>3, Zenon DEF f, Joins
    <3> QED BY <3>1, JoinedIs
  <2>2. 1 \in 1 .. Len(NL) /\ Len(s) + 1 = m + 2
    BY <1>1, <1>2, <1>3
  <2>3. f[m + 2] = "CR"
    BY <1>2, <2>1, <2>2
  <2> QED BY <1>1, <1>2, <1>3, <2>1, <2>3
<1> HIDE DEF f
<1>5. ASSUME NEW i \in 2 .. m + 1
      PROVE  f[i] = d[i - 1] /\ f[i] \in DOMAIN Value /\ f[i] # "CR"
  <2>1. i - 1 \in 1 .. m /\ i \in 1 .. m + 1 /\ 1 + (i - 1) = i
    BY <1>1, <1>5
  <2>2. f[i] = d[i - 1]
    BY <1>3, <1>4, <2>1
  <2>3. d[i - 1] \in DOMAIN Value
    BY <1>1, <2>1 DEF m
  <2> QED BY <2>2, <2>3, DigitsAre
<1> QED BY <1>1, <1>4, <1>5 DEF LineFor, f, s, m, d

(* Redis finds the line once it has all come.                              *)
LEMMA LineFound ==
  ASSUME NEW x \in Symbols, NEW k \in Nat, NEW t, t \in Text
  PROVE  LineOf(LineFor(x, k) \o t) = {[number |-> k, rest |-> t]}
<1> DEFINE m == Len(Printed[k])
           f == LineFor(x, k)
           b == f \o t
<1>1. /\ m \in Nat /\ f \in Text /\ Len(f) = m + 3
      /\ \A i \in 2 .. m + 1 : f[i] = Printed[k][i - 1] /\ f[i] \in DOMAIN Value /\ f[i] # "CR"
      /\ f[m + 2] = "CR"
  BY FrontLine
<1> HIDE DEF f, m
<1>2. PICK end \in Nat : end = m + 2
  BY <1>1
<1>3. /\ b \in Text /\ Len(b) = Len(f) + Len(t) /\ Len(t) \in Nat
      /\ \A i \in 1 .. Len(f) : b[i] = f[i]
  <2>1. Joins(b, f, t)
    BY <1>1, Zenon DEF Joins
  <2> HIDE DEF b
  <2> QED BY <2>1, JoinedIs
<1>4. SubSeq(b, end + 2, Len(b)) = t
  <2>1. SubSeq(b, Len(f) + 1, Len(b)) = t
    BY <1>1, Halves
  <2>2. end + 2 = Len(f) + 1
    BY <1>1, <1>2
  <2> QED BY <2>1, <2>2
<1> HIDE DEF b
<1>5. b[end] = "CR" /\ end \in 2 .. Len(b) - 1 /\ \A j \in 2 .. end - 1 : b[j] \in DOMAIN Value /\ b[j] # "CR"
  <2>1. end \in 1 .. Len(f) /\ end \in 2 .. Len(b) - 1
    BY <1>1, <1>2, <1>3
  <2>2. b[end] = "CR"
    BY <1>1, <1>2, <1>3, <2>1
  <2>3. ASSUME NEW j \in 2 .. end - 1 PROVE b[j] \in DOMAIN Value /\ b[j] # "CR"
    <3>1. j \in 2 .. m + 1 /\ j \in 1 .. Len(f)
      BY <1>1, <1>2
    <3> QED BY <1>1, <1>3, <3>1
  <2> QED BY <2>1, <2>2, <2>3
<1> DEFINE At(e) == b[e] = "CR" /\ \A j \in 2 .. e - 1 : b[j] \in DOMAIN Value
           E == {e \in 2 .. Len(b) - 1 : At(e)}
           L(i) == [number |-> NumberOf(SubSeq(b, 2, i - 1)), rest |-> SubSeq(b, i + 2, Len(b))]
<1>6. \A e \in 2 .. Len(b) - 1 : At(e) <=> e = end
  <2> TAKE e \in 2 .. Len(b) - 1
  <2>1. e \in Nat /\ e >= 2
    BY <1>1, <1>3
  <2>2. CASE e < end
    <3>1. e \in 2 .. end - 1
      BY <2>1, <2>2
    <3> QED BY <1>5, <2>2, <3>1
  <2>3. CASE e > end
    <3>1. end \in 2 .. e - 1
      BY <1>5, <2>1, <2>3
    <3> QED BY <1>5, <2>3, <3>1, DigitsAre
  <2>4. CASE e = end
    BY <1>5, <2>4
  <2> QED BY <2>1, <2>2, <2>3, <2>4
<1>7. SubSeq(b, 2, end - 1) = Printed[k]
  <2>1. end - 1 \in Nat /\ end - 1 <= Len(b) /\ 2 \in Nat \ {0} /\ 2 <= end - 1 + 1
    BY <1>1, <1>2, <1>3
  <2> DEFINE s == SubSeq(b, 2, end - 1)
  <2>2. IsPart(s, b, 2, end - 1)
    BY <1>3, <2>1, Zenon DEF IsPart
  <2> HIDE DEF s
  <2>3. /\ s \in Text /\ Len(s) = end - 1 - 2 + 1
        /\ \A j \in 1 .. end - 1 - 2 + 1 : s[j] = b[2 + j - 1]
    <3>1. PartFacts(s, b, 2, end - 1)
      BY <2>2, PartIs, Zenon
    <3> QED BY <2>1, <3>1 DEF PartFacts
  <2>4. Len(s) = m
    BY <1>1, <1>2, <2>3
  <2>5. ASSUME NEW j \in 1 .. m PROVE s[j] = Printed[k][j]
    <3>1. j + 1 \in 2 .. m + 1 /\ j \in 1 .. end - 1 - 2 + 1 /\ 2 + j - 1 = j + 1 /\ j + 1 - 1 = j /\ j + 1 \in 1 .. Len(f)
      BY <1>1, <1>2
    <3>2. s[j] = b[j + 1]
      BY <2>3, <3>1
    <3>3. b[j + 1] = f[j + 1]
      BY <1>3, <3>1
    <3>4. f[j + 1] = Printed[k][j]
      BY <1>1, <3>1
    <3> QED BY <3>2, <3>3, <3>4
  <2>6. s = Printed[k]
    BY <2>3, <2>4, <2>5, PrintedTypes, Equal DEF m
  <2> QED BY <2>6 DEF s
<1>8. LineOf(b) = {L(i) : i \in E}
  BY DEF LineOf
<1>9. E = {end}
  <2> HIDE DEF At
  <2> QED BY <1>5, <1>6
<1>10. L(end) = [number |-> k, rest |-> t]
  <2>1. NumberOf(SubSeq(b, 2, end - 1)) = k
    BY <1>7, PrintedReadsBack
  <2> QED BY <1>4, <2>1
<1> HIDE DEF E, L
<1>11. LineOf(b) = {L(end)}
  BY <1>8, <1>9
<1> QED BY <1>10, <1>11 DEF b, f

LEMMA LineMissing ==
  ASSUME NEW x \in Symbols, NEW k \in Nat, NEW p, p \in Text, NEW t, t \in Text, t # <<>>, p \o t = LineFor(x, k)
  PROVE  LineOf(p) = {}
<1> DEFINE m == Len(Printed[k])
           f == LineFor(x, k)
<1>1. /\ m \in Nat /\ f \in Text /\ Len(f) = m + 3
      /\ \A i \in 2 .. m + 1 : f[i] = Printed[k][i - 1] /\ f[i] \in DOMAIN Value /\ f[i] # "CR"
  BY FrontLine
<1> HIDE DEF f, m
<1>2. Len(p) \in Nat /\ Len(t) \in Nat /\ Len(t) # 0 /\ Len(f) = Len(p) + Len(t)
  BY Indexed, Joined DEF f
<1>3. \A i \in 1 .. Len(p) : p[i] = f[i]
  BY JoinedAt DEF f
<1>4. ASSUME NEW e \in 2 .. Len(p) - 1, p[e] = "CR" PROVE FALSE
  <2>1. e \in 2 .. m + 1 /\ e \in 1 .. Len(p)
    BY <1>1, <1>2, <1>4
  <2> QED BY <1>1, <1>3, <1>4, <2>1
<1> QED BY <1>4 DEF LineOf

LEMMA LineTypes ==
  ASSUME NEW bytes, bytes \in Text, NEW l \in LineOf(bytes)
  PROVE  l.number \in Nat /\ l.rest \in Text
<1>1. Len(bytes) \in Nat
  BY Indexed
<1>2. PICK i \in 2 .. Len(bytes) - 1 :
        /\ \A j \in 2 .. i - 1 : bytes[j] \in DOMAIN Value
        /\ l = [number |-> NumberOf(SubSeq(bytes, 2, i - 1)), rest |-> SubSeq(bytes, i + 2, Len(bytes))]
  BY DEF LineOf
<1>3. PICK k \in Nat : k = i - 1 /\ k <= Len(bytes) /\ 2 <= k + 1 /\ 2 \in Nat \ {0}
  BY <1>1
<1> DEFINE s == SubSeq(bytes, 2, k)
<1>4. IsPart(s, bytes, 2, k)
  BY <1>3, Zenon DEF IsPart
<1> HIDE DEF s
<1>5. s \in Text /\ Len(s) = k - 2 + 1 /\ \A j \in 1 .. k - 2 + 1 : s[j] = bytes[2 + j - 1]
  <2>1. PartFacts(s, bytes, 2, k)
    BY <1>4, PartIs, Zenon
  <2> QED BY <1>3, <2>1 DEF PartFacts
<1>6. \A j \in 1 .. Len(s) : s[j] \in DOMAIN Value
  <2>1. \A j \in 1 .. Len(s) : j \in 1 .. k - 2 + 1 /\ 2 + j - 1 \in 2 .. i - 1
    BY <1>1, <1>3, <1>5
  <2> QED BY <1>2, <1>5, <2>1
<1>7. NumberOf(s) \in Nat
  BY <1>5, <1>6, NumberUnfolds
<1>8. SubSeq(bytes, i + 2, Len(bytes)) \in Text
  <2>1. i + 2 \in Nat /\ i + 2 > 0 /\ Len(bytes) \in Int /\ Len(bytes) <= Len(bytes)
    BY <1>1
  <2> QED BY <2>1, SubTexts
<1> QED BY <1>2, <1>3, <1>7, <1>8 DEF s

LEMMA OneMoreTypes ==
  ASSUME NEW a \in Reading
  PROVE  OneMore(a) \subseteq Reading
<1> SUFFICES ASSUME NEW b \in OneMore(a) PROVE b \in Reading
  OBVIOUS
<1>1. a.argv \in Seq(Text) /\ a.rest \in Text
  BY DEF Reading
<1>2. PICK l \in LineOf(a.rest) :
        /\ Len(l.rest) >= l.number + 2
        /\ b = [argv |-> Append(a.argv, SubSeq(l.rest, 1, l.number)),
                rest |-> SubSeq(l.rest, l.number + 3, Len(l.rest))]
  BY DEF OneMore
<1>3. l.number \in Nat /\ l.rest \in Text
  BY <1>1, LineTypes
<1>4. Len(l.rest) \in Nat /\ l.number <= Len(l.rest) /\ l.number + 3 \in Nat /\ l.number + 3 > 0
  <2>1. Len(l.rest) \in Nat
    BY <1>3, Indexed
  <2>2. l.number \in Nat /\ Len(l.rest) >= l.number + 2
    BY <1>2, <1>3
  <2>3. ASSUME NEW k \in Nat, NEW len \in Nat, len >= k + 2
        PROVE  k <= len /\ k + 3 \in Nat /\ k + 3 > 0
    BY <2>3
  <2> QED BY <2>1, <2>2, <2>3
<1>5. SubSeq(l.rest, 1, l.number) \in Text
  <2>1. 1 \in Nat /\ 1 > 0 /\ l.number \in Int
    BY <1>3
  <2> QED BY <1>3, <1>4, <2>1, SubTexts
<1>6. SubSeq(l.rest, l.number + 3, Len(l.rest)) \in Text
  <2>1. Len(l.rest) \in Int /\ Len(l.rest) <= Len(l.rest)
    BY <1>4
  <2> QED BY <1>3, <1>4, <2>1, SubTexts
<1>7. Append(a.argv, SubSeq(l.rest, 1, l.number)) \in Seq(Text)
  BY <1>1, <1>5, AppendProperties
<1> QED BY <1>2, <1>6, <1>7 DEF Reading

LEMMA ArgumentsUnfold ==
  /\ \A a \in Reading : Arguments[0][a] = {a}
  /\ \A k \in Nat, a \in Reading : Arguments[k + 1][a] = UNION {Arguments[k][b] : b \in OneMore(a)}
<1>0. PICK limit \in Nat \ {0} : limit = 1
  OBVIOUS
<1> DEFINE V == [Reading -> SUBSET Reading]
           First == [k \in 0 .. limit - 1 |-> [a \in Reading |-> {a}]]
           down == [k \in Nat |-> IF k = 0 THEN 0 ELSE k - 1]
           Turn(F) == [a \in Reading |-> UNION {F[b] : b \in OneMore(a)}]
           Step == [p \in Nat \X V |-> Turn(p[2])]
           Def(f) == [left \in Nat |-> [a \in Reading |->
                       IF left = 0 THEN {a} ELSE UNION {f[left - 1][b] : b \in OneMore(a)}]]
<1>1. First \in [0 .. limit - 1 -> V] /\ First[0] = [a \in Reading |-> {a}]
  <2>1. 0 \in 0 .. limit - 1
    BY <1>0
  <2> QED BY <2>1
<1>2. Descends(down, limit) /\ \A j \in Nat : j # 0 => down[j] = j - 1
  BY <1>0 DEF Descends
<1>3. Step \in [Nat \X V -> V]
  <2>1. ASSUME NEW F \in V PROVE Turn(F) \in V
    <3>1. ASSUME NEW a \in Reading PROVE UNION {F[b] : b \in OneMore(a)} \in SUBSET Reading
      BY OneMoreTypes
    <3> QED BY <3>1
  <2> HIDE DEF Turn, V
  <2> QED BY <2>1
<1>4. \A k \in Nat, F \in V : Step[<<k, F>>] = Turn(F)
  OBVIOUS
<1> HIDE DEF First, down, Step, V
<1>5. PICK f \in [Nat -> V] : \A j \in Nat : Follows(f, j, limit, First, down, Step)
  BY <1>1, <1>2, <1>3, Recursion
<1>6. f = Def(f)
  <2>1. ASSUME NEW k \in Nat
        PROVE  f[k] = [a \in Reading |-> IF k = 0 THEN {a} ELSE UNION {f[k - 1][b] : b \in OneMore(a)}]
    <3>1. Follows(f, k, limit, First, down, Step)
      BY <1>5
    <3>2. CASE k = 0
      <4>1. f[k] = [a \in Reading |-> {a}]
        BY <1>0, <1>1, <3>1, <3>2 DEF Follows
      <4> QED BY <3>2, <4>1
    <3>3. CASE k # 0
      <4>1. k - 1 \in Nat /\ ~(k < limit) /\ down[k] = k - 1
        BY <1>0, <1>2, <3>3
      <4>2. f[k - 1] \in V
        BY <4>1
      <4>3. f[k] = Turn(f[k - 1])
        BY <1>4, <3>1, <4>1, <4>2 DEF Follows
      <4> QED BY <3>3, <4>3
    <3> QED BY <3>2, <3>3
  <2>2. f = [k \in Nat |-> f[k]]
    OBVIOUS
  <2> QED BY <2>1, <2>2
<1>7. Arguments = Def(Arguments)
  BY <1>6, Zenon DEF Arguments
<1>8. ASSUME NEW k \in Nat
      PROVE  Arguments[k] = [a \in Reading |-> IF k = 0 THEN {a} ELSE UNION {Arguments[k - 1][b] : b \in OneMore(a)}]
  BY <1>7, Zenon
<1>9. ASSUME NEW a \in Reading PROVE Arguments[0][a] = {a}
  <2>1. 0 \in Nat
    OBVIOUS
  <2> QED BY <1>8, <2>1
<1>10. ASSUME NEW k \in Nat, NEW a \in Reading
       PROVE  Arguments[k + 1][a] = UNION {Arguments[k][b] : b \in OneMore(a)}
  <2>1. PICK m \in Nat : m = k + 1
    OBVIOUS
  <2>2. m # 0 /\ m - 1 = k
    BY <2>1
  <2>3. Arguments[m][a] = UNION {Arguments[m - 1][b] : b \in OneMore(a)}
    BY <1>8, <2>2
  <2> QED BY <2>1, <2>2, <2>3
<1> QED BY <1>9, <1>10

(* An argument behind the line with its length.                            *)
Behind_(arg) == arg \o NL

LEMMA BulkIs ==
  ASSUME NEW arg, arg \in Text
  PROVE  /\ Bulk(arg) = LineFor("$", Len(arg)) \o Behind_(arg)
         /\ LineFor("$", Len(arg)) \in Text /\ Behind_(arg) \in Text /\ Len(Behind_(arg)) = Len(arg) + 2
<1>1. Len(arg) \in Nat /\ NL \in Text /\ Len(NL) = 2
  BY Indexed, SymbolsAssumption DEF NL, Text
<1>2. "$" \in Symbols
  BY SymbolsAssumption
<1> DEFINE f == LineFor("$", Len(arg))
<1>3. f \in Text
  BY <1>1, <1>2, FrontLine
<1>4. Behind_(arg) \in Text /\ Len(Behind_(arg)) = Len(arg) + 2
  BY <1>1, Joined DEF Behind_
<1>5. Bulk(arg) = (f \o arg) \o NL
  BY DEF Bulk, LineFor
<1> HIDE DEF f
<1>6. (f \o arg) \o NL = f \o (arg \o NL)
  BY <1>1, <1>3, Regroup
<1> QED BY <1>3, <1>4, <1>5, <1>6 DEF Behind_, f

LEMMA OneMoreFound ==
  ASSUME NEW argv \in Seq(Text), NEW arg, arg \in Text, NEW t, t \in Text
  PROVE  OneMore([argv |-> argv, rest |-> Bulk(arg) \o t]) = {[argv |-> Append(argv, arg), rest |-> t]}
<1> DEFINE k == Len(arg)
           f == LineFor("$", k)
           b == Behind_(arg)
           u == b \o t
           a == [argv |-> argv, rest |-> Bulk(arg) \o t]
<1>1. k \in Nat /\ f \in Text /\ b \in Text /\ Len(b) = k + 2 /\ Bulk(arg) = f \o b /\ "$" \in Symbols
  BY BulkIs, Indexed, SymbolsAssumption
<1>2. Bulk(arg) \o t = f \o u
  <2> HIDE DEF f, b
  <2>1. AreTexts(f, b, t)
    BY <1>1 DEF AreTexts
  <2>2. Regrouped(f, b, t)
    BY <2>1, Regrouping, Zenon
  <2> QED BY <1>1, <2>2 DEF Regrouped
<1>3. u \in Text /\ Len(u) = k + 2 + Len(t) /\ Len(t) \in Nat
  <2> HIDE DEF f, b, k
  <2> QED BY <1>1, Joined, Indexed
<1>4. LineOf(a.rest) = {[number |-> k, rest |-> u]}
  <2>1. LineOf(f \o u) = {[number |-> k, rest |-> u]}
    <3> HIDE DEF u, k
    <3> QED BY <1>1, <1>3, LineFound
  <2> QED BY <1>2, <2>1
<1>5. SubSeq(u, k + 3, Len(u)) = t
  <2>1. SubSeq(u, Len(b) + 1, Len(u)) = t
    <3> HIDE DEF b
    <3> QED BY <1>1, Halves
  <2>2. Len(b) + 1 = k + 3
    BY <1>1
  <2> QED BY <2>1, <2>2
<1>6. SubSeq(u, 1, k) = arg
  <2>1. NL \in Text
    BY SymbolsAssumption DEF NL, Text
  <2>2. NL \o t \in Text /\ u = arg \o (NL \o t)
    BY <2>1, Joined, Regroup DEF Behind_
  <2> HIDE DEF u
  <2>3. SubSeq(arg \o (NL \o t), 1, Len(arg)) = arg
    BY <2>2, Halves
  <2> QED BY <2>2, <2>3
<1>7. a.argv = argv
  OBVIOUS
<1> HIDE DEF u, k, a
<1>8. {l \in LineOf(a.rest) : Len(l.rest) >= l.number + 2} = {[number |-> k, rest |-> u]}
  BY <1>1, <1>3, <1>4
<1>9. OneMore(a) = {[argv |-> Append(argv, SubSeq(u, 1, k)), rest |-> SubSeq(u, k + 3, Len(u))]}
  <2> DEFINE B(l) == [argv |-> Append(a.argv, SubSeq(l.rest, 1, l.number)), rest |-> SubSeq(l.rest, l.number + 3, Len(l.rest))]
             line == [number |-> k, rest |-> u]
  <2>1. OneMore(a) = {B(l) : l \in {j \in LineOf(a.rest) : Len(j.rest) >= j.number + 2}}
    BY DEF OneMore
  <2>2. B(line) = [argv |-> Append(argv, SubSeq(u, 1, k)), rest |-> SubSeq(u, k + 3, Len(u))]
    BY <1>7
  <2> HIDE DEF B, line
  <2>3. OneMore(a) = {B(line)}
    BY <1>8, <2>1 DEF line
  <2> QED BY <2>2, <2>3
<1> QED BY <1>5, <1>6, <1>9 DEF a

(* The argument in front has not all come: no more is read.                *)
LEMMA OneMoreMissing ==
  ASSUME NEW a \in Reading, NEW arg, arg \in Text, NEW t, t \in Text, t # <<>>, a.rest \o t = Bulk(arg)
  PROVE  OneMore(a) = {}
<1> DEFINE k == Len(arg)
           f == LineFor("$", k)
           b == Behind_(arg)
           p == a.rest
<1>1. k \in Nat /\ f \in Text /\ b \in Text /\ Len(b) = k + 2 /\ p \o t = f \o b /\ "$" \in Symbols /\ p \in Text
  BY BulkIs, Indexed, SymbolsAssumption DEF Reading
<1>2. Len(p) \in Nat /\ Len(f) \in Nat
  BY <1>1, Indexed
<1>3. LineOf(p) # {} => \E u \in Text : u \o t = b /\ LineOf(p) = {[number |-> k, rest |-> u]}
  <2> HIDE DEF f, b, p, k
  <2>1. CASE Len(f) <= Len(p)
    <3>1. PICK u \in Text : p = f \o u /\ u \o t = b
      <4>1. TwoCuts(p, t, f, b)
        BY <1>1 DEF TwoCuts
      <4>2. Continues(p, t, f, b)
        BY <2>1, <4>1, Cut, Zenon
      <4> QED BY <4>2 DEF Continues
    <3>2. LineOf(p) = {[number |-> k, rest |-> u]}
      BY <1>1, <3>1, LineFound DEF f
    <3> QED BY <3>1, <3>2
  <2>2. CASE Len(p) < Len(f)
    <3>1. Len(p) <= Len(f) /\ f \o b = p \o t
      BY <1>1, <1>2, <2>2
    <3>2. PICK u \in Text : f = p \o u /\ u \o b = t
      <4>1. TwoCuts(f, b, p, t)
        BY <1>1, <3>1 DEF TwoCuts
      <4>2. Continues(f, b, p, t)
        BY <3>1, <4>1, Cut, Zenon
      <4> QED BY <4>2 DEF Continues
    <3>3. u # <<>>
      <4>1. Len(f) = Len(p) + Len(u)
        BY <1>1, <3>2, Joined
      <4> QED BY <1>2, <2>2, <4>1, EmptySeq DEF Text
    <3>4. LineOf(p) = {}
      BY <1>1, <3>2, <3>3, LineMissing DEF f
    <3> QED BY <3>4
  <2>3. Len(f) <= Len(p) \/ Len(p) < Len(f)
    BY <1>2
  <2> QED BY <2>1, <2>2, <2>3, Zenon
<1>4. ASSUME NEW l \in LineOf(p), Len(l.rest) >= l.number + 2 PROVE FALSE
  <2>1. PICK u \in Text : u \o t = b /\ LineOf(p) = {[number |-> k, rest |-> u]}
    BY <1>3, <1>4
  <2>2. l.number = k /\ l.rest = u
    BY <2>1
  <2>3. Len(u) + Len(t) = k + 2 /\ Len(u) \in Nat /\ Len(t) \in Nat /\ Len(t) # 0
    BY <1>1, <2>1, Joined, Indexed
  <2> HIDE DEF k
  <2> QED BY <1>1, <1>4, <2>2, <2>3
<1> QED BY <1>4 DEF OneMore

-----------------------------------------------------------------------------
(* Redis understands a command, and only a whole one.                      *)

(* What is left of a command behind its first j arguments.                 *)
LEMMA Remains ==
  ASSUME NEW argv \in Seq(Text), NEW g, BytesAre(g, argv)
  PROVE  \A j \in 0 .. Len(argv) : g[j] \in Text /\ \E t \in Text : g[Len(argv)] = g[j] \o t
<1> DEFINE m == Len(argv)
           Left(j) == \E t \in Text : g[m] = g[j] \o t
           Bad == {j \in 0 .. m : ~Left(m - j)}
<1>1. m \in Nat /\ \A j \in 1 .. m : argv[j] \in Text
  BY LenProperties
<1>2. \A j \in 1 .. m : g[j] = g[j - 1] \o Bulk(argv[j]) /\ Bulk(argv[j]) \in Text
  BY <1>1, SizeOfLines DEF BytesAre
<1>3. \A j \in 0 .. m : g[j] \in Text
  <2>1. g[0] \in Text
    BY SizeOfLines DEF BytesAre
  <2>2. \A j \in 1 .. m : g[j - 1] \in Text => g[j] \in Text
    BY <1>2, Joined
  <2> SUFFICES ASSUME NEW k \in 0 .. m PROVE g[k] \in Text
    OBVIOUS
  <2>3. k \in Nat /\ \A j \in 1 .. k : j \in 1 .. m
    BY <1>1
  <2> HIDE DEF m
  <2> QED BY <2>1, <2>2, <2>3, LoopStays
<1> HIDE DEF m
<1>4. Left(m)
  <2>1. g[m] \in Text
    BY <1>1, <1>3
  <2>2. <<>> \in Text /\ g[m] = g[m] \o <<>>
    BY <2>1, ConcatEmptySeq, EmptySeq DEF Text
  <2> QED BY <2>2
<1>5. ASSUME NEW j \in 1 .. m, Left(j) PROVE Left(j - 1)
  <2>1. PICK t \in Text : g[m] = g[j] \o t
    BY <1>5
  <2>2. j - 1 \in 0 .. m
    BY <1>1
  <2> DEFINE a == g[j - 1]
             b == Bulk(argv[j])
  <2>3. a \in Text /\ b \in Text /\ g[j] = a \o b
    BY <1>2, <1>3, <2>2
  <2> HIDE DEF a, b
  <2>4. b \o t \in Text /\ g[m] = a \o (b \o t)
    BY <2>1, <2>3, Joined, Regroup
  <2> QED BY <2>4 DEF a
<1> HIDE DEF Left
<1>6. ASSUME Bad # {} PROVE FALSE
  <2>1. Bad \in SUBSET Nat
    OBVIOUS
  <2>2. PICK j \in Bad : \A k \in Bad : j <= k
    BY <1>6, <2>1, Least
  <2>3. j \in 0 .. m /\ ~Left(m - j) /\ \A k \in 0 .. m : k < j => Left(m - k)
    BY <2>2
  <2>4. j # 0
    <3>1. m - 0 = m
      BY <1>1
    <3> QED BY <1>4, <2>3, <3>1
  <2>5. j - 1 \in 0 .. m /\ j - 1 < j /\ m - (j - 1) \in 1 .. m /\ m - (j - 1) - 1 = m - j
    BY <1>1, <2>3, <2>4
  <2>6. Left(m - (j - 1))
    BY <2>3, <2>5
  <2> QED BY <1>5, <2>3, <2>5, <2>6
<1>7. ASSUME NEW j \in 0 .. m PROVE Left(j)
  <2>1. m - j \in 0 .. m /\ m - (m - j) = j
    BY <1>1
  <2>2. m - j \notin Bad
    BY <1>6
  <2> QED BY <2>1, <2>2
<1> QED BY <1>3, <1>7 DEF Left, m

(* A text that is cut inside its first piece.                              *)
LEMMA CutInside ==
  ASSUME NEW p, NEW q, NEW a, NEW b, TwoCuts(p, q, a, b), Len(p) < Len(a)
  PROVE  \E u \in Text : a = p \o u /\ u # <<>> /\ u \o b = q /\ q # <<>>
<1>1. TwoCuts(a, b, p, q) /\ a \in Text /\ p \in Text /\ q \in Text /\ b \in Text
  BY DEF TwoCuts
<1>2. Len(a) \in Nat /\ Len(p) \in Nat
  BY <1>1, Indexed
<1>3. Len(p) <= Len(a)
  BY <1>2
<1>4. Continues(a, b, p, q)
  BY <1>1, <1>3, Cut, Zenon
<1>5. PICK u \in Text : a = p \o u /\ u \o b = q
  BY <1>4 DEF Continues
<1>6. Len(a) = Len(p) + Len(u) /\ Len(u) \in Nat
  BY <1>1, <1>5, Joined, Indexed
<1>7. u # <<>>
  BY <1>2, <1>6, EmptySeq DEF Text
<1>8. q # <<>>
  BY <1>1, <1>5, <1>7, ConcatEqualIffEmpty DEF Text
<1> QED BY <1>5, <1>7, <1>8

(* The command, if nothing of it is still to come.                         *)
Understood(argv, q) == IF q = <<>> THEN {[argv |-> argv, rest |-> <<>>]} ELSE {}

(* Behind the first arguments, a part of the others has come.              *)
Reads(argv, g, left) ==
  \A p, q \in Text :
    g[Len(argv) - left] \o (p \o q) = g[Len(argv)] =>
      Arguments[left][[argv |-> SubSeq(argv, 1, Len(argv) - left), rest |-> p]] = Understood(argv, q)

LEMMA ReadsNone ==
  ASSUME NEW argv \in Seq(Text), NEW g, BytesAre(g, argv)
  PROVE  Reads(argv, g, 0)
<1> DEFINE m == Len(argv)
<1>1. m \in Nat /\ m - 0 = m /\ m \in 0 .. m
  BY LenProperties
<1>2. g[m] \in Text
  BY <1>1, Remains
<1>3. SubSeq(argv, 1, m) = argv
  BY SubSeqFull
<1>4. ASSUME NEW p, p \in Text, NEW q, q \in Text, g[m] \o (p \o q) = g[m]
      PROVE  Arguments[0][[argv |-> argv, rest |-> p]] = Understood(argv, q)
  <2>1. p \o q \in Text
    BY <1>4, Joined
  <2>2. p \o q = <<>>
    <3>1. PICK x, y : x = g[m] /\ y = p \o q
      OBVIOUS
    <3>2. x \in Seq(Symbols) /\ y \in Seq(Symbols) /\ x \o y = x
      BY <1>2, <1>4, <2>1, <3>1 DEF Text
    <3>3. y = <<>>
      BY <3>2, ConcatSimplifications
    <3> QED BY <3>1, <3>3
  <2>3. p = <<>> /\ q = <<>>
    BY <1>4, <2>2, ConcatEqualIffEmpty DEF Text
  <2>4. [argv |-> argv, rest |-> p] \in Reading
    BY <1>4 DEF Reading
  <2>5. Arguments[0][[argv |-> argv, rest |-> p]] = {[argv |-> argv, rest |-> p]}
    BY <2>4, ArgumentsUnfold, Zenon
  <2> QED BY <2>3, <2>5 DEF Understood
<1> HIDE DEF m
<1>5. \A p, q \in Text : g[m] \o (p \o q) = g[m] => Arguments[0][[argv |-> argv, rest |-> p]] = Understood(argv, q)
  BY <1>4
<1> QED BY <1>1, <1>3, <1>5 DEF Reads, m

LEMMA ReadsMore ==
  ASSUME NEW argv \in Seq(Text), NEW g, BytesAre(g, argv), NEW left \in 0 .. Len(argv) - 1,
         Reads(argv, g, left)
  PROVE  Reads(argv, g, left + 1)
<1> DEFINE m == Len(argv)
<1>1. m \in Nat /\ \A i \in 1 .. m : argv[i] \in Text
  BY LenProperties
<1>2. PICK j \in 1 .. m : j = m - left
  <2>1. left \in 0 .. m - 1
    OBVIOUS
  <2>2. m - left \in 1 .. m
    BY <1>1, <2>1
  <2> HIDE DEF m
  <2> QED BY <2>2
<1>3. left \in Nat /\ m - (left + 1) = j - 1 /\ j - 1 \in 0 .. m /\ j \in 0 .. m /\ j \in Nat /\ j - 1 \in Nat
  BY <1>1, <1>2
<1> DEFINE arg == argv[j]
           bulk == Bulk(arg)
           front == SubSeq(argv, 1, j - 1)
<1>4. arg \in Text /\ bulk \in Text /\ g[j] = g[j - 1] \o bulk /\ g[j] \in Text /\ g[j - 1] \in Text
  BY <1>1, <1>3, Remains, SizeOfLines DEF BytesAre
<1>5. PICK t \in Text : g[m] = g[j] \o t
  BY <1>3, Remains
<1>6. front \in Seq(Text) /\ Append(front, arg) = SubSeq(argv, 1, j)
  <2>1. /\ front \in Seq(Text) /\ Len(front) = j - 1
        /\ \A i \in 1 .. j - 1 : front[i] = argv[i]
    <3>1. PICK k \in 0 .. m : k = j - 1
      BY <1>3
    <3>2. \A i \in 1 .. k : argv[i] \in Text
      BY <1>1
    <3>3. SubSeq(argv, 1, k) \in Seq(Text) /\ Len(SubSeq(argv, 1, k)) = k /\ \A i \in 1 .. k : SubSeq(argv, 1, k)[i] = argv[i]
      BY <3>2, SubSeqProperties
    <3> QED BY <3>1, <3>3
  <2>2. SubSeq(argv, 1, j) \in Seq(Text) /\ Len(SubSeq(argv, 1, j)) = j /\ \A i \in 1 .. j : SubSeq(argv, 1, j)[i] = argv[i]
    BY <1>1, <1>3, SubSeqProperties
  <2> HIDE DEF front, arg
  <2>3. /\ Append(front, arg) \in Seq(Text) /\ Len(Append(front, arg)) = Len(front) + 1
        /\ \A i \in 1 .. Len(front) : Append(front, arg)[i] = front[i]
        /\ Append(front, arg)[Len(front) + 1] = arg
    BY <1>4, <2>1, AppendProperties
  <2>4. Len(front) + 1 = j
    BY <1>3, <2>1
  <2>5. ASSUME NEW i \in 1 .. j PROVE Append(front, arg)[i] = argv[i]
    <3>1. i = j \/ i \in 1 .. j - 1
      BY <1>3
    <3>2. CASE i = j
      BY <2>3, <2>4, <3>2 DEF arg
    <3>3. CASE i \in 1 .. j - 1
      BY <2>1, <2>3, <3>3
    <3> QED BY <3>1, <3>2, <3>3
  <2>6. Append(front, arg) = SubSeq(argv, 1, j)
    BY <2>2, <2>3, <2>4, <2>5, SeqEqual
  <2> QED BY <2>1, <2>6
<1> HIDE DEF m, arg, bulk, front
<1>7. ASSUME NEW p, p \in Text, NEW q, q \in Text, g[j - 1] \o (p \o q) = g[m]
      PROVE  Arguments[left + 1][[argv |-> front, rest |-> p]] = Understood(argv, q)
  <2> DEFINE a == [argv |-> front, rest |-> p]
  <2>1. a \in Reading /\ a.rest = p /\ a.argv = front
    BY <1>6, <1>7 DEF Reading
  <2> HIDE DEF a
  <2>2. Arguments[left + 1][a] = UNION {Arguments[left][b] : b \in OneMore(a)}
    BY <1>3, <2>1, ArgumentsUnfold, Zenon
  <2>3. TwoCuts(p, q, bulk, t)
    <3>1. PICK before : before = g[j - 1] /\ before \in Text
      BY <1>4
    <3>2. g[m] = before \o (bulk \o t) /\ bulk \o t \in Text /\ p \o q \in Text
      <4>1. g[m] = (before \o bulk) \o t
        BY <1>4, <1>5, <3>1
      <4>2. (before \o bulk) \o t = before \o (bulk \o t)
        <5>1. AreTexts(before, bulk, t)
          BY <1>4, <1>5, <3>1 DEF AreTexts
        <5>2. Regrouped(before, bulk, t)
          BY <5>1, Regrouping, Zenon
        <5> QED BY <5>2 DEF Regrouped
      <4> QED BY <1>4, <1>7, <4>1, <4>2, Joined
    <3>3. before \o (p \o q) = before \o (bulk \o t)
      BY <1>7, <3>1, <3>2
    <3>4. p \o q = bulk \o t
      BY <3>1, <3>2, <3>3, CancelLeft
    <3> QED BY <1>4, <1>5, <1>7, <3>4 DEF TwoCuts
  <2>4. CASE Len(bulk) <= Len(p)
    <3>1. Continues(p, q, bulk, t)
      BY <2>3, <2>4, Cut, Zenon
    <3>2. PICK u \in Text : p = bulk \o u /\ u \o q = t
      BY <3>1 DEF Continues
    <3> DEFINE b == [argv |-> SubSeq(argv, 1, j), rest |-> u]
    <3>3. OneMore(a) = {b}
      <4>1. OneMore([argv |-> front, rest |-> Bulk(arg) \o u]) = {[argv |-> Append(front, arg), rest |-> u]}
        BY <1>4, <1>6, <3>2, OneMoreFound
      <4> QED BY <1>6, <3>2, <4>1 DEF a, bulk
    <3>4. Arguments[left + 1][a] = Arguments[left][b]
      <4> HIDE DEF b
      <4> QED BY <2>2, <3>3
    <3>5. g[Len(argv) - left] \o (u \o q) = g[Len(argv)]
      BY <1>2, <1>5, <3>2 DEF m
    <3>6. Arguments[left][[argv |-> SubSeq(argv, 1, Len(argv) - left), rest |-> u]] = Understood(argv, q)
      BY <1>7, <3>2, <3>5, Zenon DEF Reads
    <3>7. Arguments[left][b] = Understood(argv, q)
      BY <1>2, <3>6 DEF m
    <3> QED BY <3>4, <3>7 DEF a
  <2>5. CASE Len(p) < Len(bulk)
    <3>1. PICK u \in Text : bulk = p \o u /\ u # <<>> /\ u \o t = q /\ q # <<>>
      BY <2>3, <2>5, CutInside
    <3>2. OneMore(a) = {}
      BY <1>4, <2>1, <3>1, OneMoreMissing DEF bulk
    <3>3. Arguments[left + 1][a] = {}
      BY <2>2, <3>2
    <3> QED BY <3>1, <3>3 DEF Understood, a
  <2>6. Len(bulk) <= Len(p) \/ Len(p) < Len(bulk)
    BY <1>4, <1>7, Indexed
  <2> QED BY <2>4, <2>5, <2>6, Zenon
<1>8. \A p, q \in Text : g[j - 1] \o (p \o q) = g[m] =>
        Arguments[left + 1][[argv |-> front, rest |-> p]] = Understood(argv, q)
  BY <1>7
<1> QED BY <1>3, <1>8 DEF Reads, front, m

LEMMA ReadsAny ==
  ASSUME NEW argv \in Seq(Text), NEW g, BytesAre(g, argv)
  PROVE  Reads(argv, g, Len(argv))
<1> DEFINE m == Len(argv)
           Bad == {k \in 0 .. m : ~Reads(argv, g, k)}
<1>1. m \in Nat
  BY LenProperties
<1>2. ASSUME Bad # {} PROVE FALSE
  <2>1. Bad \in SUBSET Nat
    OBVIOUS
  <2>2. PICK k \in Bad : \A i \in Bad : k <= i
    BY <1>2, <2>1, Least
  <2>3. k \in 0 .. m /\ ~Reads(argv, g, k) /\ \A i \in 0 .. m : i < k => Reads(argv, g, i)
    BY <2>2
  <2>4. k # 0
    BY <2>3, ReadsNone
  <2>5. PICK i \in 0 .. m - 1 : k = i + 1 /\ i < k /\ i \in 0 .. m
    BY <1>1, <2>3, <2>4
  <2>6. Reads(argv, g, i)
    BY <2>3, <2>5
  <2> QED BY <2>3, <2>5, <2>6, ReadsMore
<1>3. m \in 0 .. m
  BY <1>1
<1> QED BY <1>2, <1>3

(* From any part of a command's bytes Redis reads the command itself, with *)
(* the arguments it was made of, once the last byte has come, and nothing  *)
(* before that: the lengths that hiredis writes (countDigits, bulklen) and *)
(* the values between them are read back, whatever bytes the values hold.  *)
THEOREM CommandUnderstood ==
  ASSUME NEW argv \in Seq(Text), NEW p, p \in Text, NEW q, q \in Text, p \o q = Protocol(argv)
  PROVE  FirstCommand(p) = IF q = <<>> THEN {[argv |-> argv, rest |-> <<>>]} ELSE {}
<1> DEFINE m == Len(argv)
           head == LineFor("*", m)
<1>1. m \in Nat /\ 0 \in 0 .. m /\ m - m = 0 /\ "*" \in Symbols
  BY LenProperties, SymbolsAssumption
<1>2. PICK g : BytesAre(g, argv) /\ Protocol(argv) = g[m]
  BY BytesUnfold
<1>3. g[0] = head /\ head \in Text
  <2>1. g[0] = Heading(argv) /\ Heading(argv) \in Text
    BY <1>2, SizeOfLines DEF BytesAre
  <2>2. Heading(argv) = head
    BY DEF Heading, LineFor
  <2> QED BY <2>1, <2>2
<1>4. PICK t \in Text : g[m] = head \o t
  <2> HIDE DEF head
  <2>1. \E t \in Text : g[m] = g[0] \o t
    BY <1>1, <1>2, Remains
  <2> QED BY <1>3, <2>1
<1>5. TwoCuts(p, q, head, t)
  BY <1>2, <1>3, <1>4 DEF TwoCuts
<1> HIDE DEF head, m
<1>6. CASE Len(head) <= Len(p)
  <2>1. Continues(p, q, head, t)
    BY <1>5, <1>6, Cut, Zenon
  <2>2. PICK u \in Text : p = head \o u /\ u \o q = t
    BY <2>1 DEF Continues
  <2> DEFINE line == [number |-> m, rest |-> u]
             a == [argv |-> <<>>, rest |-> u]
  <2>3. LineOf(p) = {line}
    BY <1>1, <2>2, LineFound DEF head
  <2>4. FirstCommand(p) = Arguments[m][a]
    <3> DEFINE F(l) == Arguments[l.number][[argv |-> <<>>, rest |-> l.rest]]
    <3>1. FirstCommand(p) = UNION {F(l) : l \in LineOf(p)}
      BY DEF FirstCommand
    <3>2. F(line) = Arguments[m][a]
      OBVIOUS
    <3> HIDE DEF F, line
    <3> QED BY <2>3, <3>1, <3>2
  <2>5. Reads(argv, g, m)
    BY <1>2, ReadsAny DEF m
  <2>6. g[Len(argv) - m] \o (u \o q) = g[Len(argv)]
    BY <1>1, <1>3, <1>4, <2>2 DEF m
  <2>7. Arguments[m][[argv |-> SubSeq(argv, 1, Len(argv) - m), rest |-> u]] = Understood(argv, q)
    BY <2>2, <2>5, <2>6, Zenon DEF Reads
  <2>8. SubSeq(argv, 1, Len(argv) - m) = <<>>
    <3>1. PICK zero \in Int : zero = Len(argv) - m /\ zero < 1
      BY <1>1 DEF m
    <3> QED BY <3>1, SubSeqEmpty
  <2> QED BY <2>4, <2>7, <2>8 DEF Understood
<1>7. CASE Len(p) < Len(head)
  <2>1. PICK u \in Text : head = p \o u /\ u # <<>> /\ u \o t = q /\ q # <<>>
    BY <1>5, <1>7, CutInside
  <2>2. LineOf(p) = {}
    BY <1>1, <2>1, LineMissing DEF head
  <2>3. FirstCommand(p) = {}
    BY <2>2 DEF FirstCommand
  <2> QED BY <2>1, <2>3
<1>8. Len(head) <= Len(p) \/ Len(p) < Len(head)
  BY <1>3, Indexed
<1> QED BY <1>6, <1>7, <1>8, Zenon

-----------------------------------------------------------------------------
(* Texts that are read from the front, while more is put behind them.      *)

(* A text without its first bytes.                                         *)
Drops(b, a, k) == a \in Text /\ k \in Nat /\ k <= Len(a) /\ b = DropBytes(a, k)
DropFacts(b, a, k) == b \in Text /\ Len(b) = Len(a) - k /\ \A j \in 1 .. Len(a) - k : b[j] = a[k + j]

LEMMA DropIs ==
  ASSUME NEW b, NEW a, NEW k, Drops(b, a, k)
  PROVE  DropFacts(b, a, k)
<1> USE DEF Drops
<1>1. Len(a) \in Nat
  BY Indexed
<1>2. PICK i \in Nat : i = k + 1
  OBVIOUS
<1>3. IsPart(b, a, i, Len(a))
  BY <1>1, <1>2 DEF IsPart, DropBytes
<1>4. PartFacts(b, a, i, Len(a))
  BY <1>3, PartIs, Zenon
<1> QED BY <1>1, <1>2, <1>4 DEF PartFacts, DropFacts

LEMMA DropTexts ==
  ASSUME NEW a, a \in Text, NEW k \in Nat, k <= Len(a)
  PROVE  DropBytes(a, k) \in Text /\ Len(DropBytes(a, k)) = Len(a) - k
<1>1. DropFacts(DropBytes(a, k), a, k)
  BY DropIs DEF Drops
<1> QED BY <1>1 DEF DropFacts

LEMMA DropNothing ==
  ASSUME NEW a, a \in Text
  PROVE  DropBytes(a, 0) = a
<1>1. DropFacts(DropBytes(a, 0), a, 0) /\ Len(a) \in Nat
  BY DropIs, Indexed DEF Drops
<1>2. Len(DropBytes(a, 0)) = Len(a) /\ \A j \in 1 .. Len(a) : DropBytes(a, 0)[j] = a[j]
  BY <1>1, Indexed DEF DropFacts
<1> QED BY <1>1, <1>2, Equal DEF DropFacts

(* Dropping twice.                                                         *)
LEMMA DropAgain ==
  ASSUME NEW a, a \in Text, NEW k \in Nat, NEW m \in Nat, k + m <= Len(a)
  PROVE  DropBytes(DropBytes(a, k), m) = DropBytes(a, k + m)
<1>1. Len(a) \in Nat /\ k <= Len(a) /\ m <= Len(a) - k /\ Len(a) - k \in Nat
  BY Indexed
<1>2. PICK b : b = DropBytes(a, k)
  OBVIOUS
<1>3. DropFacts(b, a, k)
  BY <1>1, <1>2, DropIs DEF Drops
<1>4. b \in Text /\ Len(b) = Len(a) - k /\ \A j \in 1 .. Len(a) - k : b[j] = a[k + j]
  BY <1>3 DEF DropFacts
<1>5. PICK d : d = DropBytes(b, m)
  OBVIOUS
<1>6. DropFacts(d, b, m)
  BY <1>1, <1>4, <1>5, DropIs DEF Drops
<1>7. d \in Text /\ Len(d) = Len(b) - m /\ \A j \in 1 .. Len(b) - m : d[j] = b[m + j]
  BY <1>6 DEF DropFacts
<1>8. PICK km \in Nat : km = k + m
  OBVIOUS
<1>9. PICK e : e = DropBytes(a, km)
  OBVIOUS
<1>10. DropFacts(e, a, km)
  BY <1>8, <1>9, DropIs DEF Drops
<1>11. e \in Text /\ Len(e) = Len(a) - km /\ \A j \in 1 .. Len(a) - km : e[j] = a[km + j]
  BY <1>10 DEF DropFacts
<1>12. Len(d) = Len(e) /\ \A j \in 1 .. Len(d) : d[j] = e[j]
  BY <1>1, <1>4, <1>7, <1>8, <1>11
<1>13. d = e
  BY <1>7, <1>11, <1>12, Equal
<1> QED BY <1>2, <1>5, <1>8, <1>9, <1>13

(* A part of what is left.                                                 *)
LEMMA PartOfDrop ==
  ASSUME NEW a, a \in Text, NEW k \in Nat, NEW m \in Nat, k + m <= Len(a)
  PROVE  SubSeq(DropBytes(a, k), 1, m) = SubSeq(a, k + 1, k + m)
<1>1. Len(a) \in Nat /\ k <= Len(a) /\ m <= Len(a) - k
  BY Indexed
<1>2. PICK b : b = DropBytes(a, k)
  OBVIOUS
<1>3. DropFacts(b, a, k)
  BY <1>1, <1>2, DropIs DEF Drops
<1>4. b \in Text /\ Len(b) = Len(a) - k /\ \A j \in 1 .. Len(a) - k : b[j] = a[k + j]
  BY <1>3 DEF DropFacts
<1>5. PICK d : d = SubSeq(b, 1, m)
  OBVIOUS
<1>6. IsPart(d, b, 1, m)
  BY <1>1, <1>4, <1>5 DEF IsPart
<1>7. PartFacts(d, b, 1, m)
  BY <1>6, PartIs, Zenon
<1>8. d \in Text /\ Len(d) = m /\ \A j \in 1 .. m : d[j] = b[j]
  BY <1>7 DEF PartFacts
<1>9. PICK i \in Nat : i = k + 1
  OBVIOUS
<1>10. PICK z \in Nat : z = k + m
  OBVIOUS
<1>11. PICK e : e = SubSeq(a, i, z)
  OBVIOUS
<1>12. IsPart(e, a, i, z)
  BY <1>1, <1>9, <1>10, <1>11 DEF IsPart
<1>13. PartFacts(e, a, i, z)
  BY <1>12, PartIs, Zenon
<1>14. e \in Text /\ Len(e) = m /\ \A j \in 1 .. m : e[j] = a[k + j]
  BY <1>9, <1>10, <1>13 DEF PartFacts
<1>15. ASSUME NEW j \in 1 .. m PROVE d[j] = e[j]
  <2>1. j \in 1 .. Len(a) - k
    BY <1>1
  <2> QED BY <1>4, <1>8, <1>14, <2>1
<1>16. d = e
  BY <1>8, <1>14, <1>15, Equal
<1> QED BY <1>2, <1>5, <1>9, <1>10, <1>11, <1>16

(* More bytes behind a text change nothing in front of them.               *)
LEMMA PartOfMore ==
  ASSUME NEW a, a \in Text, NEW b, b \in Text, NEW k \in Nat, k <= Len(a)
  PROVE  /\ SubSeq(a \o b, 1, k) = SubSeq(a, 1, k)
         /\ DropBytes(a \o b, k) = DropBytes(a, k) \o b
<1>1. PICK ab : ab = a \o b
  OBVIOUS
<1>2. /\ ab \in Text /\ Len(ab) = Len(a) + Len(b) /\ Len(a) \in Nat /\ Len(b) \in Nat
      /\ \A i \in 1 .. Len(a) : ab[i] = a[i]
      /\ \A i \in 1 .. Len(b) : ab[Len(a) + i] = b[i]
  <2>1. Joins(ab, a, b)
    BY <1>1 DEF Joins
  <2> QED BY <2>1, JoinedIs
<1>3. SubSeq(ab, 1, k) = SubSeq(a, 1, k)
  <2>1. IsPart(SubSeq(ab, 1, k), ab, 1, k) /\ IsPart(SubSeq(a, 1, k), a, 1, k)
    BY <1>2 DEF IsPart
  <2>2. PartFacts(SubSeq(ab, 1, k), ab, 1, k) /\ PartFacts(SubSeq(a, 1, k), a, 1, k)
    BY <2>1, PartIs, Zenon
  <2>3. PICK d : d = SubSeq(ab, 1, k)
    OBVIOUS
  <2>4. PICK e : e = SubSeq(a, 1, k)
    OBVIOUS
  <2>5. d \in Text /\ Len(d) = k /\ \A j \in 1 .. k : d[j] = ab[j]
    BY <2>2, <2>3 DEF PartFacts
  <2>6. e \in Text /\ Len(e) = k /\ \A j \in 1 .. k : e[j] = a[j]
    BY <2>2, <2>4 DEF PartFacts
  <2>7. \A j \in 1 .. k : d[j] = e[j]
    BY <1>2, <2>5, <2>6
  <2> QED BY <2>3, <2>4, <2>5, <2>6, <2>7, Equal
<1>4. DropBytes(ab, k) = DropBytes(a, k) \o b
  <2>1. PICK d : d = DropBytes(ab, k)
    OBVIOUS
  <2>2. PICK e : e = DropBytes(a, k)
    OBVIOUS
  <2>3. DropFacts(d, ab, k) /\ DropFacts(e, a, k)
    BY <1>2, <2>1, <2>2, DropIs DEF Drops
  <2>4. /\ d \in Text /\ Len(d) = Len(ab) - k /\ \A j \in 1 .. Len(ab) - k : d[j] = ab[k + j]
        /\ e \in Text /\ Len(e) = Len(a) - k /\ \A j \in 1 .. Len(a) - k : e[j] = a[k + j]
    BY <2>3 DEF DropFacts
  <2>5. PICK f : f = e \o b
    OBVIOUS
  <2>6. /\ f \in Text /\ Len(f) = Len(e) + Len(b)
        /\ \A i \in 1 .. Len(e) : f[i] = e[i]
        /\ \A i \in 1 .. Len(b) : f[Len(e) + i] = b[i]
    <3>1. Joins(f, e, b)
      BY <2>4, <2>5 DEF Joins
    <3> QED BY <3>1, JoinedIs
  <2>7. Len(d) = Len(f)
    BY <1>2, <2>4, <2>6
  <2>8. ASSUME NEW j \in 1 .. Len(d) PROVE d[j] = f[j]
    <3>1. CASE j <= Len(a) - k
      <4>1. j \in 1 .. Len(e) /\ k + j \in 1 .. Len(a) /\ j \in 1 .. Len(ab) - k /\ j \in 1 .. Len(a) - k
        BY <1>2, <2>4, <2>8, <3>1
      <4>2. d[j] = ab[k + j] /\ ab[k + j] = a[k + j] /\ f[j] = e[j] /\ e[j] = a[k + j]
        BY <1>2, <2>4, <2>6, <4>1
      <4> QED BY <4>2
    <3>2. CASE j > Len(a) - k
      <4>1. PICK i \in 1 .. Len(b) : k + j = Len(a) + i /\ j = Len(e) + i
        <5>1. j \in Nat /\ j <= Len(ab) - k
          BY <1>2, <2>4, <2>8
        <5>0. Len(a) \in Nat
          BY <1>2
        <5>2. PICK i \in Int : i = (k + j) - Len(a)
          <6>1. (k + j) - Len(a) \in Int
            BY <5>0, <5>1
          <6> QED BY <6>1
        <5>3. i \in 1 .. Len(b) /\ k + j = Len(a) + i /\ j = Len(e) + i
          BY <1>2, <2>4, <3>2, <5>1, <5>2
        <5> QED BY <5>3
      <4>2. d[j] = ab[k + j]
        BY <2>4, <2>8
      <4> QED BY <1>2, <2>6, <4>1, <4>2
    <3>3. j <= Len(a) - k \/ j > Len(a) - k
      BY <1>2, <2>4
    <3> QED BY <3>1, <3>2, <3>3, Zenon
  <2> QED BY <2>1, <2>2, <2>4, <2>5, <2>6, <2>7, <2>8, Equal
<1> QED BY <1>1, <1>3, <1>4

(* Where the first line ends.                                              *)
EndsAt(a, from, s) ==
  /\ s \in Nat /\ from <= s /\ s + 1 <= Len(a) /\ a[s] = "CR" /\ a[s + 1] = "LF"
  /\ \A j \in Nat : from <= j /\ j < s => ~(a[j] = "CR" /\ a[j + 1] = "LF")

LEMMA Newline ==
  ASSUME NEW a, a \in Text, NEW from \in Nat, NEW s
  PROVE  s \in seekNewline(a, from) <=> EndsAt(a, from, s)
<1> DEFINE at == {i \in from .. Len(a) - 1 : a[i] = "CR" /\ a[i + 1] = "LF"}
<1>1. Len(a) \in Nat
  BY Indexed
<1>2. s \in seekNewline(a, from) <=> s \in at /\ \A j \in at : s <= j
  BY DEF seekNewline
<1>3. ASSUME s \in at, \A j \in at : s <= j PROVE EndsAt(a, from, s)
  <2>1. s \in Nat /\ from <= s /\ s + 1 <= Len(a) /\ a[s] = "CR" /\ a[s + 1] = "LF"
    BY <1>1, <1>3
  <2>2. ASSUME NEW j \in Nat, from <= j, j < s PROVE ~(a[j] = "CR" /\ a[j + 1] = "LF")
    <3>1. j \in from .. Len(a) - 1
      BY <1>1, <2>1, <2>2
    <3> QED BY <1>3, <2>1, <2>2, <3>1
  <2> QED BY <2>1, <2>2 DEF EndsAt
<1>4. ASSUME EndsAt(a, from, s) PROVE s \in at /\ \A j \in at : s <= j
  BY <1>1, <1>4 DEF EndsAt
<1> QED BY <1>2, <1>3, <1>4

LEMMA NewlineMoves ==
  ASSUME NEW a, a \in Text, NEW k \in Nat, k <= Len(a), NEW s \in Int
  PROVE  s \in seekNewline(DropBytes(a, k), 1) <=> s + k \in seekNewline(a, k + 1)
<1>1. PICK b : b = DropBytes(a, k)
  OBVIOUS
<1>2. DropFacts(b, a, k)
  BY <1>1, DropIs DEF Drops
<1>3. b \in Text /\ Len(b) = Len(a) - k /\ Len(a) \in Nat /\ \A j \in 1 .. Len(a) - k : b[j] = a[k + j]
  BY <1>2, Indexed DEF DropFacts
<1>4. PICK from \in Nat : from = k + 1
  OBVIOUS
<1>5. PICK t \in Int : t = s + k
  OBVIOUS
<1>6. ASSUME EndsAt(b, 1, s) PROVE EndsAt(a, from, t)
  <2>1. /\ s \in Nat /\ 1 <= s /\ s + 1 <= Len(b) /\ b[s] = "CR" /\ b[s + 1] = "LF"
        /\ \A j \in Nat : 1 <= j /\ j < s => ~(b[j] = "CR" /\ b[j + 1] = "LF")
    BY <1>6 DEF EndsAt
  <2>2. t \in Nat /\ from <= t /\ t + 1 <= Len(a)
    BY <1>3, <1>4, <1>5, <2>1
  <2>3. a[t] = "CR" /\ a[t + 1] = "LF"
    <3>1. PICK z \in Int : z = s + 1
      OBVIOUS
    <3>2. s \in 1 .. Len(a) - k /\ z \in 1 .. Len(a) - k /\ k + s = t /\ k + z = t + 1
      BY <1>3, <1>5, <2>1, <3>1
    <3>3. b[s] = a[k + s] /\ b[z] = a[k + z]
      BY <1>3, <3>2
    <3> QED BY <2>1, <3>1, <3>2, <3>3
  <2>4. ASSUME NEW j \in Nat, from <= j, j < t PROVE ~(a[j] = "CR" /\ a[j + 1] = "LF")
    <3>1. PICK i \in Int : i = j - k
      OBVIOUS
    <3>2. PICK z \in Int : z = i + 1
      OBVIOUS
    <3>3. i \in Nat /\ 1 <= i /\ i < s /\ i \in 1 .. Len(a) - k /\ z \in 1 .. Len(a) - k /\ k + i = j /\ k + z = j + 1
      BY <1>3, <1>4, <1>5, <2>1, <2>4, <3>1, <3>2
    <3>4. b[i] = a[k + i] /\ b[z] = a[k + z]
      BY <1>3, <3>3
    <3>5. ~(b[i] = "CR" /\ b[z] = "LF")
      BY <2>1, <3>2, <3>3
    <3> QED BY <3>3, <3>4, <3>5
  <2> QED BY <2>2, <2>3, <2>4 DEF EndsAt
<1>7. ASSUME EndsAt(a, from, t) PROVE EndsAt(b, 1, s)
  <2>1. /\ t \in Nat /\ from <= t /\ t + 1 <= Len(a) /\ a[t] = "CR" /\ a[t + 1] = "LF"
        /\ \A j \in Nat : from <= j /\ j < t => ~(a[j] = "CR" /\ a[j + 1] = "LF")
    BY <1>7 DEF EndsAt
  <2>2. s \in Nat /\ 1 <= s /\ s + 1 <= Len(b)
    BY <1>3, <1>4, <1>5, <2>1
  <2>3. b[s] = "CR" /\ b[s + 1] = "LF"
    <3>1. PICK z \in Int : z = s + 1
      OBVIOUS
    <3>2. s \in 1 .. Len(a) - k /\ z \in 1 .. Len(a) - k /\ k + s = t /\ k + z = t + 1
      BY <1>3, <1>5, <2>2, <3>1
    <3>3. b[s] = a[k + s] /\ b[z] = a[k + z]
      BY <1>3, <3>2
    <3> QED BY <2>1, <3>1, <3>2, <3>3
  <2>4. ASSUME NEW i \in Nat, 1 <= i, i < s PROVE ~(b[i] = "CR" /\ b[i + 1] = "LF")
    <3>1. PICK j \in Nat : j = k + i
      OBVIOUS
    <3>2. PICK z \in Int : z = i + 1
      OBVIOUS
    <3>3. from <= j /\ j < t /\ i \in 1 .. Len(a) - k /\ z \in 1 .. Len(a) - k /\ k + i = j /\ k + z = j + 1
      BY <1>3, <1>4, <1>5, <2>2, <2>4, <3>1, <3>2
    <3>4. b[i] = a[k + i] /\ b[z] = a[k + z]
      BY <1>3, <3>3
    <3>5. ~(a[j] = "CR" /\ a[j + 1] = "LF")
      BY <2>1, <3>3
    <3> QED BY <3>2, <3>3, <3>4, <3>5
  <2> QED BY <2>2, <2>3, <2>4 DEF EndsAt
<1>8. s \in seekNewline(b, 1) <=> EndsAt(b, 1, s)
  BY <1>3, Newline
<1>9. t \in seekNewline(a, from) <=> EndsAt(a, from, t)
  BY <1>4, Newline
<1> QED BY <1>1, <1>4, <1>5, <1>6, <1>7, <1>8, <1>9

LEMMA NewlineStays ==
  ASSUME NEW a, a \in Text, NEW b, b \in Text, NEW s \in seekNewline(a, 1)
  PROVE  s \in seekNewline(a \o b, 1) /\ s \in Nat /\ 1 <= s /\ s + 1 <= Len(a)
<1>1. PICK ab : ab = a \o b
  OBVIOUS
<1>2. Joins(ab, a, b)
  BY <1>1 DEF Joins
<1>3. /\ ab \in Text /\ Len(ab) = Len(a) + Len(b) /\ Len(a) \in Nat /\ Len(b) \in Nat
      /\ \A i \in 1 .. Len(a) : ab[i] = a[i]
  BY <1>2, JoinedIs
<1>4. EndsAt(a, 1, s)
  BY Newline
<1>5. /\ s \in Nat /\ 1 <= s /\ s + 1 <= Len(a) /\ a[s] = "CR" /\ a[s + 1] = "LF"
      /\ \A j \in Nat : 1 <= j /\ j < s => ~(a[j] = "CR" /\ a[j + 1] = "LF")
  BY <1>4 DEF EndsAt
<1>6. ab[s] = "CR" /\ ab[s + 1] = "LF" /\ s + 1 <= Len(ab)
  BY <1>3, <1>5
<1>7. ASSUME NEW j \in Nat, 1 <= j, j < s PROVE ~(ab[j] = "CR" /\ ab[j + 1] = "LF")
  <2>1. j \in 1 .. Len(a) /\ j + 1 \in 1 .. Len(a)
    BY <1>3, <1>5, <1>7
  <2>2. ab[j] = a[j] /\ ab[j + 1] = a[j + 1]
    BY <1>3, <2>1
  <2> QED BY <1>5, <1>7, <2>2
<1>8. EndsAt(ab, 1, s)
  BY <1>5, <1>6, <1>7 DEF EndsAt
<1>9. s \in seekNewline(ab, 1)
  BY <1>3, <1>8, Newline
<1> QED BY <1>1, <1>5, <1>9

LEMMA OneNewline ==
  ASSUME NEW a, a \in Text, NEW from \in Nat, NEW s \in seekNewline(a, from), NEW t \in seekNewline(a, from)
  PROVE  s = t
<1>1. EndsAt(a, from, s) /\ EndsAt(a, from, t)
  BY Newline
<1>2. /\ s \in Nat /\ from <= s /\ a[s] = "CR" /\ a[s + 1] = "LF"
      /\ \A j \in Nat : from <= j /\ j < s => ~(a[j] = "CR" /\ a[j + 1] = "LF")
  BY <1>1 DEF EndsAt
<1>3. /\ t \in Nat /\ from <= t /\ a[t] = "CR" /\ a[t + 1] = "LF"
      /\ \A j \in Nat : from <= j /\ j < t => ~(a[j] = "CR" /\ a[j + 1] = "LF")
  BY <1>1 DEF EndsAt
<1>4. ~(s < t) /\ ~(t < s)
  BY <1>2, <1>3
<1> QED BY <1>2, <1>3, <1>4

-----------------------------------------------------------------------------
(* More bytes behind a reply change nothing of what is read before them.   *)
LineWith(l, more) == [line |-> l.line, rest |-> l.rest \o more]
ItemWith(i, more) == [object |-> i.object, elements |-> i.elements, rest |-> i.rest \o more]
ViewWith(u, more) == [rest |-> u.rest \o more, made |-> u.made]

LEMMA LinesStay ==
  ASSUME NEW a, a \in Text, NEW b, b \in Text, NEW l \in Lines(a)
  PROVE  /\ l.line \in Text /\ l.rest \in Text
         /\ LineWith(l, b) \in Lines(a \o b)
<1>1. PICK s \in seekNewline(a, 1) : l = [line |-> SubSeq(a, 1, s - 1), rest |-> DropBytes(a, s + 1)]
  BY DEF Lines
<1>2. s \in seekNewline(a \o b, 1) /\ s \in Nat /\ 1 <= s /\ s + 1 <= Len(a) /\ Len(a) \in Nat
  BY NewlineStays, Indexed
<1>3. PICK k \in Nat : k = s - 1 /\ k <= Len(a)
  BY <1>2
<1>4. PICK m \in Nat : m = s + 1 /\ m <= Len(a)
  BY <1>2
<1>5. l.line = SubSeq(a, 1, k) /\ l.rest = DropBytes(a, m)
  BY <1>1, <1>3, <1>4
<1>6. l.line \in Text
  BY <1>3, <1>5, SubTexts
<1>7. l.rest \in Text
  BY <1>4, <1>5, DropTexts
<1>8. SubSeq(a \o b, 1, k) = SubSeq(a, 1, k)
  BY <1>3, PartOfMore
<1>9. DropBytes(a \o b, m) = DropBytes(a, m) \o b
  BY <1>4, PartOfMore
<1>10. LineWith(l, b) = [line |-> SubSeq(a \o b, 1, s - 1), rest |-> DropBytes(a \o b, s + 1)]
  BY <1>3, <1>4, <1>5, <1>8, <1>9 DEF LineWith
<1> QED BY <1>2, <1>6, <1>7, <1>10 DEF Lines

LEMMA BulkItemsStay ==
  ASSUME NEW l, l.line \in Text, l.rest \in Text, NEW b, b \in Text, NEW i \in BulkItems(l)
  PROVE  i.rest \in Text /\ ItemWith(i, b) \in BulkItems(LineWith(l, b))
<1> DEFINE more == LineWith(l, b)
<1>1. more.line = l.line /\ more.rest = l.rest \o b
  BY DEF LineWith
<1>2. Len(l.rest) \in Nat /\ Len(b) \in Nat /\ Len(more.rest) = Len(l.rest) + Len(b) /\ string2ll(l.line) \subseteq Int
  BY <1>1, Joined, Indexed, string2llTypes
<1> HIDE DEF more
<1>3. ASSUME NEW k \in {-1} \cap string2ll(l.line), i = Single(Nil, l.rest)
      PROVE  i.rest \in Text /\ ItemWith(i, b) \in BulkItems(more)
  <2>1. ItemWith(i, b) = Single(Nil, more.rest) /\ i.rest = l.rest
    BY <1>1, <1>3 DEF ItemWith, Single
  <2> QED BY <1>1, <1>3, <2>1 DEF BulkItems
<1>4. ASSUME NEW k \in string2ll(l.line), k >= 0, k + 2 <= Len(l.rest),
             i = Single(String("string", SubSeq(l.rest, 1, k)), DropBytes(l.rest, k + 2))
      PROVE  i.rest \in Text /\ ItemWith(i, b) \in BulkItems(more)
  <2>1. k \in Nat /\ k <= Len(l.rest) /\ k + 2 <= Len(more.rest)
    BY <1>2, <1>4
  <2>2. PICK m \in Nat : m = k + 2 /\ m <= Len(l.rest)
    BY <1>4, <2>1
  <2>3. SubSeq(more.rest, 1, k) = SubSeq(l.rest, 1, k)
    BY <1>1, <2>1, PartOfMore
  <2>4. DropBytes(more.rest, m) = DropBytes(l.rest, m) \o b
    BY <1>1, <2>2, PartOfMore
  <2>5. DropBytes(l.rest, m) \in Text
    BY <2>2, DropTexts
  <2>6. ItemWith(i, b) = Single(String("string", SubSeq(more.rest, 1, k)), DropBytes(more.rest, k + 2))
    BY <1>4, <2>2, <2>3, <2>4 DEF ItemWith, Single
  <2>7. i.rest \in Text
    BY <1>4, <2>2, <2>5 DEF Single
  <2>8. k \in {j \in string2ll(more.line) : j >= 0 /\ j + 2 <= Len(more.rest)}
    BY <1>1, <1>4, <2>1
  <2> QED BY <2>6, <2>7, <2>8 DEF BulkItems
<1>5. \/ \E k \in {-1} \cap string2ll(l.line) : i = Single(Nil, l.rest)
      \/ \E k \in string2ll(l.line) : /\ k >= 0 /\ k + 2 <= Len(l.rest)
                                      /\ i = Single(String("string", SubSeq(l.rest, 1, k)), DropBytes(l.rest, k + 2))
  BY DEF BulkItems
<1> QED BY <1>3, <1>4, <1>5 DEF more

LEMMA ItemsStay ==
  ASSUME NEW type, NEW l, l.line \in Text, l.rest \in Text, NEW b, b \in Text, NEW i \in Items(type, l)
  PROVE  i.rest \in Text /\ ItemWith(i, b) \in Items(type, LineWith(l, b))
<1> DEFINE more == LineWith(l, b)
<1>1. more.line = l.line /\ more.rest = l.rest \o b
  BY DEF LineWith
<1> HIDE DEF more
<1>2. CASE type = "string"
  <2>1. i \in BulkItems(l)
    BY <1>2 DEF Items
  <2>2. i.rest \in Text /\ ItemWith(i, b) \in BulkItems(LineWith(l, b))
    BY <2>1, BulkItemsStay
  <2> QED BY <1>2, <2>2 DEF Items
<1>3. CASE type = "array"
  <2>1. i \in MultiBulkItems(l)
    BY <1>3 DEF Items
  <2>2. ASSUME NEW k \in {-1} \cap string2ll(l.line), i = Single(Nil, l.rest)
        PROVE  i.rest \in Text /\ ItemWith(i, b) \in MultiBulkItems(more)
    <3>1. ItemWith(i, b) = Single(Nil, more.rest) /\ i.rest = l.rest
      BY <1>1, <2>2 DEF ItemWith, Single
    <3> QED BY <1>1, <2>2, <3>1 DEF MultiBulkItems
  <2>3. ASSUME NEW k \in {j \in string2ll(l.line) : j >= 0 /\ j <= INT_MAX},
               i = [object |-> Array(k), elements |-> k, rest |-> l.rest]
        PROVE  i.rest \in Text /\ ItemWith(i, b) \in MultiBulkItems(more)
    <3>1. ItemWith(i, b) = [object |-> Array(k), elements |-> k, rest |-> more.rest] /\ i.rest = l.rest
      BY <1>1, <2>3 DEF ItemWith
    <3> QED BY <1>1, <2>3, <3>1 DEF MultiBulkItems
  <2>4. i.rest \in Text /\ ItemWith(i, b) \in MultiBulkItems(more)
    BY <2>1, <2>2, <2>3 DEF MultiBulkItems
  <2> QED BY <1>3, <2>4 DEF Items, more
<1>4. CASE type # "string" /\ type # "array"
  <2>1. i \in LineItems(type, l)
    BY <1>4 DEF Items
  <2>2. ASSUME NEW object, i = Single(object, l.rest)
        PROVE  i.rest \in Text /\ ItemWith(i, b) = Single(object, more.rest)
    BY <1>1, <2>2 DEF ItemWith, Single
  <2>3. CASE type = "integer"
    <3>1. PICK v \in string2ll(l.line) : i = Single(Integer(v), l.rest)
      BY <2>1, <2>3 DEF LineItems
    <3>2. i.rest \in Text /\ ItemWith(i, b) = Single(Integer(v), more.rest)
      BY <2>2, <3>1
    <3>3. ItemWith(i, b) \in LineItems(type, more)
      BY <1>1, <2>3, <3>1, <3>2 DEF LineItems
    <3> QED BY <1>4, <3>2, <3>3 DEF Items, more
  <2>4. CASE type # "integer"
    <3>1. i = Single(String(type, l.line), l.rest)
      BY <2>1, <2>4 DEF LineItems
    <3>2. i.rest \in Text /\ ItemWith(i, b) = Single(String(type, l.line), more.rest)
      BY <2>2, <3>1
    <3>3. ItemWith(i, b) \in LineItems(type, more)
      BY <1>1, <2>4, <3>2 DEF LineItems
    <3> QED BY <1>4, <3>2, <3>3 DEF Items, more
  <2> QED BY <2>3, <2>4
<1> QED BY <1>2, <1>3, <1>4

LEMMA StepsStay ==
  ASSUME NEW u, u.rest \in Text, NEW b, b \in Text, NEW v \in Steps(u)
  PROVE  v.rest \in Text /\ ViewWith(v, b) \in Steps(ViewWith(u, b))
<1> DEFINE more == ViewWith(u, b)
<1>1. more.made = u.made /\ more.rest = u.rest \o b
  BY DEF ViewWith
<1> HIDE DEF more
<1>2. u.made.rstack # <<>>
  BY DEF Steps
<1>3. CASE Last(u.made.rstack).type = "none"
  <2>1. v \in TypeSteps(u)
    BY <1>2, <1>3 DEF Steps
  <2>2. /\ u.rest # <<>> /\ u.rest[1] \in DOMAIN TypeOf
        /\ v = [rest |-> DropBytes(u.rest, 1),
                made |-> [u.made EXCEPT !.rstack[Len(u.made.rstack)].type = TypeOf[u.rest[1]]]]
    BY <2>1 DEF TypeSteps
  <2>3. Len(u.rest) \in Nat /\ 1 <= Len(u.rest) /\ Len(b) \in Nat
    BY <2>2, Indexed
  <2>4. /\ DropBytes(u.rest, 1) \in Text
        /\ DropBytes(more.rest, 1) = DropBytes(u.rest, 1) \o b
    <3>1. PICK text : text = u.rest /\ text \in Text /\ 1 <= Len(text)
      BY <2>3
    <3>2. DropBytes(text, 1) \in Text
      BY <3>1, DropTexts
    <3>3. DropBytes(text \o b, 1) = DropBytes(text, 1) \o b
      BY <3>1, PartOfMore
    <3> QED BY <1>1, <3>1, <3>2, <3>3
  <2>5. more.rest[1] = u.rest[1] /\ more.rest # <<>>
    <3>1. Joins(more.rest, u.rest, b)
      BY <1>1 DEF Joins
    <3>2. more.rest \in Text /\ Len(more.rest) = Len(u.rest) + Len(b) /\ \A i \in 1 .. Len(u.rest) : more.rest[i] = u.rest[i]
      BY <3>1, JoinedIs
    <3> QED BY <2>3, <3>2, Indexed
  <2>6. ViewWith(v, b) = [rest |-> DropBytes(more.rest, 1),
                          made |-> [more.made EXCEPT !.rstack[Len(more.made.rstack)].type = TypeOf[more.rest[1]]]]
    BY <1>1, <2>2, <2>4, <2>5 DEF ViewWith
  <2>7. ViewWith(v, b) \in TypeSteps(more)
    BY <2>2, <2>5, <2>6 DEF TypeSteps
  <2>8. ViewWith(v, b) \in Steps(more)
    BY <1>1, <1>2, <1>3, <2>7 DEF Steps
  <2>9. v.rest \in Text
    BY <2>2, <2>4
  <2> QED BY <2>8, <2>9 DEF more
<1>4. CASE Last(u.made.rstack).type # "none"
  <2> DEFINE type == Last(u.made.rstack).type
  <2>1. v \in ItemSteps(u)
    BY <1>2, <1>4 DEF Steps
  <2>2. ~(type = "array" /\ Len(u.made.rstack) = MaxDepth + 1)
    BY <2>1 DEF ItemSteps
  <2>3. PICK l \in Lines(u.rest) : \E i \in Items(type, l) : v = [rest |-> i.rest, made |-> Put(u.made, i)]
    BY <2>1, <2>2 DEF ItemSteps
  <2>4. PICK i \in Items(type, l) : v = [rest |-> i.rest, made |-> Put(u.made, i)]
    BY <2>3
  <2> HIDE DEF type
  <2>5. l.line \in Text /\ l.rest \in Text /\ LineWith(l, b) \in Lines(more.rest)
    BY <1>1, LinesStay
  <2>6. i.rest \in Text /\ ItemWith(i, b) \in Items(type, LineWith(l, b))
    BY <2>5, ItemsStay
  <2>7. Put(u.made, ItemWith(i, b)) = Put(u.made, i)
    BY DEF Put, ItemWith
  <2>8. ViewWith(v, b) = [rest |-> ItemWith(i, b).rest, made |-> Put(more.made, ItemWith(i, b))]
    BY <1>1, <2>4, <2>7 DEF ViewWith, ItemWith
  <2>9. ViewWith(v, b) \in ItemSteps(more)
    <3>1. ~(Last(more.made.rstack).type = "array" /\ Len(more.made.rstack) = MaxDepth + 1)
      BY <1>1, <2>2 DEF type
    <3>2. ViewWith(v, b) \in {[rest |-> k.rest, made |-> Put(more.made, k)] : k \in Items(type, LineWith(l, b))}
      BY <2>6, <2>8
    <3>3. type = Last(more.made.rstack).type
      BY <1>1 DEF type
    <3> QED BY <2>5, <3>1, <3>2, <3>3 DEF ItemSteps
  <2>10. ViewWith(v, b) \in Steps(more)
    BY <1>1, <1>2, <1>4, <2>9 DEF Steps
  <2> QED BY <2>4, <2>6, <2>10 DEF more
<1> QED BY <1>3, <1>4

LEMMA NothingToRead ==
  ASSUME NEW u, u.rest = <<>>
  PROVE  Steps(u) = {}
<1>1. <<>> \in Text /\ Len(<<>>) = 0
  BY DEF Text
<1>2. seekNewline(<<>>, 1) = {}
  BY <1>1 DEF seekNewline
<1>3. Lines(u.rest) = {}
  BY <1>2 DEF Lines
<1>4. ItemSteps(u) = {} /\ TypeSteps(u) = {}
  BY <1>3 DEF ItemSteps, TypeSteps
<1> QED BY <1>4 DEF Steps

-----------------------------------------------------------------------------
(* The reader of the library, seen as such a reader.                       *)
Rest(rd) == DropBytes(rd.buf, rd.pos)
MadeBy(rd) == [rstack |-> rd.rstack, objs |-> rd.objs, reply |-> rd.reply]
ViewOf(rd) == [rest |-> Rest(rd), made |-> MadeBy(rd)]

LEMMA RestTypes ==
  ASSUME NEW rd, ReaderOK(rd)
  PROVE  /\ Rest(rd) \in Text /\ Len(Rest(rd)) = Len(rd.buf) - rd.pos
         /\ rd \in Readers /\ rd.buf \in Text /\ rd.pos \in Nat /\ Len(rd.buf) \in Nat /\ rd.pos <= Len(rd.buf)
<1>1. rd \in Readers /\ rd.buf \in Text /\ rd.pos \in Nat /\ Len(rd.buf) \in Nat /\ rd.pos <= Len(rd.buf)
  BY ReaderTypes DEF ReaderOK
<1> QED BY <1>1, DropTexts DEF Rest

LEMMA LineHere ==
  ASSUME NEW rd, ReaderOK(rd), NEW s \in seekNewline(rd.buf, rd.pos + 1)
  PROVE  /\ Lines(Rest(rd)) = {[line |-> Line(rd, s), rest |-> DropBytes(rd.buf, s + 1)]}
         /\ s \in Nat /\ s + 1 <= Len(rd.buf)
<1>1. /\ Rest(rd) \in Text /\ Len(Rest(rd)) = Len(rd.buf) - rd.pos
      /\ rd.buf \in Text /\ rd.pos \in Nat /\ Len(rd.buf) \in Nat /\ rd.pos <= Len(rd.buf)
  BY RestTypes
<1>2. s \in Nat /\ s > rd.pos /\ s + 1 <= Len(rd.buf)
  BY LineEnds
<1>3. PICK e \in Nat : e + rd.pos = s /\ e >= 1
  <2>1. s - rd.pos \in Nat /\ (s - rd.pos) + rd.pos = s /\ s - rd.pos >= 1
    BY <1>1, <1>2
  <2> QED BY <2>1
<1>4. PICK text : text = rd.buf
  OBVIOUS
<1>5. PICK k \in Nat : k = rd.pos
  BY <1>1
<1>6. text \in Text /\ k <= Len(text) /\ Rest(rd) = DropBytes(text, k)
  BY <1>1, <1>4, <1>5 DEF Rest
<1>7. e \in seekNewline(Rest(rd), 1)
  <2>1. e + k \in seekNewline(text, k + 1)
    BY <1>3, <1>4, <1>5
  <2> QED BY <1>3, <1>6, <2>1, NewlineMoves
<1>8. seekNewline(Rest(rd), 1) = {e}
  <2>1. \A x \in seekNewline(Rest(rd), 1) : x = e
    BY <1>1, <1>7, OneNewline
  <2> QED BY <1>7, <2>1
<1>9. Lines(Rest(rd)) = {[line |-> SubSeq(Rest(rd), 1, e - 1), rest |-> DropBytes(Rest(rd), e + 1)]}
  BY <1>8 DEF Lines
<1>10. SubSeq(Rest(rd), 1, e - 1) = Line(rd, s)
  <2>1. PICK m \in Nat : m = e - 1
    BY <1>3
  <2>2. k + m <= Len(text) /\ k + m = s - 1
    <3>1. k + m = s - 1
      BY <1>2, <1>3, <1>5, <2>1
    <3>2. s - 1 <= Len(text)
      BY <1>1, <1>2, <1>4
    <3> QED BY <3>1, <3>2
  <2>3. SubSeq(DropBytes(text, k), 1, m) = SubSeq(text, k + 1, k + m)
    BY <1>6, <2>2, PartOfDrop
  <2> QED BY <1>4, <1>5, <1>6, <2>1, <2>2, <2>3 DEF Line
<1>11. DropBytes(Rest(rd), e + 1) = DropBytes(rd.buf, s + 1)
  <2>1. PICK m \in Nat : m = e + 1
    BY <1>3
  <2>2. k + m <= Len(text) /\ k + m = s + 1
    BY <1>2, <1>3, <1>4, <1>5, <2>1
  <2>3. DropBytes(DropBytes(text, k), m) = DropBytes(text, k + m)
    BY <1>6, <2>2, DropAgain
  <2> QED BY <1>4, <1>6, <2>1, <2>2, <2>3
<1> QED BY <1>2, <1>9, <1>10, <1>11

LEMMA NoLineHere ==
  ASSUME NEW rd, ReaderOK(rd), seekNewline(rd.buf, rd.pos + 1) = {}
  PROVE  Lines(Rest(rd)) = {}
<1>1. /\ Rest(rd) \in Text
      /\ rd.buf \in Text /\ rd.pos \in Nat /\ Len(rd.buf) \in Nat /\ rd.pos <= Len(rd.buf)
  BY RestTypes
<1>2. ASSUME NEW e \in seekNewline(Rest(rd), 1) PROVE FALSE
  <2>1. EndsAt(Rest(rd), 1, e)
    BY <1>1, Newline
  <2>2. e \in Int
    BY <2>1 DEF EndsAt
  <2>3. e + rd.pos \in seekNewline(rd.buf, rd.pos + 1)
    BY <1>1, <1>2, <2>2, NewlineMoves DEF Rest
  <2> QED BY <2>3
<1> QED BY <1>2 DEF Lines

(* Objects are put in their places in the same way.                        *)
ObjsWith(m, object) ==
  LET objs == Append(m.objs, object)
      depth == Len(m.rstack)
  IN  IF depth = 1 THEN objs
      ELSE [objs EXCEPT ![m.rstack[depth - 1].obj].element[m.rstack[depth].idx + 1] = Len(m.objs) + 1]

ReplyWith(m) == IF Len(m.rstack) = 1 THEN Len(m.objs) + 1 ELSE m.reply

LEMMA CreateHere ==
  ASSUME NEW rd, ReaderOK(rd), NEW object
  PROVE  LET a == Create(rd, object)
         IN  /\ DOMAIN a = {"buf", "pos", "err", "rstack", "objs", "reply"}
             /\ a.buf = rd.buf /\ a.pos = rd.pos /\ a.err = rd.err /\ a.rstack = rd.rstack
             /\ a.objs = ObjsWith(rd, object) /\ a.reply = ReplyWith(rd)
<1>1. DOMAIN rd = {"buf", "pos", "err", "rstack", "objs", "reply"}
  BY DEF ReaderOK, Readers
<1>2. CASE Len(rd.rstack) = 1
  BY <1>1, <1>2 DEF Create, ObjsWith, ReplyWith
<1>3. CASE Len(rd.rstack) # 1
  BY <1>1, <1>3 DEF Create, ObjsWith, ReplyWith
<1> QED BY <1>2, <1>3

LEMMA CreateThere ==
  ASSUME NEW rd, NEW object
  PROVE  Create(MadeBy(rd), object) = [rstack |-> rd.rstack, objs |-> ObjsWith(rd, object), reply |-> ReplyWith(rd)]
<1>1. CASE Len(rd.rstack) = 1
  BY <1>1 DEF Create, ObjsWith, ReplyWith, MadeBy
<1>2. CASE Len(rd.rstack) # 1
  BY <1>2 DEF Create, ObjsWith, ReplyWith, MadeBy
<1> QED BY <1>1, <1>2

LEMMA FinishedView ==
  ASSUME NEW rd, ReaderOK(rd), NEW object
  PROVE  ViewOf(Finished(rd, object)) = [rest |-> Rest(rd), made |-> Put(MadeBy(rd), Single(object, Rest(rd)))]
<1>1. PICK a : a = Create(rd, object)
  OBVIOUS
<1>2. /\ DOMAIN a = {"buf", "pos", "err", "rstack", "objs", "reply"}
      /\ a.buf = rd.buf /\ a.pos = rd.pos /\ a.rstack = rd.rstack
      /\ a.objs = ObjsWith(rd, object) /\ a.reply = ReplyWith(rd)
  BY <1>1, CreateHere
<1>3. Finished(rd, object) = [a EXCEPT !.rstack = moveToNextTask(a.rstack)]
  BY <1>1 DEF Finished
<1>4. ViewOf(Finished(rd, object)) =
        [rest |-> Rest(rd), made |-> [rstack |-> moveToNextTask(rd.rstack), objs |-> ObjsWith(rd, object), reply |-> ReplyWith(rd)]]
  BY <1>2, <1>3 DEF ViewOf, MadeBy, Rest
<1>5. Put(MadeBy(rd), Single(object, Rest(rd))) =
        [rstack |-> moveToNextTask(rd.rstack), objs |-> ObjsWith(rd, object), reply |-> ReplyWith(rd)]
  BY CreateThere DEF Put, Single
<1> QED BY <1>4, <1>5

LEMMA DeeperView ==
  ASSUME NEW rd, ReaderOK(rd), NEW k \in Nat, k > 0, NEW item, item.object = Array(k), item.elements = k
  PROVE  ViewOf(Deeper(Create(rd, Array(k)), Len(rd.rstack), k)) = [rest |-> Rest(rd), made |-> Put(MadeBy(rd), item)]
<1>1. PICK a : a = Create(rd, Array(k))
  OBVIOUS
<1>2. PICK m : m = Create(MadeBy(rd), Array(k))
  OBVIOUS
<1>3. /\ DOMAIN a = {"buf", "pos", "err", "rstack", "objs", "reply"}
      /\ a.buf = rd.buf /\ a.pos = rd.pos /\ a.rstack = rd.rstack
      /\ a.objs = ObjsWith(rd, Array(k)) /\ a.reply = ReplyWith(rd)
  BY <1>1, CreateHere
<1>4. m = [rstack |-> a.rstack, objs |-> a.objs, reply |-> a.reply]
  BY <1>2, <1>3, CreateThere
<1>5. PICK d : d = Len(rd.rstack)
  OBVIOUS
<1>6. PICK stack : stack = Append([a.rstack EXCEPT ![d] = [a.rstack[d] EXCEPT !.elements = k, !.obj = Len(a.objs)]], NewTask(0))
  OBVIOUS
<1>7. Deeper(a, d, k) = [a EXCEPT !.rstack = stack]
  BY <1>6 DEF Deeper
<1>8. Deeper(m, d, k) = [m EXCEPT !.rstack = stack]
  BY <1>4, <1>6 DEF Deeper
<1>9. ViewOf(Deeper(a, d, k)) = [rest |-> Rest(rd), made |-> [rstack |-> stack, objs |-> a.objs, reply |-> a.reply]]
  BY <1>3, <1>7 DEF ViewOf, MadeBy, Rest
<1>10. Put(MadeBy(rd), item) = Deeper(m, d, k)
  BY <1>2, <1>5 DEF Put, MadeBy
<1>11. Deeper(m, d, k) = [rstack |-> stack, objs |-> a.objs, reply |-> a.reply]
  BY <1>4, <1>8
<1> QED BY <1>1, <1>5, <1>9, <1>10, <1>11

LEMMA BehindView ==
  ASSUME NEW rd, ReaderOK(rd), NEW p \in Nat, p <= Len(rd.buf)
  PROVE  LET to == [rd EXCEPT !.pos = p]
         IN  ReaderOK(to) /\ MadeBy(to) = MadeBy(rd) /\ Rest(to) = DropBytes(rd.buf, p) /\ to.err = rd.err /\ to.rstack = rd.rstack
<1>1. DOMAIN rd = {"buf", "pos", "err", "rstack", "objs", "reply"}
  BY DEF ReaderOK, Readers
<1> QED BY <1>1, Behind DEF MadeBy, Rest

ReadOn(u, w) == w = u \/ w \in Steps(u)

LineAt(rd, s) == [line |-> Line(rd, s), rest |-> DropBytes(rd.buf, s + 1)]

(* The type of the current item is known, and its array is not too deep.   *)
AtItem(rd, type) ==
  /\ ReaderOK(rd) /\ rd.rstack # <<>> /\ Last(rd.rstack).type = type /\ type # "none"
  /\ ~(type = "array" /\ Len(rd.rstack) = MaxDepth + 1)

LEMMA StepHere ==
  ASSUME NEW rd, NEW type, AtItem(rd, type), NEW s \in seekNewline(rd.buf, rd.pos + 1),
         NEW item \in Items(type, LineAt(rd, s))
  PROVE  [rest |-> item.rest, made |-> Put(MadeBy(rd), item)] \in Steps(ViewOf(rd))
<1>1. PICK u : u = ViewOf(rd)
  OBVIOUS
<1>2. u.rest = Rest(rd) /\ u.made = MadeBy(rd) /\ u.made.rstack = rd.rstack
  BY <1>1 DEF ViewOf, MadeBy
<1>3. LineAt(rd, s) \in Lines(u.rest)
  BY <1>2, LineHere DEF AtItem, LineAt
<1>4. Steps(u) = ItemSteps(u)
  BY <1>2 DEF Steps, AtItem
<1>5. [rest |-> item.rest, made |-> Put(u.made, item)] \in ItemSteps(u)
  <2>1. Last(u.made.rstack).type = type /\ ~(type = "array" /\ Len(u.made.rstack) = MaxDepth + 1)
    BY <1>2 DEF AtItem
  <2> QED BY <1>3, <2>1 DEF ItemSteps
<1> QED BY <1>1, <1>2, <1>4, <1>5

LEMMA StuckHere ==
  ASSUME NEW rd, NEW type, AtItem(rd, type),
         \/ seekNewline(rd.buf, rd.pos + 1) = {}
         \/ \E s \in seekNewline(rd.buf, rd.pos + 1) : Items(type, LineAt(rd, s)) = {}
  PROVE  Steps(ViewOf(rd)) = {}
<1>1. PICK u : u = ViewOf(rd)
  OBVIOUS
<1>2. u.rest = Rest(rd) /\ u.made = MadeBy(rd) /\ u.made.rstack = rd.rstack
  BY <1>1 DEF ViewOf, MadeBy
<1>3. Steps(u) = ItemSteps(u)
  BY <1>2 DEF Steps, AtItem
<1>4. \A l \in Lines(u.rest) : Items(type, l) = {}
  <2>1. CASE seekNewline(rd.buf, rd.pos + 1) = {}
    BY <1>2, <2>1, NoLineHere DEF AtItem
  <2>2. ASSUME NEW s \in seekNewline(rd.buf, rd.pos + 1), Items(type, LineAt(rd, s)) = {}
        PROVE  \A l \in Lines(u.rest) : Items(type, l) = {}
    <3>1. Lines(u.rest) = {LineAt(rd, s)}
      BY <1>2, <2>2, LineHere DEF AtItem, LineAt
    <3> QED BY <2>2, <3>1
  <2> QED BY <2>1, <2>2
<1>5. ItemSteps(u) = {}
  <2>1. Last(u.made.rstack).type = type
    BY <1>2 DEF AtItem
  <2> QED BY <1>4, <2>1 DEF ItemSteps
<1> QED BY <1>1, <1>3, <1>5

LEMMA TypedView ==
  ASSUME IInv, NEW types, ItemOf(types)
  PROVE  /\ pc = "item" /\ ReaderOK(Typed) /\ Typed.rstack # <<>> /\ Len(Typed.rstack) = Len(r.rstack)
         /\ Last(Typed.rstack).type \in types /\ Typed.err = r.err /\ ReadOn(ViewOf(r), ViewOf(Typed))
<1>1. /\ pc = "item" /\ ReaderOK(Typed) /\ Typed.rstack # <<>> /\ Len(Typed.rstack) = Len(r.rstack)
      /\ Last(Typed.rstack).type \in types
  BY ItemStarts
<1>2. /\ r.rstack # <<>> /\ ~NoByte /\ (Untyped => r.buf[r.pos + 1] \in DOMAIN TypeOf) /\ ReaderOK(r)
  BY DEF ItemOf, Parsing, IInv
<1>3. /\ Rest(r) \in Text /\ Len(Rest(r)) = Len(r.buf) - r.pos /\ r \in Readers
      /\ r.buf \in Text /\ r.pos \in Nat /\ Len(r.buf) \in Nat /\ r.pos <= Len(r.buf)
  BY <1>2, RestTypes
<1>4. CASE ~Untyped
  BY <1>1, <1>4 DEF Typed, ReadOn
<1>5. CASE Untyped
  <2>1. r.pos + 1 <= Len(r.buf) /\ r.pos + 1 \in Nat
    BY <1>2, <1>3, <1>5 DEF NoByte
  <2>2. Rest(r) # <<>> /\ Rest(r)[1] = r.buf[r.pos + 1]
    <3>1. DropFacts(Rest(r), r.buf, r.pos)
      BY <1>3, DropIs DEF Drops, Rest
    <3>2. 1 \in 1 .. Len(r.buf) - r.pos
      BY <1>3, <2>1
    <3>3. Rest(r)[1] = r.buf[r.pos + 1]
      BY <3>1, <3>2 DEF DropFacts
    <3>4. Len(Rest(r)) # 0
      BY <1>3, <2>1
    <3> QED BY <1>3, <3>3, <3>4, Indexed
  <2>3. DropBytes(Rest(r), 1) = DropBytes(r.buf, r.pos + 1)
    BY <1>3, <2>1, DropAgain DEF Rest
  <2>4. Typed = [r EXCEPT !.pos = @ + 1, !.rstack[ridx + 1].type = TypeOf[r.buf[r.pos + 1]]]
    BY <1>5 DEF Typed
  <2>5. ridx + 1 = Len(r.rstack) /\ DOMAIN r = {"buf", "pos", "err", "rstack", "objs", "reply"}
    <3>1. Len(r.rstack) \in Nat
      BY <1>3, ReaderTypes
    <3> QED BY <1>3, <3>1 DEF ridx, Readers
  <2>6. PICK d : d = Len(r.rstack)
    OBVIOUS
  <2>7. PICK type : type = TypeOf[Rest(r)[1]]
    OBVIOUS
  <2>8. Typed = [r EXCEPT !.pos = r.pos + 1, !.rstack[d].type = type]
    BY <2>2, <2>4, <2>5, <2>6, <2>7
  <2>9. /\ Typed.buf = r.buf /\ Typed.pos = r.pos + 1 /\ Typed.err = r.err /\ Typed.objs = r.objs /\ Typed.reply = r.reply
        /\ Typed.rstack = [r.rstack EXCEPT ![d].type = type]
    BY <2>5, <2>8
  <2>10. ViewOf(Typed) = [rest |-> DropBytes(Rest(r), 1), made |-> [MadeBy(r) EXCEPT !.rstack[d].type = type]]
    BY <2>3, <2>9 DEF ViewOf, MadeBy, Rest
  <2>11. ViewOf(Typed) \in TypeSteps(ViewOf(r))
    <3>1. ViewOf(r).rest = Rest(r) /\ ViewOf(r).made = MadeBy(r) /\ MadeBy(r).rstack = r.rstack
      BY DEF ViewOf, MadeBy
    <3> QED BY <1>2, <1>5, <2>2, <2>6, <2>7, <2>10, <3>1 DEF TypeSteps
  <2>12. Steps(ViewOf(r)) = TypeSteps(ViewOf(r))
    BY <1>2, <1>5 DEF Steps, Untyped, ViewOf, MadeBy
  <2> QED BY <1>1, <2>9, <2>11, <2>12 DEF ReadOn
<1> QED BY <1>4, <1>5

(* What a turn of processItem comes to.                                    *)
Outcome ==
  \/ /\ pc' = "emit" /\ c' = c /\ answer' = answer /\ r'.err = r.err /\ r'.rstack # <<>>
     /\ ReadOn(ViewOf(r), ViewOf(r')) /\ Steps(ViewOf(r')) = {}
  \/ /\ pc' = "item" /\ c' = c /\ answer' = answer /\ r'.err = r.err
     /\ \E w : ReadOn(ViewOf(r), w) /\ ViewOf(r') \in Steps(w)
  \/ /\ pc' = "return" /\ answer' = NULL /\ r'.err # "0" /\ c' = redisSetError(r'.err)

LEMMA FailedOutcome ==
  ASSUME NEW rd, NEW e \in {"OOM", "PROTOCOL"}, ReaderError(rd, e)
  PROVE  Outcome
<1>1. r' = [NewReader EXCEPT !.err = e]
  BY DEF ReaderError
<1>2. r'.err = e
  BY <1>1 DEF NewReader
<1> QED BY <1>2 DEF ReaderError, ReturnNull, Outcome

LEMMA StuckOutcome ==
  ASSUME NEW rd, NeedMore(rd), rd.err = r.err, rd.rstack # <<>>, ReadOn(ViewOf(r), ViewOf(rd)), Steps(ViewOf(rd)) = {}
  PROVE  Outcome
BY DEF NeedMore, Outcome

(* An item that leaves no more to do for its array.                        *)
LEMMA DoneOutcome ==
  ASSUME NEW rd, NEW type, AtItem(rd, type), rd.err = r.err, ReadOn(ViewOf(r), ViewOf(rd)),
         NEW s \in seekNewline(rd.buf, rd.pos + 1), NEW p \in Nat, p <= Len(rd.buf),
         NEW object, Single(object, DropBytes(rd.buf, p)) \in Items(type, LineAt(rd, s)),
         ItemDone([rd EXCEPT !.pos = p], object)
  PROVE  Outcome
<1>1. PICK to : to = [rd EXCEPT !.pos = p]
  OBVIOUS
<1>2. ReaderOK(to) /\ MadeBy(to) = MadeBy(rd) /\ Rest(to) = DropBytes(rd.buf, p) /\ to.err = rd.err
  BY <1>1, BehindView DEF AtItem
<1>3. CASE ReaderError(to, "OOM")
  BY <1>3, FailedOutcome
<1>4. CASE r' = Finished(to, object) /\ pc' = "item" /\ c' = c /\ answer' = answer
  <2>1. PICK item : item = Single(object, Rest(to))
    OBVIOUS
  <2>2. item \in Items(type, LineAt(rd, s)) /\ item.rest = Rest(to)
    BY <1>2, <2>1 DEF Single
  <2>3. [rest |-> item.rest, made |-> Put(MadeBy(rd), item)] \in Steps(ViewOf(rd))
    BY <2>2, StepHere
  <2>4. ViewOf(r') = [rest |-> item.rest, made |-> Put(MadeBy(rd), item)]
    BY <1>2, <1>4, <2>1, <2>2, FinishedView
  <2>5. r'.err = to.err
    <3>1. PICK a : a = Create(to, object)
      OBVIOUS
    <3>2. a.err = to.err /\ DOMAIN a = {"buf", "pos", "err", "rstack", "objs", "reply"}
      BY <1>2, <3>1, CreateHere
    <3>3. r' = [a EXCEPT !.rstack = moveToNextTask(a.rstack)]
      BY <1>4, <3>1 DEF Finished
    <3> QED BY <3>2, <3>3
  <2> QED BY <1>2, <1>4, <2>3, <2>4, <2>5 DEF Outcome
<1> QED BY <1>1, <1>3, <1>4 DEF ItemDone, Finished

LEMMA ItemTypeOutcome ==
  ASSUME IInv, ItemType
  PROVE  Outcome
<1>1. r.rstack # <<>> /\ ReaderOK(r)
  BY DEF ItemType, Parsing, IInv
<1>2. CASE NoByte /\ NeedMore(r)
  <2>1. Rest(r) \in Text /\ Len(Rest(r)) = 0
    BY <1>1, <1>2, RestTypes DEF NoByte
  <2>2. ViewOf(r).rest = <<>>
    BY <2>1, Indexed DEF ViewOf
  <2>3. Steps(ViewOf(r)) = {}
    BY <2>2, NothingToRead
  <2> QED BY <1>1, <1>2, <2>3, StuckOutcome DEF ReadOn
<1>3. CASE ReaderError(r, "PROTOCOL")
  BY <1>3, FailedOutcome
<1> QED BY <1>2, <1>3 DEF ItemType, ProtocolError

LEMMA LineItemOutcome ==
  ASSUME IInv, LineItem
  PROVE  Outcome
<1>1. ItemOf({"error", "status", "integer"})
  BY DEF LineItem
<1>2. PICK rd : rd = Typed
  OBVIOUS
<1>3. PICK type : type = Last(rd.rstack).type
  OBVIOUS
<1>4. /\ ReaderOK(rd) /\ rd.rstack # <<>> /\ rd.err = r.err /\ ReadOn(ViewOf(r), ViewOf(rd))
      /\ type \in {"error", "status", "integer"}
  BY <1>1, <1>2, <1>3, TypedView
<1>5. AtItem(rd, type)
  BY <1>3, <1>4 DEF AtItem
<1>6. CASE seekNewline(rd.buf, rd.pos + 1) = {} /\ NeedMore(rd)
  <2>1. Steps(ViewOf(rd)) = {}
    BY <1>5, <1>6, StuckHere
  <2> QED BY <1>4, <1>6, <2>1, StuckOutcome
<1>7. CASE ReaderError(r, "PROTOCOL")
  BY <1>7, FailedOutcome
<1>8. ASSUME NEW s \in seekNewline(rd.buf, rd.pos + 1),
             \/ type # "integer" /\ ItemDone([rd EXCEPT !.pos = s + 1], String(type, Line(rd, s)))
             \/ type = "integer" /\ \E v \in string2ll(Line(rd, s)) : ItemDone([rd EXCEPT !.pos = s + 1], Integer(v))
      PROVE  Outcome
  <2>1. s \in Nat /\ s + 1 <= Len(rd.buf)
    BY <1>4, LineHere
  <2>2. PICK p \in Nat : p = s + 1 /\ p <= Len(rd.buf)
    BY <2>1
  <2>3. LineAt(rd, s).line = Line(rd, s) /\ LineAt(rd, s).rest = DropBytes(rd.buf, p)
    BY <2>2 DEF LineAt
  <2>4. Items(type, LineAt(rd, s)) = LineItems(type, LineAt(rd, s))
    BY <1>4 DEF Items
  <2>5. CASE type # "integer" /\ ItemDone([rd EXCEPT !.pos = p], String(type, Line(rd, s)))
    <3>1. Single(String(type, Line(rd, s)), DropBytes(rd.buf, p)) \in Items(type, LineAt(rd, s))
      BY <2>3, <2>4, <2>5 DEF LineItems
    <3> QED BY <1>4, <1>5, <2>2, <2>5, <3>1, DoneOutcome
  <2>6. ASSUME type = "integer", NEW v \in string2ll(Line(rd, s)), ItemDone([rd EXCEPT !.pos = p], Integer(v))
        PROVE  Outcome
    <3>1. Single(Integer(v), DropBytes(rd.buf, p)) \in Items(type, LineAt(rd, s))
      BY <2>3, <2>4, <2>6 DEF LineItems
    <3> QED BY <1>4, <1>5, <2>2, <2>6, <3>1, DoneOutcome
  <2> QED BY <1>8, <2>2, <2>5, <2>6
<1> QED BY <1>2, <1>3, <1>6, <1>7, <1>8 DEF LineItem, ProtocolError

LEMMA OneNumber ==
  ASSUME NEW text, NEW v \in string2ll(text), NEW w \in string2ll(text)
  PROVE  v = w
<1>1. \E x : string2ll(text) \subseteq {x}
  BY DEF string2ll
<1> QED BY <1>1

LEMMA BulkItemOutcome ==
  ASSUME IInv, BulkItem
  PROVE  Outcome
<1>1. ItemOf({"string"})
  BY DEF BulkItem
<1>2. PICK rd : rd = Typed
  OBVIOUS
<1>4. /\ ReaderOK(rd) /\ rd.rstack # <<>> /\ rd.err = r.err /\ ReadOn(ViewOf(r), ViewOf(rd))
      /\ Last(rd.rstack).type = "string"
  <2>1. /\ ReaderOK(rd) /\ rd.rstack # <<>> /\ rd.err = r.err /\ ReadOn(ViewOf(r), ViewOf(rd))
        /\ Last(rd.rstack).type \in {"string"}
    BY <1>1, <1>2, TypedView
  <2> QED BY <2>1
<1>5. AtItem(rd, "string")
  BY <1>4 DEF AtItem
<1>6. CASE seekNewline(rd.buf, rd.pos + 1) = {} /\ NeedMore(rd)
  <2>1. Steps(ViewOf(rd)) = {}
    BY <1>5, <1>6, StuckHere
  <2> QED BY <1>4, <1>6, <2>1, StuckOutcome
<1>7. CASE ReaderError(r, "PROTOCOL")
  BY <1>7, FailedOutcome
<1>8. ASSUME NEW s \in seekNewline(rd.buf, rd.pos + 1), NEW l \in string2ll(Line(rd, s)),
             \/ l = -1 /\ ItemDone([rd EXCEPT !.pos = s + 1], Nil)
             \/ l >= 0 /\ s + 1 + l + 2 > Len(rd.buf) /\ NeedMore(rd)
             \/ /\ l >= 0 /\ s + 1 + l + 2 <= Len(rd.buf)
                /\ ItemDone([rd EXCEPT !.pos = s + 1 + l + 2], String("string", SubSeq(rd.buf, s + 2, s + 1 + l)))
      PROVE  Outcome
  <2>1. s \in Nat /\ s + 1 <= Len(rd.buf) /\ Line(rd, s) \in Text /\ rd.buf \in Text /\ Len(rd.buf) \in Nat
    BY <1>4, LineHere, LineEnds, RestTypes
  <2>2. PICK p \in Nat : p = s + 1 /\ p <= Len(rd.buf)
    BY <2>1
  <2>3. PICK rest : rest = DropBytes(rd.buf, p)
    OBVIOUS
  <2>4. rest \in Text /\ Len(rest) = Len(rd.buf) - p
    BY <2>1, <2>2, <2>3, DropTexts
  <2>5. LineAt(rd, s).line = Line(rd, s) /\ LineAt(rd, s).rest = rest
    BY <2>2, <2>3 DEF LineAt
  <2>6. Items("string", LineAt(rd, s)) = BulkItems(LineAt(rd, s))
    BY DEF Items
  <2>7. l \in Int
    BY <2>1, string2llTypes
  <2>8. CASE l = -1 /\ ItemDone([rd EXCEPT !.pos = p], Nil)
    <3>1. Single(Nil, rest) \in Items("string", LineAt(rd, s))
      BY <1>8, <2>5, <2>6, <2>8 DEF BulkItems
    <3> QED BY <1>4, <1>5, <2>2, <2>3, <2>8, <3>1, DoneOutcome
  <2>9. CASE l >= 0 /\ p + l + 2 > Len(rd.buf) /\ NeedMore(rd)
    <3>1. l # -1 /\ ~(l + 2 <= Len(rest))
      BY <2>1, <2>2, <2>4, <2>7, <2>9
    <3>2. \A k \in string2ll(LineAt(rd, s).line) : k = l
      BY <2>5, OneNumber
    <3>3. Items("string", LineAt(rd, s)) = {}
      BY <2>5, <2>6, <3>1, <3>2 DEF BulkItems
    <3>4. Steps(ViewOf(rd)) = {}
      BY <1>5, <3>3, StuckHere
    <3> QED BY <1>4, <2>9, <3>4, StuckOutcome
  <2>10. ASSUME l >= 0, p + l + 2 <= Len(rd.buf),
                ItemDone([rd EXCEPT !.pos = p + l + 2], String("string", SubSeq(rd.buf, p + 1, p + l)))
         PROVE  Outcome
    <3>1. l \in Nat
      BY <2>7, <2>10
    <3>2. PICK m \in Nat : m = l + 2 /\ p + m <= Len(rd.buf)
      BY <2>10, <3>1
    <3>3. PICK q \in Nat : q = p + m /\ q = p + l + 2 /\ q <= Len(rd.buf)
      BY <3>1, <3>2
    <3>4. PICK object : object = String("string", SubSeq(rd.buf, p + 1, p + l))
      OBVIOUS
    <3>5. ItemDone([rd EXCEPT !.pos = q], object)
      BY <2>10, <3>3, <3>4
    <3>6. object = String("string", SubSeq(rest, 1, l))
      <4>1. p + l <= Len(rd.buf)
        BY <2>1, <3>1, <3>3
      <4>2. SubSeq(DropBytes(rd.buf, p), 1, l) = SubSeq(rd.buf, p + 1, p + l)
        BY <2>1, <3>1, <4>1, PartOfDrop
      <4> QED BY <2>3, <3>4, <4>2
    <3>7. DropBytes(rd.buf, q) = DropBytes(rest, l + 2)
      BY <2>1, <2>3, <3>2, <3>3, DropAgain
    <3>8. l \in {j \in string2ll(LineAt(rd, s).line) : j >= 0 /\ j + 2 <= Len(LineAt(rd, s).rest)}
      BY <1>8, <2>1, <2>4, <2>5, <2>10, <3>2
    <3>9. Single(object, DropBytes(rd.buf, q)) \in Items("string", LineAt(rd, s))
      BY <2>5, <2>6, <3>6, <3>7, <3>8 DEF BulkItems
    <3> QED BY <1>4, <1>5, <3>3, <3>5, <3>9, DoneOutcome
  <2>11. s + 2 = p + 1
    BY <2>1, <2>2
  <2> QED BY <1>8, <2>2, <2>8, <2>9, <2>10, <2>11
<1> QED BY <1>2, <1>6, <1>7, <1>8 DEF BulkItem, ProtocolError

LEMMA MultiBulkItemOutcome ==
  ASSUME IInv, MultiBulkItem
  PROVE  Outcome
<1>1. ItemOf({"array"})
  BY DEF MultiBulkItem
<1>2. PICK rd : rd = Typed
  OBVIOUS
<1>4. /\ pc = "item" /\ ReaderOK(rd) /\ rd.rstack # <<>> /\ rd.err = r.err /\ ReadOn(ViewOf(r), ViewOf(rd))
      /\ Last(rd.rstack).type = "array" /\ Len(rd.rstack) = Len(r.rstack)
  <2>1. /\ pc = "item" /\ ReaderOK(rd) /\ rd.rstack # <<>> /\ rd.err = r.err /\ ReadOn(ViewOf(r), ViewOf(rd))
        /\ Last(rd.rstack).type \in {"array"} /\ Len(rd.rstack) = Len(r.rstack)
    BY <1>1, <1>2, TypedView
  <2> QED BY <2>1
<1>5. Len(r.rstack) \in Nat /\ ridx + 1 = Len(rd.rstack) /\ MaxDepth \in Nat /\ 0 <= INT_MAX /\ INT_MAX \in Nat
  <2>1. Len(r.rstack) \in Nat
    BY ReaderTypes DEF IInv, ReaderOK
  <2> QED BY <1>4, <2>1, BoundsAssumption DEF ridx
<1>6. ~TooDeep => AtItem(rd, "array")
  BY <1>4, <1>5 DEF AtItem, TooDeep, ridx
<1>7. CASE ~TooDeep /\ seekNewline(rd.buf, rd.pos + 1) = {} /\ NeedMore(rd)
  <2>1. Steps(ViewOf(rd)) = {}
    BY <1>6, <1>7, StuckHere
  <2> QED BY <1>4, <1>7, <2>1, StuckOutcome
<1>8. CASE ReaderError(r, "PROTOCOL")
  BY <1>8, FailedOutcome
<1>9. ASSUME ~TooDeep, NEW s \in seekNewline(rd.buf, rd.pos + 1), NEW k \in string2ll(Line(rd, s)),
             \/ k = -1 /\ ItemDone([rd EXCEPT !.pos = s + 1], Nil)
             \/ k = 0 /\ ItemDone([rd EXCEPT !.pos = s + 1], Array(0))
             \/ /\ k \in 1 .. INT_MAX /\ pc' = pc /\ c' = c /\ answer' = answer
                /\ r' = Deeper(Create([rd EXCEPT !.pos = s + 1], Array(k)), ridx + 1, k)
             \/ ReaderError([rd EXCEPT !.pos = s + 1], "OOM")
      PROVE  Outcome
  <2>1. s \in Nat /\ s + 1 <= Len(rd.buf) /\ Line(rd, s) \in Text
    BY <1>4, LineHere, LineEnds
  <2>2. PICK p \in Nat : p = s + 1 /\ p <= Len(rd.buf)
    BY <2>1
  <2>3. PICK rest : rest = DropBytes(rd.buf, p)
    OBVIOUS
  <2>4. LineAt(rd, s).line = Line(rd, s) /\ LineAt(rd, s).rest = rest
    BY <2>2, <2>3 DEF LineAt
  <2>5. Items("array", LineAt(rd, s)) = MultiBulkItems(LineAt(rd, s))
    BY DEF Items
  <2>6. k \in Int /\ AtItem(rd, "array")
    BY <1>6, <1>9, <2>1, string2llTypes
  <2>7. CASE k = -1 /\ ItemDone([rd EXCEPT !.pos = p], Nil)
    <3>1. Single(Nil, rest) \in Items("array", LineAt(rd, s))
      BY <1>9, <2>4, <2>5, <2>7 DEF MultiBulkItems
    <3> QED BY <1>4, <2>2, <2>3, <2>6, <2>7, <3>1, DoneOutcome
  <2>8. ASSUME k >= 0, k <= INT_MAX
        PROVE  [object |-> Array(k), elements |-> k, rest |-> rest] \in Items("array", LineAt(rd, s))
    BY <1>9, <2>4, <2>5, <2>8 DEF MultiBulkItems
  <2>9. CASE k = 0 /\ ItemDone([rd EXCEPT !.pos = p], Array(0))
    <3>1. Single(Array(0), rest) \in Items("array", LineAt(rd, s))
      BY <1>5, <2>8, <2>9 DEF Single
    <3> QED BY <1>4, <2>2, <2>3, <2>6, <2>9, <3>1, DoneOutcome
  <2>10. CASE /\ k \in 1 .. INT_MAX /\ pc' = pc /\ c' = c /\ answer' = answer
              /\ r' = Deeper(Create([rd EXCEPT !.pos = p], Array(k)), ridx + 1, k)
    <3>1. k \in Nat /\ k > 0 /\ k >= 0 /\ k <= INT_MAX
      BY <1>5, <2>6, <2>10
    <3>2. PICK item : item = [object |-> Array(k), elements |-> k, rest |-> rest]
      OBVIOUS
    <3>3. item.object = Array(k) /\ item.elements = k /\ item.rest = rest
      BY <3>2
    <3>4. [rest |-> rest, made |-> Put(MadeBy(rd), item)] \in Steps(ViewOf(rd))
      BY <2>6, <2>8, <3>1, <3>2, <3>3, StepHere
    <3>5. PICK to : to = [rd EXCEPT !.pos = p]
      OBVIOUS
    <3>6. ReaderOK(to) /\ MadeBy(to) = MadeBy(rd) /\ Rest(to) = rest /\ to.err = rd.err /\ to.rstack = rd.rstack
      BY <1>4, <2>2, <2>3, <3>5, BehindView
    <3>7. r' = Deeper(Create(to, Array(k)), Len(to.rstack), k)
      BY <1>5, <2>10, <3>5, <3>6
    <3>8. ViewOf(r') = [rest |-> rest, made |-> Put(MadeBy(rd), item)]
      BY <3>1, <3>3, <3>6, <3>7, DeeperView
    <3>9. r'.err = r.err
      <4>1. PICK a : a = Create(to, Array(k))
        OBVIOUS
      <4>2. a.err = to.err /\ DOMAIN a = {"buf", "pos", "err", "rstack", "objs", "reply"}
        BY <3>6, <4>1, CreateHere
      <4> QED BY <1>4, <3>6, <3>7, <4>1, <4>2 DEF Deeper
    <3> QED BY <1>4, <2>10, <3>4, <3>8, <3>9 DEF Outcome
  <2>11. CASE ReaderError([rd EXCEPT !.pos = p], "OOM")
    BY <2>11, FailedOutcome
  <2> QED BY <1>9, <2>2, <2>7, <2>9, <2>10, <2>11
<1> QED BY <1>2, <1>7, <1>8, <1>9 DEF MultiBulkItem, ProtocolError

-----------------------------------------------------------------------------
(* What is known of the bytes in each phase of a command.                  *)

(* The reader that GetReply will find: with a first task.                  *)
Awaited == IF pc # "item" /\ r.rstack = <<>> THEN <<NewTask(-1)>> ELSE r.rstack
View == [rest |-> Rest(r), made |-> [rstack |-> Awaited, objs |-> r.objs, reply |-> r.reply]]
Nothing == [rest |-> <<>>, made |-> NothingMade]

Opening == {"resolve", "socket", "connect", "wait", "ready", "failed"}
IsOpen == c.alive /\ pc \notin Opening

Unopened ==
  /\ r = NewReader /\ wire.state # "open"
  /\ c.alive => pc = "failed" \/ (c.obuf = <<>> /\ c.err = "0")
  /\ pc = "return" => answer = NULL

(* Between two commands nothing is left on its way.                        *)
Idle ==
  /\ View = Nothing /\ wire.down = <<>> /\ c.obuf = <<>> /\ served.nth = n
  /\ wire.state = "open" => wire.up = <<>>

(* Redis has not executed the command yet: it has a part of its bytes, and *)
(* the rest is in the output buffer.                                       *)
Sending ==
  /\ View = Nothing /\ wire.down = <<>> /\ served.nth = n - 1
  /\ wire.state = "open" => wire.up \in Text /\ \E argv \in Asked(calls[n]) : wire.up \o c.obuf = Protocol(argv)

(* Redis has executed it: what the reader has made, and the bytes still to *)
(* be read, on their way or lost with the connection, are those of a       *)
(* reader that had the whole reply from the start.                         *)
Receiving ==
  /\ served = [nth |-> n, argv |-> calls[n].argv] /\ c.obuf = <<>>
  /\ wire.state = "open" => wire.up = <<>>
  /\ \E lost \in Text : ViewWith(View, wire.down \o lost) \in Whole(calls[n].bytes)

(* The library waits for bytes only when the reader needs them.            *)
Needing == pc \in {"emit", "write", "read"} => Steps(View) = {}

Sound ==
  /\ r.err = "0"
  /\ pc \in {"app", "return"} => Idle
  /\ pc \notin {"app", "return"} => (Sending \/ Receiving) /\ Needing

(* After an error the reader never gets on.                                *)
Broken ==
  /\ pc = "return" => answer = NULL
  /\ r.err # "0" => pc \in {"app", "return", "reply"}
  /\ r.err = "0" => Steps(View) = {} /\ ~(pc = "item" /\ r.rstack = <<>>)

Answered ==
  pc = "return" /\ answer # NULL =>
    c.alive /\ c.err = "0" /\ served = [nth |-> n, argv |-> calls[n].argv] /\ answer = calls[n].tree

Phase ==
  /\ Answered
  /\ ~IsOpen => Unopened
  /\ IsOpen /\ c.err = "0" => Sound
  /\ IsOpen /\ c.err # "0" => Broken

LEMMA Readable ==
  ASSUME Types, NEW k \in 1 .. Len(calls)
  PROVE  Asked(calls[k]) \subseteq {calls[k].argv} /\ Covers(Whole(calls[k].bytes), calls[k])
BY RepliesAssumption DEF Types

LEMMA Current ==
  ASSUME IInv, pc # "app"
  PROVE  n \in 1 .. Len(calls) /\ Len(calls) \in Nat /\ n \in Int
BY CallsAssumption DEF IInv, Types

(* The steps that end in one of the phases.                                *)
LEMMA ToBroken ==
  ASSUME IsOpen', c'.err # "0", Broken'
  PROVE  Phase'
BY DEF Phase, Answered, Broken, IsOpen

LEMMA ToUnopened ==
  ASSUME ~IsOpen', Unopened'
  PROVE  Phase'
BY DEF Phase, Answered, Unopened, IsOpen, Opening

LEMMA ToBusy ==
  ASSUME IsOpen', c'.err = "0", r'.err = "0", pc' \notin {"app", "return"}, Sending' \/ Receiving', Needing'
  PROVE  Phase'
BY DEF Phase, Answered, Sound, IsOpen, Opening

LEMMA SameBytes ==
  ASSUME View' = View, wire' = wire, c'.obuf = c.obuf, served' = served, n' = n, calls' = calls
  PROVE  (Sending => Sending') /\ (Receiving => Receiving') /\ (Idle => Idle')
BY DEF Sending, Receiving, Idle, Nothing

LEMMA SameView ==
  ASSUME r' = r, pc # "item" \/ r.rstack # <<>>, pc' # "item" \/ r.rstack # <<>>
  PROVE  View' = View
BY DEF View, Awaited

LEMMA ViewIs ==
  ASSUME pc = "item" \/ r.rstack # <<>>
  PROVE  View = ViewOf(r)
BY DEF View, ViewOf, MadeBy, Awaited

(* A step that fails: the context learns of it, and NULL is returned.      *)
LEMMA Failing ==
  ASSUME Phase, IsOpen, pc \in {"write", "read"}, ReturnNull, c'.alive, c'.err # "0", r' = r
  PROVE  Phase'
<1>1. View' = View
  BY SameView DEF ReturnNull
<1>2. r.err = "0" /\ Steps(View) = {}
  BY DEF Phase, Sound, Broken, Needing
<1>3. Broken'
  BY <1>1, <1>2 DEF Broken, ReturnNull
<1>4. IsOpen'
  BY DEF ReturnNull, IsOpen, Opening
<1> QED BY <1>3, <1>4, ToBroken

(* What redisAppendCommand comes to.                                       *)
LEMMA Appends ==
  ASSUME Types, NEW k \in 1 .. Len(calls), redisAppendCommand(k)
  PROVE  /\ c'.alive = c.alive
         /\ \/ \E argv \in Asked(calls[k]) : c'.obuf = c.obuf \o Protocol(argv) /\ c'.err = c.err /\ pc' = "reply"
            \/ c'.err # "0" /\ ReturnNull
<1>1. c \in Contexts /\ "OTHER" \in Errors /\ "OOM" \in Errors /\ DOMAIN c = {"alive", "fd", "err", "obuf", "addr", "phase"}
  BY DEF Types, Errors, Contexts
<1>2. ASSUME NEW argv \in Asked(calls[k]), c' = [c EXCEPT !.obuf = @ \o Protocol(argv), !.phase = "first"]
      PROVE  c'.alive = c.alive /\ c'.obuf = c.obuf \o Protocol(argv) /\ c'.err = c.err
  BY <1>1, <1>2
<1>3. ASSUME NEW e \in {"OTHER", "OOM"}, c' = redisSetError(e)
      PROVE  c'.alive = c.alive /\ c'.err # "0"
  BY <1>1, <1>3 DEF redisSetError
<1> QED BY <1>2, <1>3 DEF redisAppendCommand

LEMMA StartCommandPhase ==
  ASSUME IInv, Phase, StartCommand
  PROVE  Phase'
<1>1. /\ n + 1 \in 1 .. Len(calls) /\ n \in Int /\ calls' = calls /\ n' = n + 1 /\ r' = r /\ wire' = wire
      /\ served' = served /\ pc = "app" /\ Types
  BY CallsAssumption DEF StartCommand, IInv, Types
<1>2. CASE ~c.alive /\ pc' = "resolve" /\ c' = c
  <2>1. ~IsOpen /\ ~IsOpen'
    BY <1>2 DEF IsOpen
  <2>2. Unopened'
    BY <1>1, <1>2, <2>1 DEF Phase, Unopened
  <2> QED BY <2>1, <2>2, ToUnopened
<1>3. CASE c.alive /\ redisAppendCommand(n + 1)
  <2>1. IsOpen
    BY <1>1, <1>3 DEF IsOpen, Opening
  <2>2. c'.alive
    BY <1>1, <1>3, Appends
  <2>3. /\ c.err = "0" => r.err = "0" /\ Idle
        /\ c.err # "0" => Broken
    BY <1>1, <2>1 DEF Phase, Sound
  <2>4. ASSUME NEW argv \in Asked(calls[n + 1]), c'.obuf = c.obuf \o Protocol(argv), c'.err = c.err, pc' = "reply"
        PROVE  Phase'
    <3>1. IsOpen' /\ View' = View
      BY <1>1, <2>2, <2>4, SameView DEF IsOpen, Opening
    <3>2. CASE c.err = "0"
      <4>1. r.err = "0" /\ Idle
        BY <2>3, <3>2
      <4>2. Protocol(argv) \in Text /\ <<>> \in Text
        <5>1. argv \in Seq(Text)
          BY <1>1, <2>4, Calling
        <5> QED BY <5>1, Fills DEF Text
      <4>3. <<>> \o Protocol(argv) = Protocol(argv)
        BY <4>2, ConcatEmptySeq DEF Text
      <4>4. Sending'
        <5>1. c'.obuf = Protocol(argv)
          BY <2>4, <4>1, <4>3 DEF Idle
        <5>2. View' = Nothing /\ wire'.down = <<>> /\ served'.nth = n' - 1
          BY <1>1, <3>1, <4>1 DEF Idle
        <5>3. wire'.state = "open" => wire'.up = <<>>
          BY <1>1, <4>1 DEF Idle
        <5>4. wire'.state = "open" => wire'.up \in Text /\ wire'.up \o c'.obuf = Protocol(argv)
          BY <4>2, <4>3, <5>1, <5>3
        <5>5. argv \in Asked(calls'[n'])
          BY <1>1, <2>4
        <5> QED BY <5>2, <5>4, <5>5 DEF Sending
      <4> QED BY <1>1, <2>4, <3>1, <3>2, <4>1, <4>4, ToBusy DEF Needing
    <3>3. CASE c.err # "0"
      <4>1. Broken'
        BY <1>1, <2>3, <2>4, <3>1, <3>3 DEF Broken
      <4> QED BY <2>4, <3>1, <3>3, <4>1, ToBroken
    <3> QED BY <3>2, <3>3
  <2>5. CASE c'.err # "0" /\ ReturnNull
    <3>1. IsOpen' /\ View' = View
      BY <1>1, <2>2, <2>5, SameView DEF IsOpen, Opening, ReturnNull
    <3>2. r.err = "0" => Steps(View) = {}
      <4>1. Idle => View.rest = <<>>
        BY DEF Idle, Nothing
      <4> QED BY <2>3, <4>1, NothingToRead DEF Broken
    <3>3. Broken'
      BY <1>1, <2>5, <3>1, <3>2 DEF Broken, ReturnNull
    <3> QED BY <2>5, <3>1, <3>3, ToBroken
  <2> QED BY <1>1, <1>3, <2>4, <2>5, Appends
<1> QED BY <1>2, <1>3 DEF StartCommand

LEMMA FreedPhase ==
  ASSUME Freed, answer' = NULL
  PROVE  Phase'
<1>1. ~IsOpen' /\ ~c'.alive
  BY DEF Freed, NoContext, IsOpen
<1>2. Unopened'
  BY <1>1 DEF Freed, Open, Unopened
<1> QED BY <1>1, <1>2, ToUnopened

LEMMA EndCommandPhase ==
  ASSUME Phase, EndCommand
  PROVE  Phase'
<1>1. pc = "return" /\ pc' = "app" /\ answer' = NULL /\ calls' = calls /\ n' = n /\ served' = served
  BY DEF EndCommand
<1>2. CASE Freed
  BY <1>1, <1>2, FreedPhase
<1>3. CASE c' = c /\ r' = r /\ wire' = wire
  <2>1. (IsOpen <=> IsOpen') /\ View' = View
    BY <1>1, <1>3, SameView DEF IsOpen, Opening
  <2>2. Answered'
    BY <1>1 DEF Answered
  <2>3. ~IsOpen' => Unopened'
    BY <1>1, <1>3, <2>1 DEF Phase, Unopened
  <2>4. IsOpen' /\ c'.err = "0" => Sound'
    BY <1>1, <1>3, <2>1, SameBytes DEF Phase, Sound
  <2>5. IsOpen' /\ c'.err # "0" => Broken'
    BY <1>1, <1>3, <2>1 DEF Phase, Broken
  <2> QED BY <2>2, <2>3, <2>4, <2>5 DEF Phase
<1> QED BY <1>2, <1>3 DEF EndCommand

LEMMA ConnectFailedPhase ==
  ASSUME ConnectFailed
  PROVE  Phase'
BY FreedPhase DEF ConnectFailed, ReturnNull

LEMMA ResolvePhase ==
  ASSUME IInv, Phase, Resolve
  PROVE  Phase'
<1>1. pc = "resolve" /\ ~c.alive /\ r' = NewReader /\ wire' = wire /\ answer' = answer
  BY DEF Resolve, IInv, Context
<1>2. ~IsOpen /\ wire.state # "open"
  BY <1>1 DEF IsOpen, Phase, Unopened
<1>3. \/ pc' = "socket" /\ c'.obuf = <<>> /\ c'.err = "0"
      \/ pc' = "failed"
  BY DEF Resolve, NoContext, ConnectError
<1>4. ~IsOpen'
  BY <1>3 DEF IsOpen, Opening
<1>5. Unopened'
  BY <1>1, <1>2, <1>3 DEF Unopened
<1> QED BY <1>4, <1>5, ToUnopened

LEMMA OpeningStep ==
  ASSUME IInv, Phase, pc \in {"socket", "connect", "wait", "ready"}, pc' \in Opening, r' = r, wire' = wire,
         pc' = "failed" \/ (c'.obuf = c.obuf /\ c'.err = c.err)
  PROVE  Phase'
<1>1. ~IsOpen /\ ~IsOpen'
  BY DEF IsOpen, Opening
<1>2. c.alive /\ pc # "failed" /\ pc' # "return"
  BY DEF IInv, Context, Opening
<1>3. r = NewReader /\ wire.state # "open" /\ c.obuf = <<>> /\ c.err = "0"
  BY <1>1, <1>2 DEF Phase, Unopened
<1>4. Unopened'
  BY <1>2, <1>3 DEF Unopened
<1> QED BY <1>1, <1>4, ToUnopened

LEMMA SocketPhase ==
  ASSUME IInv, Phase, Socket
  PROVE  Phase'
<1>1. c \in Contexts /\ DOMAIN c = {"alive", "fd", "err", "obuf", "addr", "phase"}
  BY DEF IInv, Types, Contexts
<1>2. pc = "socket" /\ r' = r /\ wire' = wire
  BY DEF Socket, Connecting
<1>3. \/ pc' = "failed"
      \/ pc' = pc /\ c' = [c EXCEPT !.addr = @ + 1]
      \/ pc' = "connect" /\ \E s : c' = [c EXCEPT !.fd = s]
  BY DEF Socket, ConnectError
<1>4. pc' \in Opening /\ (pc' = "failed" \/ (c'.obuf = c.obuf /\ c'.err = c.err))
  BY <1>1, <1>2, <1>3 DEF Opening
<1> QED BY <1>2, <1>4, OpeningStep

LEMMA ConnectPhase ==
  ASSUME IInv, Phase, Connect
  PROVE  Phase'
<1>1. c \in Contexts /\ DOMAIN c = {"alive", "fd", "err", "obuf", "addr", "phase"}
  BY DEF IInv, Types, Contexts
<1>2. pc = "connect" /\ r' = r /\ wire' = wire
  BY DEF Connect, Connecting
<1>3. \/ pc' = "failed"
      \/ pc' \in {"wait", "ready"} /\ c' = c
      \/ pc' = "socket" /\ c' = [Closed EXCEPT !.addr = @ + 1]
  BY DEF Connect, ConnectError, NextAddress
<1>4. pc' \in Opening /\ (pc' = "failed" \/ (c'.obuf = c.obuf /\ c'.err = c.err))
  BY <1>1, <1>2, <1>3 DEF Opening, Closed
<1> QED BY <1>2, <1>4, OpeningStep

LEMMA WaitReadyPhase ==
  ASSUME IInv, Phase, WaitReady
  PROVE  Phase'
<1>1. pc = "wait" /\ r' = r /\ wire' = wire
  BY DEF WaitReady, Connecting
<1>2. pc' = "failed" \/ (pc' = "ready" /\ c' = c)
  BY DEF WaitReady, ConnectError
<1> QED BY <1>1, <1>2, OpeningStep DEF Opening

LEMMA ReadyPhase ==
  ASSUME IInv, Phase, Ready
  PROVE  Phase'
<1>1. /\ pc = "ready" /\ calls' = calls /\ n' = n /\ r' = r /\ n \in 1 .. Len(calls) /\ n \in Int /\ Types /\ c.alive
  BY Current DEF Ready, IInv, Context
<1>2. ~IsOpen /\ r = NewReader /\ c.obuf = <<>> /\ c.err = "0"
  BY <1>1 DEF IsOpen, Opening, Phase, Unopened
<1>3. CASE pc' = "failed" /\ wire' = wire
  BY <1>1, <1>3, OpeningStep DEF Opening
<1>4. CASE wire' = Open /\ served' = [nth |-> n - 1, argv |-> <<>>] /\ redisAppendCommand(n)
  <2>1. c'.alive
    BY <1>1, <1>4, Appends
  <2>2. r.err = "0" /\ r.rstack = <<>>
    BY <1>2 DEF NewReader
  <2>3. ASSUME pc' # "item" PROVE View' = Nothing
    <3>1. Rest(r) = <<>>
      <4>1. r.buf = <<>> /\ r.pos = 0 /\ <<>> \in Text
        BY <1>2 DEF NewReader, Text
      <4>2. DropBytes(<<>>, 0) = <<>>
        BY <4>1, DropNothing
      <4> QED BY <4>1, <4>2 DEF Rest
    <3> QED BY <1>1, <1>2, <2>2, <2>3, <3>1 DEF View, Awaited, Nothing, NothingMade, NewReader
  <2>4. ASSUME NEW argv \in Asked(calls[n]), c'.obuf = c.obuf \o Protocol(argv), c'.err = c.err, pc' = "reply"
        PROVE  Phase'
    <3>1. Protocol(argv) \in Text /\ <<>> \in Text
      <4>1. argv \in Seq(Text)
        BY <1>1, <2>4, Calling
      <4> QED BY <4>1, Fills DEF Text
    <3>2. <<>> \o Protocol(argv) = Protocol(argv)
      BY <3>1, ConcatEmptySeq DEF Text
    <3>3. <<>> \o (<<>> \o Protocol(argv)) = Protocol(argv)
      BY <3>2
    <3>4. Sending'
      BY <1>1, <1>2, <1>4, <2>3, <2>4, <3>1, <3>3 DEF Sending, Open
    <3>5. IsOpen' /\ Needing'
      BY <2>1, <2>4 DEF IsOpen, Opening, Needing
    <3> QED BY <1>1, <1>2, <2>2, <2>4, <3>4, <3>5, ToBusy
  <2>5. CASE c'.err # "0" /\ ReturnNull
    <3>1. IsOpen'
      BY <2>1, <2>5 DEF IsOpen, Opening, ReturnNull
    <3>2. Steps(View') = {}
      BY <2>3, <2>5, NothingToRead DEF ReturnNull, Nothing
    <3>3. Broken'
      BY <1>1, <2>2, <2>5, <3>2 DEF Broken, ReturnNull
    <3> QED BY <2>5, <3>1, <3>3, ToBroken
  <2> QED BY <1>1, <1>4, <2>4, <2>5, Appends
<1> QED BY <1>3, <1>4 DEF Ready, ConnectError

LEMMA GetReplyPhase ==
  ASSUME IInv, Phase, GetReply
  PROVE  Phase'
<1>1. pc = "reply" /\ calls' = calls /\ n' = n /\ wire' = wire /\ served' = served
  BY DEF GetReply, Unwired
<1>2. c.alive /\ IsOpen /\ ReaderOK(r) /\ c \in Contexts
  BY <1>1 DEF IInv, Context, Types, IsOpen, Opening
<1>3. /\ c.err = "0" => r.err = "0" /\ (Sending \/ Receiving)
      /\ c.err # "0" => Broken
  BY <1>1, <1>2 DEF Phase, Sound
<1>4. CASE r.err # "0" /\ c' = redisSetError(r.err) /\ ReturnNull /\ r' = r
  <2>1. c'.err # "0" /\ c'.alive
    BY <1>2, <1>4 DEF redisSetError, Contexts
  <2>2. Broken'
    BY <1>4 DEF Broken, ReturnNull
  <2>3. IsOpen'
    BY <1>4, <2>1 DEF IsOpen, Opening, ReturnNull
  <2> QED BY <2>1, <2>2, <2>3, ToBroken
<1>5. CASE r.err = "0" /\ r.buf = <<>> /\ NoReplyYet /\ c' = c /\ r' = r /\ answer' = answer
  <2>1. pc' \in {"write", "read"}
    BY <1>5 DEF NoReplyYet
  <2>2. View' = View /\ IsOpen'
    BY <1>1, <1>2, <1>5, <2>1, SameView DEF IsOpen, Opening
  <2>3. Steps(View) = {}
    <3>1. Rest(r) \in Text /\ Len(Rest(r)) = Len(r.buf) - r.pos /\ r.pos \in Nat /\ r.pos <= Len(r.buf) /\ r.buf \in Text
      BY <1>2, RestTypes
    <3>2. Len(r.buf) = 0
      BY <1>5, <3>1, Indexed
    <3>3. Rest(r) = <<>>
      BY <3>1, <3>2, Indexed
    <3> QED BY <3>3, NothingToRead DEF View
  <2>4. CASE c.err = "0"
    BY <1>1, <1>2, <1>3, <1>5, <2>1, <2>2, <2>3, <2>4, SameBytes, ToBusy DEF Needing
  <2>5. CASE c.err # "0"
    <3>1. Broken'
      BY <1>5, <2>1, <2>2, <2>3 DEF Broken
    <3> QED BY <1>5, <2>2, <2>5, <3>1, ToBroken
  <2> QED BY <2>4, <2>5
<1>6. CASE /\ r.err = "0" /\ pc' = "item" /\ c' = c /\ answer' = answer
           /\ r' = [r EXCEPT !.rstack = IF @ = <<>> THEN <<NewTask(-1)>> ELSE @]
  <2>1. /\ r'.rstack = Awaited /\ r'.objs = r.objs /\ r'.reply = r.reply /\ r'.err = r.err /\ r'.buf = r.buf /\ r'.pos = r.pos
    BY <1>1, <1>2, <1>6 DEF ReaderOK, Readers, Awaited
  <2>2. r'.rstack # <<>>
    BY <1>1, <2>1 DEF Awaited
  <2>3. View' = View /\ IsOpen'
    BY <1>2, <1>6, <2>1 DEF View, Awaited, Rest, IsOpen, Opening
  <2>4. CASE c.err = "0"
    <3>1. Sending' \/ Receiving'
      BY <1>1, <1>3, <1>6, <2>3, <2>4, SameBytes
    <3> QED BY <1>6, <2>1, <2>3, <2>4, <3>1, ToBusy DEF Needing
  <2>5. CASE c.err # "0"
    <3>1. Broken'
      BY <1>3, <1>6, <2>1, <2>2, <2>3, <2>5 DEF Broken
    <3> QED BY <1>6, <2>3, <2>5, <3>1, ToBroken
  <2> QED BY <2>4, <2>5
<1> QED BY <1>4, <1>5, <1>6 DEF GetReply

(* A state of reading leads to another one, whatever bytes are to come.    *)
LEMMA ReadsFurther ==
  ASSUME NEW call, Covers(Whole(call.bytes), call), NEW u, u.rest \in Text, NEW more, more \in Text,
         ViewWith(u, more) \in Whole(call.bytes), NEW v \in Steps(u)
  PROVE  v.rest \in Text /\ ViewWith(v, more) \in Whole(call.bytes)
<1>1. v.rest \in Text /\ ViewWith(v, more) \in Steps(ViewWith(u, more))
  BY StepsStay
<1> QED BY <1>1 DEF Covers

LEMMA ItemPhase ==
  ASSUME IInv, IInv', Phase, pc = "item", r.rstack # <<>>, Unwired, Outcome
  PROVE  Phase'
<1>1. c.alive /\ IsOpen /\ ReaderOK(r) /\ ReaderOK(r') /\ c \in Contexts /\ n \in 1 .. Len(calls) /\ Types
  BY Current DEF IInv, Context, Types, IsOpen, Opening
<1>2. calls' = calls /\ n' = n /\ wire' = wire /\ served' = served
  BY DEF Unwired
<1>3. /\ c.err = "0" => r.err = "0" /\ (Sending \/ Receiving)
      /\ c.err # "0" => Broken
  BY <1>1 DEF Phase, Sound
<1>4. View = ViewOf(r) /\ ViewOf(r).rest \in Text
  BY <1>1, ViewIs, RestTypes DEF ViewOf
<1>5. CASE pc' = "return" /\ answer' = NULL /\ r'.err # "0" /\ c' = redisSetError(r'.err)
  <2>1. c'.err # "0" /\ c'.alive
    BY <1>1, <1>5 DEF redisSetError, Contexts
  <2>2. Broken'
    BY <1>5 DEF Broken
  <2>3. IsOpen'
    BY <1>5, <2>1 DEF IsOpen, Opening
  <2> QED BY <2>1, <2>2, <2>3, ToBroken
<1>6. ASSUME pc' \in {"item", "emit"}, c' = c, r'.err = r.err, NEW w, ReadOn(ViewOf(r), w),
             ViewOf(r') = w \/ ViewOf(r') \in Steps(w),
             pc' = "emit" => r'.rstack # <<>> /\ Steps(ViewOf(r')) = {} /\ ViewOf(r') = w,
             pc' = "item" => ViewOf(r') \in Steps(w)
      PROVE  Phase'
  <2>1. View' = ViewOf(r')
    BY <1>6 DEF View, ViewOf, MadeBy, Awaited
  <2>2. IsOpen'
    BY <1>1, <1>6 DEF IsOpen, Opening
  <2>3. Needing'
    BY <1>6, <2>1 DEF Needing
  <2>4. Steps(View) = {} => pc' = "emit" /\ View' = View
    BY <1>4, <1>6, <2>1 DEF ReadOn
  <2>5. CASE c.err = "0"
    <3>1. CASE Sending
      <4>1. Steps(View) = {}
        BY <3>1, NothingToRead DEF Sending, Nothing
      <4>2. Sending'
        BY <1>2, <1>6, <2>4, <3>1, <4>1, SameBytes
      <4> QED BY <1>3, <1>6, <2>2, <2>3, <2>5, <4>2, ToBusy
    <3>2. CASE Receiving
      <4>1. PICK lost \in Text : ViewWith(View, wire.down \o lost) \in Whole(calls[n].bytes)
        BY <3>2 DEF Receiving
      <4>2. PICK more : more = wire.down \o lost
        OBVIOUS
      <4>3. more \in Text
        BY <1>1, <4>2, Joined DEF Types
      <4>4. PICK call : call = calls[n] /\ Covers(Whole(call.bytes), call)
        BY <1>1, Readable
      <4>5. PICK u : u = View /\ u.rest \in Text /\ ViewWith(u, more) \in Whole(call.bytes)
        BY <1>4, <4>1, <4>2, <4>4
      <4>6. w.rest \in Text /\ ViewWith(w, more) \in Whole(call.bytes)
        <5>1. w = u \/ w \in Steps(u)
          BY <1>4, <1>6, <4>5 DEF ReadOn
        <5> QED BY <4>3, <4>4, <4>5, <5>1, ReadsFurther
      <4>7. ViewWith(View', more) \in Whole(call.bytes)
        <5>1. PICK v : v = View' /\ (v = w \/ v \in Steps(w))
          BY <1>6, <2>1
        <5>2. ViewWith(v, more) \in Whole(call.bytes)
          BY <4>3, <4>4, <4>6, <5>1, ReadsFurther
        <5> QED BY <5>1, <5>2
      <4>8. Receiving'
        BY <1>2, <1>6, <3>2, <4>2, <4>4, <4>7 DEF Receiving
      <4> QED BY <1>3, <1>6, <2>2, <2>3, <2>5, <4>8, ToBusy
    <3> QED BY <1>3, <2>5, <3>1, <3>2
  <2>6. CASE c.err # "0"
    <3>1. Broken /\ r.err = "0" /\ Steps(View) = {}
      BY <1>3, <2>6 DEF Broken
    <3>2. Broken'
      BY <1>6, <2>4, <3>1 DEF Broken
    <3> QED BY <1>6, <2>2, <2>6, <3>2, ToBroken
  <2> QED BY <2>5, <2>6
<1>7. CASE /\ pc' = "emit" /\ c' = c /\ r'.err = r.err /\ r'.rstack # <<>>
           /\ ReadOn(ViewOf(r), ViewOf(r')) /\ Steps(ViewOf(r')) = {}
  BY <1>6, <1>7
<1>8. CASE /\ pc' = "item" /\ c' = c /\ r'.err = r.err
           /\ \E w : ReadOn(ViewOf(r), w) /\ ViewOf(r') \in Steps(w)
  BY <1>6, <1>8
<1> QED BY <1>5, <1>7, <1>8 DEF Outcome

LEMMA EmitPhase ==
  ASSUME IInv, Phase, Emit
  PROVE  Phase'
<1>1. /\ c.alive /\ IsOpen /\ ReaderOK(r) /\ n \in 1 .. Len(calls) /\ Types
      /\ pc \in {"item", "emit"} /\ (pc = "emit" => r.rstack # <<>>)
  BY Current DEF Emit, IInv, Context, Complete, IsOpen, Opening
<1>2. calls' = calls /\ n' = n /\ wire' = wire /\ served' = served /\ c' = c
  BY DEF Emit, Unwired
<1>3. /\ c.err = "0" => r.err = "0" /\ (Sending \/ Receiving) /\ Needing
      /\ c.err # "0" => Broken
  BY <1>1 DEF Phase, Sound
<1>4. PICK cut : cut = IF r.pos >= DiscardAt
                       THEN [r EXCEPT !.buf = SubSeq(@, r.pos + 1, Len(@)), !.pos = 0] ELSE r
  OBVIOUS
<1>5. /\ Rest(r) \in Text /\ Len(Rest(r)) = Len(r.buf) - r.pos /\ r \in Readers
      /\ DOMAIN r = {"buf", "pos", "err", "rstack", "objs", "reply"}
  BY <1>1, RestTypes DEF Readers
<1>6. /\ Rest(cut) = Rest(r) /\ cut.rstack = r.rstack /\ cut.objs = r.objs /\ cut.reply = r.reply /\ cut.err = r.err
      /\ DOMAIN cut = {"buf", "pos", "err", "rstack", "objs", "reply"}
  <2>1. CASE r.pos >= DiscardAt
    <3>1. cut = [r EXCEPT !.buf = Rest(r), !.pos = 0]
      BY <1>4, <2>1 DEF Rest, DropBytes
    <3>2. DropBytes(Rest(r), 0) = Rest(r)
      BY <1>5, DropNothing
    <3> QED BY <1>5, <3>1, <3>2 DEF Rest
  <2>2. CASE ~(r.pos >= DiscardAt)
    BY <1>4, <1>5, <2>2
  <2> QED BY <2>1, <2>2
<1>7. CASE /\ r.rstack = <<>> /\ answer' = Tree(r.objs, r.reply) /\ pc' = "return"
           /\ r' = [cut EXCEPT !.reply = 0, !.objs = <<>>]
  <2>1. pc = "item" /\ View = ViewOf(r) /\ View.made.rstack = <<>>
    BY <1>1, <1>7, ViewIs DEF ViewOf, MadeBy
  <2>2. c.err = "0"
    BY <1>3, <1>7, <2>1 DEF Broken
  <2>3. Receiving
    <3>1. ~Sending
      <4>1. NothingMade.rstack = <<NewTask(-1)>>
        BY DEF NothingMade
      <4>2. NothingMade.rstack # <<>>
        <5>1. Len(<<NewTask(-1)>>) = 1 /\ Len(<<>>) = 0
          OBVIOUS
        <5> QED BY <4>1, <5>1
      <4>3. Nothing.made = NothingMade
        BY DEF Nothing
      <4>4. Sending => View = Nothing
        BY DEF Sending
      <4> QED BY <2>1, <4>2, <4>3, <4>4
    <3> QED BY <1>3, <2>2, <3>1
  <2>4. PICK lost \in Text : ViewWith(View, wire.down \o lost) \in Whole(calls[n].bytes)
    BY <2>3 DEF Receiving
  <2>5. PICK more : more = wire.down \o lost
    OBVIOUS
  <2>6. Covers(Whole(calls[n].bytes), calls[n])
    BY <1>1, Readable
  <2>7. PICK u : u = ViewWith(View, more)
    OBVIOUS
  <2>8. u \in Whole(calls[n].bytes) /\ u.made = View.made /\ u.rest = Rest(r) \o more
    BY <2>1, <2>4, <2>5, <2>7 DEF ViewWith, ViewOf
  <2>9. u.rest = <<>> /\ Tree(u.made.objs, u.made.reply) = calls[n].tree
    BY <2>1, <2>6, <2>8 DEF Covers
  <2>10. Rest(r) = <<>> /\ wire.down = <<>>
    <3>1. wire.down \in Text /\ more \in Text /\ Len(more) = Len(wire.down) + Len(lost)
      BY <1>1, <2>5, Joined DEF Types
    <3>2. Len(Rest(r) \o more) = Len(Rest(r)) + Len(more)
      BY <1>5, <3>1, Joined
    <3>3. Len(Rest(r)) \in Nat /\ Len(more) \in Nat /\ Len(wire.down) \in Nat /\ Len(lost) \in Nat
      BY <1>5, <3>1, Indexed
    <3>4. Len(Rest(r) \o more) = 0
      BY <2>8, <2>9
    <3>5. Len(Rest(r)) = 0 /\ Len(wire.down) = 0
      BY <3>1, <3>2, <3>3, <3>4
    <3> QED BY <1>5, <3>1, <3>5, Indexed
  <2>11. /\ r'.rstack = <<>> /\ r'.objs = <<>> /\ r'.reply = 0 /\ r'.err = r.err /\ Rest(r') = Rest(r)
    BY <1>6, <1>7 DEF Rest
  <2>12. View' = Nothing
    BY <1>7, <2>10, <2>11 DEF View, Awaited, Nothing, NothingMade
  <2>13. Idle'
    BY <1>2, <2>3, <2>10, <2>12 DEF Idle, Receiving
  <2>14. answer' = calls[n].tree
    <3>1. View.made.objs = r.objs /\ View.made.reply = r.reply
      BY DEF View
    <3> QED BY <1>7, <2>8, <2>9, <3>1
  <2>15. Answered'
    BY <1>1, <1>2, <2>2, <2>3, <2>14 DEF Answered, Receiving
  <2>16. Sound'
    BY <1>3, <1>7, <2>2, <2>11, <2>13 DEF Sound
  <2>17. IsOpen'
    BY <1>1, <1>2, <1>7 DEF IsOpen, Opening
  <2> QED BY <1>2, <2>2, <2>15, <2>16, <2>17 DEF Phase
<1>8. CASE r.rstack # <<>> /\ r' = cut /\ NoReplyYet /\ answer' = answer
  <2>1. pc' \in {"write", "read"} /\ pc = "emit"
    BY <1>8 DEF NoReplyYet, Emit
  <2>2. View' = View
    BY <1>6, <1>8 DEF View, Awaited
  <2>3. IsOpen'
    BY <1>1, <1>2, <2>1 DEF IsOpen, Opening
  <2>4. CASE c.err = "0"
    BY <1>2, <1>3, <1>6, <1>8, <2>1, <2>2, <2>3, <2>4, SameBytes, ToBusy DEF Needing
  <2>5. CASE c.err # "0"
    <3>1. Broken'
      BY <1>3, <1>6, <1>8, <2>1, <2>2, <2>5 DEF Broken
    <3> QED BY <1>2, <2>3, <2>5, <3>1, ToBroken
  <2> QED BY <2>4, <2>5
<1> QED BY <1>4, <1>7, <1>8 DEF Emit

(* A text is its first bytes and what is behind them.                      *)
LEMMA Parted ==
  ASSUME NEW a, a \in Text, NEW k \in Nat, k <= Len(a)
  PROVE  SubSeq(a, 1, k) \in Text /\ DropBytes(a, k) \in Text /\ SubSeq(a, 1, k) \o DropBytes(a, k) = a
<1>1. Len(a) \in Nat /\ k + 1 \in Nat
  BY Indexed
<1>2. PICK b : b = SubSeq(a, 1, k)
  OBVIOUS
<1>3. PICK d : d = DropBytes(a, k)
  OBVIOUS
<1>4. IsPart(b, a, 1, k)
  BY <1>1, <1>2 DEF IsPart
<1>5. PartFacts(b, a, 1, k)
  BY <1>4, PartIs, Zenon
<1>6. b \in Text /\ Len(b) = k /\ \A i \in 1 .. k : b[i] = a[i]
  BY <1>5 DEF PartFacts
<1>7. DropFacts(d, a, k)
  BY <1>1, <1>3, DropIs DEF Drops
<1>8. d \in Text /\ Len(d) = Len(a) - k /\ \A j \in 1 .. Len(a) - k : d[j] = a[k + j]
  BY <1>7 DEF DropFacts
<1>9. PICK e : e = b \o d
  OBVIOUS
<1>10. Joins(e, b, d)
  BY <1>6, <1>8, <1>9 DEF Joins
<1>11. /\ e \in Text /\ Len(e) = Len(b) + Len(d)
       /\ \A i \in 1 .. Len(b) : e[i] = b[i]
       /\ \A i \in 1 .. Len(d) : e[Len(b) + i] = d[i]
  BY <1>10, JoinedIs
<1>12. Len(e) = Len(a)
  BY <1>1, <1>6, <1>8, <1>11
<1>13. ASSUME NEW i \in 1 .. Len(a)
       PROVE  e[i] = a[i]
  <2>1. CASE i <= k
    BY <1>6, <1>11, <2>1
  <2>2. CASE ~(i <= k)
    <3>1. PICK j \in 1 .. Len(a) - k : i = k + j
      <4>1. i - k \in 1 .. Len(a) - k /\ i = k + (i - k)
        BY <1>1, <2>2
      <4> QED BY <4>1
    <3>2. e[k + j] = d[j] /\ d[j] = a[k + j]
      BY <1>6, <1>8, <1>11
    <3> QED BY <3>1, <3>2
  <2> QED BY <2>1, <2>2
<1>14. e = a
  BY <1>11, <1>12, <1>13, Equal
<1> QED BY <1>2, <1>3, <1>6, <1>8, <1>9, <1>14

LEMMA BufferWritePhase ==
  ASSUME IInv, Phase, BufferWrite
  PROVE  Phase'
<1>1. /\ pc = "write" /\ calls' = calls /\ n' = n /\ r' = r /\ served' = served /\ c.alive /\ IsOpen
      /\ Types /\ n \in 1 .. Len(calls) /\ c \in Contexts
      /\ DOMAIN c = {"alive", "fd", "err", "obuf", "addr", "phase"}
  BY Current DEF BufferWrite, IInv, Context, Types, Contexts, IsOpen, Opening
<1>2. CASE c.err # "0" /\ ReturnNull /\ c' = c
  BY <1>1, <1>2, Failing
<1>3. CASE IoError
  <2>1. c'.alive /\ c'.err # "0"
    BY <1>1, <1>3 DEF IoError, redisSetError
  <2> QED BY <1>1, <1>3, <2>1, Failing DEF IoError
<1>4. CASE c.err = "0" /\ pc' = pc /\ c' = c /\ wire' = wire
  <2>1. r.err = "0" /\ (Sending \/ Receiving) /\ Needing
    BY <1>1, <1>4 DEF Phase, Sound
  <2>2. View' = View
    BY <1>1, <1>4, SameView
  <2>3. IsOpen'
    BY <1>1, <1>4 DEF IsOpen, Opening
  <2> QED BY <1>1, <1>4, <2>1, <2>2, <2>3, SameBytes, ToBusy DEF Needing
<1>5. ASSUME NEW k \in 1 .. Len(c.obuf), c.err = "0",
             c' = [c EXCEPT !.obuf = SubSeq(c.obuf, k + 1, Len(c.obuf)),
                            !.phase = IF SubSeq(c.obuf, k + 1, Len(c.obuf)) = <<>> THEN "next" ELSE @],
             wire' = IF wire.state = "open" THEN [wire EXCEPT !.up = @ \o SubSeq(c.obuf, 1, k)] ELSE wire,
             pc' \in {"read", "write"}
      PROVE  Phase'
  <2>1. r.err = "0" /\ (Sending \/ Receiving) /\ Needing
    BY <1>1, <1>5 DEF Phase, Sound
  <2>2. View' = View
    BY <1>1, <1>5, SameView
  <2>3. c'.alive /\ c'.err = "0" /\ c'.obuf = DropBytes(c.obuf, k) /\ IsOpen'
    BY <1>1, <1>5 DEF IsOpen, Opening, DropBytes
  <2>4. c.obuf \in Text /\ Len(c.obuf) \in Nat /\ k \in Nat /\ k <= Len(c.obuf) /\ 0 < k
    <3>1. c.obuf \in Text
      BY <1>1 DEF Contexts
    <3> QED BY <1>5, <3>1, Indexed
  <2>5. Sending
    <3>1. c.obuf # <<>>
      BY <2>4, Indexed
    <3> QED BY <2>1, <3>1 DEF Receiving
  <2>6. Needing'
    BY <1>1, <2>1, <2>2 DEF Needing
  <2>7. ASSUME wire'.state = "open"
        PROVE  wire'.up \in Text /\ \E argv \in Asked(calls[n]) : wire'.up \o c'.obuf = Protocol(argv)
    <3>1. wire.state = "open" /\ wire'.up = wire.up \o SubSeq(c.obuf, 1, k)
      BY <1>1, <1>5, <2>7 DEF Types
    <3>2. PICK up : up = wire.up
      OBVIOUS
    <3>3. PICK argv \in Asked(calls[n]) : up \in Text /\ up \o c.obuf = Protocol(argv)
      BY <2>5, <3>1, <3>2 DEF Sending
    <3>4. PICK sent : sent = SubSeq(c.obuf, 1, k)
      OBVIOUS
    <3>5. PICK behind : behind = DropBytes(c.obuf, k)
      OBVIOUS
    <3>6. sent \in Text /\ behind \in Text /\ sent \o behind = c.obuf
      BY <2>4, <3>4, <3>5, Parted
    <3>7. up \o sent \in Text /\ (up \o sent) \o behind = up \o (sent \o behind)
      <4>1. AreTexts(up, sent, behind)
        BY <3>3, <3>6 DEF AreTexts
      <4>2. Regrouped(up, sent, behind)
        BY <4>1, Regrouping, Zenon
      <4>3. up \o sent \in Text
        BY <4>1, Joined DEF AreTexts
      <4> QED BY <4>2, <4>3 DEF Regrouped
    <3>8. wire'.up = up \o sent /\ c'.obuf = behind
      BY <2>3, <3>1, <3>2, <3>4, <3>5
    <3> QED BY <3>3, <3>6, <3>7, <3>8
  <2>8. wire'.down = wire.down
    BY <1>1, <1>5 DEF Types
  <2>9. Sending'
    BY <1>1, <2>2, <2>5, <2>7, <2>8 DEF Sending, Nothing
  <2> QED BY <1>1, <1>5, <2>1, <2>3, <2>6, <2>9, ToBusy
<1> QED BY <1>2, <1>3, <1>4, <1>5 DEF BufferWrite

LEMMA BufferReadPhase ==
  ASSUME IInv, Phase, BufferRead
  PROVE  Phase'
<1>1. /\ pc = "read" /\ calls' = calls /\ n' = n /\ served' = served /\ c.alive /\ IsOpen
      /\ Types /\ n \in 1 .. Len(calls) /\ c \in Contexts /\ ReaderOK(r) /\ r \in Readers
      /\ DOMAIN c = {"alive", "fd", "err", "obuf", "addr", "phase"}
      /\ DOMAIN r = {"buf", "pos", "err", "rstack", "objs", "reply"}
  BY Current DEF BufferRead, IInv, Context, Types, Contexts, IsOpen, Opening, ReaderOK, Readers
<1>2. CASE c.err # "0" /\ ReturnNull /\ c' = c /\ r' = r
  BY <1>1, <1>2, Failing
<1>3. ASSUME NEW e \in {"EOF", "IO"}, c' = redisSetError(e), ReturnNull, r' = r
      PROVE  Phase'
  <2>1. c'.alive /\ c'.err # "0"
    BY <1>1, <1>3 DEF redisSetError
  <2> QED BY <1>1, <1>3, <2>1, Failing
<1>4. CASE c.err = "0" /\ pc' = "reply" /\ c' = c /\ r' = r /\ wire' = wire
  <2>1. r.err = "0" /\ (Sending \/ Receiving)
    BY <1>1, <1>4 DEF Phase, Sound
  <2>2. View' = View
    BY <1>1, <1>4, SameView
  <2>3. IsOpen' /\ Needing'
    BY <1>1, <1>4 DEF IsOpen, Opening, Needing
  <2> QED BY <1>1, <1>4, <2>1, <2>2, <2>3, SameBytes, ToBusy
<1>5. ASSUME NEW k \in 1 .. Len(wire.down), c.err = "0", c' = c, pc' = "reply",
             r' = [r EXCEPT !.buf = @ \o SubSeq(wire.down, 1, k)],
             wire' = [wire EXCEPT !.down = SubSeq(@, k + 1, Len(@))]
      PROVE  Phase'
  <2>1. r.err = "0" /\ (Sending \/ Receiving)
    BY <1>1, <1>5 DEF Phase, Sound
  <2>2. PICK down : down = wire.down
    OBVIOUS
  <2>3. down \in Text /\ Len(down) \in Nat /\ k \in Nat /\ k <= Len(down) /\ 0 < k
    BY <1>1, <1>5, <2>2, Indexed DEF Types
  <2>4. Receiving
    <3>1. down # <<>>
      BY <2>3, Indexed
    <3> QED BY <2>1, <2>2, <3>1 DEF Sending
  <2>5. PICK lost \in Text : ViewWith(View, down \o lost) \in Whole(calls[n].bytes)
    BY <2>2, <2>4 DEF Receiving
  <2>6. PICK got : got = SubSeq(down, 1, k)
    OBVIOUS
  <2>7. PICK behind : behind = DropBytes(down, k)
    OBVIOUS
  <2>8. got \in Text /\ behind \in Text /\ got \o behind = down
    BY <2>3, <2>6, <2>7, Parted
  <2>9. /\ wire'.down = behind /\ wire'.up = wire.up /\ wire'.state = wire.state
        /\ r'.buf = r.buf \o got /\ r'.pos = r.pos /\ r'.err = r.err
        /\ r'.rstack = r.rstack /\ r'.objs = r.objs /\ r'.reply = r.reply
    BY <1>1, <1>5, <2>2, <2>6, <2>7 DEF Types, DropBytes
  <2>10. PICK rest : rest = Rest(r)
    OBVIOUS
  <2>11. rest \in Text /\ Rest(r') = rest \o got
    <3>1. r.buf \in Text /\ r.pos \in Nat /\ r.pos <= Len(r.buf)
      BY <1>1 DEF ReaderOK, Readers
    <3>2. DropBytes(r.buf \o got, r.pos) = DropBytes(r.buf, r.pos) \o got
      BY <2>8, <3>1, PartOfMore
    <3> QED BY <1>1, <2>9, <2>10, <3>2, RestTypes DEF Rest
  <2>12. (rest \o got) \o (behind \o lost) = rest \o (down \o lost)
    <3>1. PICK more : more = behind \o lost
      OBVIOUS
    <3>2. more \in Text
      BY <2>8, <3>1, Joined
    <3>3. AreTexts(rest, got, more) /\ AreTexts(got, behind, lost)
      BY <2>8, <2>11, <3>2 DEF AreTexts
    <3>4. Regrouped(rest, got, more) /\ Regrouped(got, behind, lost)
      BY <3>3, Regrouping, Zenon
    <3> QED BY <2>8, <3>1, <3>4 DEF Regrouped
  <2>13. View.rest = rest /\ View'.rest = rest \o got /\ View'.made = View.made
    BY <1>1, <1>5, <2>9, <2>10, <2>11 DEF View, Awaited
  <2>14. ViewWith(View', behind \o lost) = ViewWith(View, down \o lost)
    BY <2>12, <2>13 DEF ViewWith
  <2>15. Receiving'
    BY <1>1, <1>5, <2>4, <2>5, <2>9, <2>14 DEF Receiving
  <2>16. IsOpen' /\ Needing'
    BY <1>1, <1>5 DEF IsOpen, Opening, Needing
  <2> QED BY <1>1, <1>5, <2>1, <2>9, <2>15, <2>16, ToBusy
<1> QED BY <1>2, <1>3, <1>4, <1>5 DEF BufferRead, IoError

-----------------------------------------------------------------------------
LEMMA NoCommandYet == FirstCommand(<<>>) = {}
<1>1. LineOf(<<>>) = {}
  BY DEF LineOf
<1> QED BY <1>1 DEF FirstCommand

LEMMA ExecutePhase ==
  ASSUME IInv, Phase, Execute
  PROVE  Phase'
<1>1. PICK command \in FirstCommand(wire.up) :
        /\ wire.state = "open" /\ served' = [nth |-> served.nth + 1, argv |-> command.argv]
        /\ wire' = [wire EXCEPT !.up = command.rest, !.down = @ \o calls[served.nth + 1].bytes]
        /\ calls' = calls /\ n' = n /\ pc' = pc /\ c' = c /\ r' = r /\ answer' = answer
  BY DEF Execute
<1>2. IsOpen /\ IsOpen' /\ View' = View /\ wire.up # <<>> /\ Types
  <2>1. IsOpen
    BY <1>1 DEF Phase, Unopened
  <2>2. wire.up # <<>>
    BY <1>1, NoCommandYet
  <2> QED BY <1>1, <2>1, <2>2 DEF IsOpen, View, Awaited, IInv
<1>3. CASE c.err = "0"
  <2>1. r.err = "0" /\ Sending /\ Needing /\ pc \notin {"app", "return"}
    BY <1>1, <1>2, <1>3 DEF Phase, Sound, Idle, Receiving
  <2>2. n \in 1 .. Len(calls) /\ n \in Int
    BY <2>1, Current
  <2>3. PICK argv \in Asked(calls[n]) : wire.up \in Text /\ wire.up \o c.obuf = Protocol(argv)
    BY <1>1, <2>1 DEF Sending
  <2>4. argv \in Seq(Text) /\ argv = calls[n].argv /\ calls[n].bytes \in Text
    BY <1>2, <2>2, <2>3, Calling, Readable
  <2>5. c.obuf \in Text
    BY <1>2 DEF Types, Contexts
  <2>6. PICK p : p = wire.up
    OBVIOUS
  <2>7. PICK q : q = c.obuf
    OBVIOUS
  <2>8. FirstCommand(p) = IF q = <<>> THEN {[argv |-> argv, rest |-> <<>>]} ELSE {}
    BY <2>3, <2>4, <2>5, <2>6, <2>7, CommandUnderstood
  <2>9. c.obuf = <<>> /\ command.argv = calls[n].argv /\ command.rest = <<>>
    BY <1>1, <2>4, <2>6, <2>7, <2>8
  <2>10. served'.nth = n /\ served' = [nth |-> n, argv |-> calls[n].argv]
    <3>1. served.nth = n - 1 /\ n - 1 + 1 = n
      BY <2>1, <2>2 DEF Sending
    <3> QED BY <1>1, <2>9, <3>1
  <2>11. wire'.up = <<>> /\ wire'.down = calls[n].bytes
    <3>1. wire.down = <<>> /\ served.nth + 1 = n
      BY <2>1, <2>2 DEF Sending
    <3>2. wire'.up = command.rest /\ wire'.down = wire.down \o calls[n].bytes
      BY <1>1, <1>2, <3>1 DEF Types
    <3> QED BY <2>4, <2>9, <3>1, <3>2, ConcatEmptySeq DEF Text
  <2>12. ViewWith(View', wire'.down \o <<>>) \in Whole(calls[n].bytes)
    <3>1. View' = Nothing
      BY <1>2, <2>1 DEF Sending
    <3>2. wire'.down \o <<>> = calls[n].bytes /\ <<>> \o calls[n].bytes = calls[n].bytes
      BY <2>4, <2>11, ConcatEmptySeq DEF Text
    <3>3. ViewWith(View', wire'.down \o <<>>) = [rest |-> calls[n].bytes, made |-> NothingMade]
      BY <3>1, <3>2 DEF ViewWith, Nothing
    <3>4. Covers(Whole(calls[n].bytes), calls[n])
      BY <1>2, <2>2, Readable
    <3> QED BY <3>3, <3>4 DEF Covers
  <2>13. Receiving'
    <3>1. <<>> \in Text
      BY DEF Text
    <3> QED BY <1>1, <2>9, <2>10, <2>11, <2>12, <3>1 DEF Receiving
  <2>14. Needing'
    BY <1>1, <1>2, <2>1 DEF Needing
  <2> QED BY <1>1, <1>2, <1>3, <2>1, <2>13, <2>14, ToBusy
<1>4. CASE c.err # "0"
  <2>1. Broken'
    BY <1>1, <1>2, <1>4 DEF Phase, Broken
  <2> QED BY <1>1, <1>2, <1>4, <2>1, ToBroken
<1> QED BY <1>3, <1>4

LEMMA LostPhase ==
  ASSUME IInv, Phase, Lost
  PROVE  Phase'
<1>1. /\ wire.state = "open" /\ calls' = calls /\ n' = n /\ pc' = pc /\ c' = c /\ r' = r /\ answer' = answer
      /\ served' = served /\ Types
  BY DEF Lost, IInv
<1>2. IsOpen /\ IsOpen' /\ View' = View
  <2>1. IsOpen
    BY <1>1 DEF Phase, Unopened
  <2> QED BY <1>1, <2>1 DEF IsOpen, View, Awaited
<1>3. wire'.state # "open" /\ wire'.down \in {wire.down, <<>>}
  BY <1>1 DEF Lost, Open, Types
<1>4. CASE c.err = "0"
  <2>1. Idle => Idle'
    BY <1>1, <1>2, <1>3 DEF Idle, Nothing
  <2>2. Sending => Sending'
    BY <1>1, <1>2, <1>3 DEF Sending, Nothing
  <2>3. ASSUME Receiving
        PROVE  Receiving'
    <3>1. PICK down : down = wire.down
      OBVIOUS
    <3>2. PICK lost \in Text : ViewWith(View, down \o lost) \in Whole(calls[n].bytes)
      BY <2>3, <3>1 DEF Receiving
    <3>3. down \in Text /\ down \o lost \in Text /\ <<>> \o (down \o lost) = down \o lost
      BY <1>1, <3>1, <3>2, Joined, ConcatEmptySeq DEF Types, Text
    <3>4. \E gone \in Text : wire'.down \o gone = down \o lost
      BY <1>3, <3>1, <3>3
    <3>5. PICK gone \in Text : wire'.down \o gone = down \o lost
      BY <3>4
    <3>6. ViewWith(View', wire'.down \o gone) \in Whole(calls[n].bytes)
      BY <1>2, <3>2, <3>5
    <3> QED BY <1>1, <1>3, <2>3, <3>6 DEF Receiving
  <2>4. Sound
    BY <1>2, <1>4 DEF Phase
  <2>5. Sound'
    BY <1>1, <1>2, <2>1, <2>2, <2>3, <2>4 DEF Sound, Needing
  <2>6. Answered'
    BY <1>1 DEF Phase, Answered
  <2> QED BY <1>1, <1>2, <1>4, <2>5, <2>6 DEF Phase
<1>5. CASE c.err # "0"
  <2>1. Broken'
    BY <1>1, <1>2, <1>5 DEF Phase, Broken
  <2> QED BY <1>1, <1>2, <1>5, <2>1, ToBroken
<1> QED BY <1>4, <1>5

LEMMA InitPhase ==
  ASSUME Init
  PROVE  Phase
<1>1. pc = "app" /\ ~c.alive /\ r = NewReader /\ wire.state = "none"
  BY DEF Init, NoContext, Open
<1> QED BY <1>1 DEF Phase, Answered, Unopened, IsOpen

LEMMA PhaseStep ==
  ASSUME IInv, IInv', Phase, [Next]_vars
  PROVE  Phase'
<1>1. CASE ItemType \/ LineItem \/ BulkItem \/ MultiBulkItem
  <2>1. Parsing /\ Unwired
    BY <1>1 DEF ItemType, LineItem, BulkItem, MultiBulkItem, ItemOf
  <2>2. Outcome
    BY <1>1, ItemTypeOutcome, LineItemOutcome, BulkItemOutcome, MultiBulkItemOutcome
  <2> QED BY <2>1, <2>2, ItemPhase DEF Parsing
<1>2. CASE UNCHANGED vars
  <2>1. View' = View /\ (IsOpen' <=> IsOpen) /\ wire' = wire /\ c' = c /\ served' = served /\ n' = n /\ calls' = calls
        /\ pc' = pc /\ answer' = answer /\ r' = r
    BY <1>2 DEF vars, View, Awaited, IsOpen
  <2>2. (Sound => Sound') /\ (Broken => Broken') /\ (Unopened => Unopened') /\ (Answered => Answered')
    BY <2>1, SameBytes DEF Sound, Needing, Broken, Unopened, Answered
  <2> QED BY <2>1, <2>2 DEF Phase
<1>3. CASE Command
  BY <1>1, <1>3, StartCommandPhase, EndCommandPhase, ResolvePhase, SocketPhase, ConnectPhase, WaitReadyPhase, ReadyPhase,
     ConnectFailedPhase, GetReplyPhase, EmitPhase, BufferWritePhase, BufferReadPhase DEF Command
<1> QED BY <1>2, <1>3, ExecutePhase, LostPhase DEF Next

LEMMA Phases == Spec => [](IInv /\ Phase)
<1>1. Init => IInv /\ Phase
  BY InitKeeps, InitPhase
<1>2. IInv /\ Phase /\ [Next]_vars => IInv' /\ Phase'
  BY StepKeeps, PhaseStep
<1> QED BY <1>1, <1>2, PTL DEF Spec

(* The answer of redisCommand is the reply to this very command, every     *)
(* element in its place, and Redis has executed the command with its       *)
(* arguments: in whatever pieces write() and read() move the bytes,        *)
(* whichever system calls, allocations and connections fail, whichever     *)
(* replies before it broke the protocol, and whether or not the context    *)
(* lives on from an earlier command (redisBufferWrite, redisBufferRead,    *)
(* redisReaderGetReply, processItem, redisFree).  What the format of a     *)
(* call and the bytes of its reply mean when all of them are there is      *)
(* RepliesAssumption.                                                      *)
THEOREM RepliesMatch == Spec => []ReplyMatchesCommand
<1>1. Phase => ReplyMatchesCommand
  BY DEF Phase, Answered, ReplyMatchesCommand
<1> QED BY <1>1, Phases, PTL

(* The promise of __redisBlockForReply's comment and its converse: NULL is *)
(* returned exactly when the context has an error, so that a context kept  *)
(* after an error answers nothing any more.                                *)
THEOREM NullIsError == Spec => []NullMeansError
<1>1. IInv /\ Phase => NullMeansError
  BY DEF IInv, NullHasReason, Phase, Answered, NullMeansError
<1> QED BY <1>1, Phases, PTL
=============================================================================
