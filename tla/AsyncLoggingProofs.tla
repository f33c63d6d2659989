------------------------- MODULE AsyncLoggingProofs -------------------------
(***************************************************************************)
(* Proofs about the asynchronous log, for every size of a buffer, every    *)
(* overflow bound and any number of lines.                                 *)
(***************************************************************************)
EXTENDS AsyncLogging, SequenceTheorems, TLAPS

(* The inductive invariant.  The assertions need to know that append()     *)
(* takes nextBuffer_ only when it queues a buffer, and that the swap has   *)
(* used newBuffer1; the sleeping writer needs that nothing is queued       *)
(* between its predicate and its sleep; and only stop() clears running_.   *)
SpareUsedMeansQueued == ~hasNext => buffers # <<>>
QueueEmptyInWait     == pc \in {"falling", "asleep"} => buffers = <<>>
SwapTakesSpare       == pc = "write" => ~has1
StopClears           == pc # "new" => running \/ stop # "none"

IInv ==
  /\ TypeOK
  /\ AssertsHold
  /\ SpareUsedMeansQueued
  /\ QueueEmptyInWait
  /\ SwapTakesSpare
  /\ StopClears
  /\ LinesInOrder

(* The initial state has the invariant.                                    *)
LEMMA InitIInv == Init => IInv
<1> SUFFICES ASSUME Init PROVE IInv
  OBVIOUS
<1> USE LogAssumption DEF Init
<1>1. TypeOK
  <2>1. <<>> \in Seq(Nat) /\ Len(<<>>) = 0 /\ <<>> \in Seq(Buffer)
    OBVIOUS
  <2>2. <<>> \in Buffer
    BY <2>1 DEF Buffer
  <2> QED BY <2>1, <2>2 DEF TypeOK, PCs
<1>2. AssertsHold
  BY DEF AssertsHold
<1>3. SpareUsedMeansQueued /\ QueueEmptyInWait /\ SwapTakesSpare /\ StopClears
  BY DEF SpareUsedMeansQueued, QueueEmptyInWait, SwapTakesSpare, StopClears
<1>4. LinesInOrder
  <2>1. Everything = << <<>> >>
    BY DEF Everything
  <2>2. Range(Everything) = {<<>>} /\ Range(<<>>) = {}
    BY <2>1 DEF Range
  <2>3. InOrder(Everything)
    BY <2>1 DEF InOrder
  <2>4. UNION {Range(b) : b \in Range(Everything) \cup dropped} = 1..lines
    BY <2>2
  <2> QED BY <2>2, <2>3, <2>4 DEF LinesInOrder
<1> QED BY <1>1, <1>2, <1>3, <1>4 DEF IInv

-----------------------------------------------------------------------------
(* What is kept of the buffers is a prefix of them, and of two buffers or  *)
(* more at least two are kept.                                             *)
LEMMA KeptPrefix ==
  ASSUME NEW S, NEW s \in Seq(S)
  PROVE  /\ Kept(s) \in Seq(S)
         /\ Len(Kept(s)) <= Len(s)
         /\ \A i \in 1..Len(Kept(s)) : Kept(s)[i] = s[i]
         /\ s # <<>> => Len(Kept(s)) >= 1
         /\ Len(s) >= 2 => Len(Kept(s)) >= 2
<1>1. CASE Len(s) > MaxQueued
  <2>1. Len(s) >= 2 /\ Kept(s) = SubSeq(s, 1, 2)
    BY <1>1, LogAssumption DEF Kept
  <2>2. /\ SubSeq(s, 1, 2) \in Seq(S)
        /\ Len(SubSeq(s, 1, 2)) = 2
        /\ \A i \in 1..2 : SubSeq(s, 1, 2)[i] = s[i]
    BY <2>1
  <2> QED BY <2>1, <2>2
<1>2. CASE ~(Len(s) > MaxQueued)
  BY <1>2 DEF Kept
<1> QED BY <1>1, <1>2

(* What is written of the buffers is a prefix of what is kept; at most an  *)
(* empty buffer is left out.                                               *)
LEMMA FilledPrefix ==
  ASSUME NEW S, NEW s \in Seq(S)
  PROVE  /\ Filled(s) \in Seq(S)
         /\ Len(Filled(s)) <= Len(s)
         /\ \A i \in 1..Len(Filled(s)) : Filled(s)[i] = s[i]
         /\ \A i \in (Len(Filled(s)) + 1)..Len(s) : s[i] = <<>>
<1>1. CASE s # <<>> /\ s[Len(s)] = <<>>
  <2>1. Len(s) \in Nat \ {0} /\ Filled(s) = SubSeq(s, 1, Len(s) - 1)
    BY <1>1 DEF Filled
  <2>2. /\ SubSeq(s, 1, Len(s) - 1) \in Seq(S)
        /\ Len(SubSeq(s, 1, Len(s) - 1)) = Len(s) - 1
        /\ \A i \in 1..(Len(s) - 1) : SubSeq(s, 1, Len(s) - 1)[i] = s[i]
    <3> DEFINE n == Len(s) - 1
    <3>1. n \in Nat /\ \A i \in 1..n : s[i] \in S
      BY <2>1
    <3> HIDE DEF n
    <3>2. /\ SubSeq(s, 1, n) \in Seq(S)
          /\ Len(SubSeq(s, 1, n)) = IF 1 <= n THEN n - 1 + 1 ELSE 0
          /\ \A i \in 1..(n - 1 + 1) : SubSeq(s, 1, n)[i] = s[1 + i - 1]
      BY <3>1, SubSeqProperties
    <3>3. /\ SubSeq(s, 1, n) \in Seq(S)
          /\ Len(SubSeq(s, 1, n)) = n
          /\ \A i \in 1..n : SubSeq(s, 1, n)[i] = s[i]
      BY <3>1, <3>2
    <3> QED BY <3>3 DEF n
  <2> QED BY <1>1, <2>1, <2>2
<1>2. CASE ~(s # <<>> /\ s[Len(s)] = <<>>)
  <2>1. Filled(s) = s
    BY <1>2 DEF Filled
  <2> QED BY <2>1
<1> QED BY <1>1, <1>2

(* A subsequence of buffers in order is in order.                          *)
LEMMA InOrderEmbed ==
  ASSUME NEW s, NEW t, NEW m, InOrder(s),
         \A p \in DOMAIN t : m[p] \in DOMAIN s /\ t[p] = s[m[p]],
         \A p, q \in DOMAIN t : p < q => m[p] < m[q]
  PROVE  InOrder(t)
BY DEF InOrder

(* A buffer of later lines may follow.                                     *)
LEMMA InOrderAppend ==
  ASSUME NEW s \in Seq(Buffer), NEW b \in Buffer, InOrder(s),
         \A c \in Range(s) : \A x \in Range(c), y \in Range(b) : x < y,
         \A i, j \in DOMAIN b : i < j => b[i] < b[j]
  PROVE  InOrder(Append(s, b))
<1> DEFINE t == Append(s, b)
<1>1. /\ t \in Seq(Buffer) /\ Len(t) = Len(s) + 1 /\ t[Len(s) + 1] = b
      /\ \A i \in 1..Len(s) : t[i] = s[i]
      /\ DOMAIN t = 1..(Len(s) + 1) /\ DOMAIN s = 1..Len(s) /\ Len(s) \in Nat
  OBVIOUS
<1>2. SUFFICES ASSUME NEW p \in DOMAIN t, NEW q \in DOMAIN t,
                      NEW i \in DOMAIN t[p], NEW j \in DOMAIN t[q],
                      p < q \/ (p = q /\ i < j)
               PROVE  t[p][i] < t[q][j]
  BY DEF InOrder
<1> HIDE DEF t
<1>3. CASE q \in 1..Len(s)
  <2>1. p \in 1..Len(s)
    BY <1>1, <1>2, <1>3
  <2> QED BY <1>1, <1>2, <1>3, <2>1 DEF InOrder
<1>4. CASE q = Len(s) + 1 /\ p = q
  BY <1>1, <1>2, <1>4
<1>5. CASE q = Len(s) + 1 /\ p < q
  <2>1. p \in 1..Len(s) /\ t[p] \in Range(s)
    BY <1>1, <1>5 DEF Range
  <2>2. t[p][i] \in Range(t[p]) /\ t[q][j] \in Range(b)
    BY <1>1, <1>5 DEF Range
  <2> QED BY <2>1, <2>2
<1> QED BY <1>1, <1>2, <1>3, <1>4, <1>5

(* The range of a concatenation.                                           *)
LEMMA RangeConcat ==
  ASSUME NEW S, NEW s \in Seq(S), NEW t \in Seq(S)
  PROVE  s \o t \in Seq(S) /\ Range(s \o t) = Range(s) \cup Range(t)
<1> DEFINE u == s \o t
<1>1. /\ u \in Seq(S) /\ Len(u) = Len(s) + Len(t)
      /\ \A i \in 1..Len(s) : u[i] = s[i]
      /\ \A i \in 1..Len(t) : u[Len(s) + i] = t[i]
      /\ DOMAIN s = 1..Len(s) /\ DOMAIN t = 1..Len(t)
      /\ DOMAIN u = 1..(Len(s) + Len(t)) /\ Len(s) \in Nat /\ Len(t) \in Nat
  OBVIOUS
<1> HIDE DEF u
<1>2. Range(u) \subseteq Range(s) \cup Range(t)
  <2> SUFFICES ASSUME NEW i \in 1..(Len(s) + Len(t))
               PROVE  u[i] \in Range(s) \cup Range(t)
    BY <1>1 DEF Range
  <2>1. CASE i <= Len(s)
    <3>1. i \in DOMAIN s /\ u[i] = s[i]
      BY <1>1, <2>1
    <3> QED BY <3>1 DEF Range
  <2>2. CASE i > Len(s)
    <3>0. i - Len(s) \in 1..Len(t) /\ i = Len(s) + (i - Len(s))
      BY <1>1, <2>2
    <3>1. PICK j \in 1..Len(t) : i = Len(s) + j
      BY <3>0
    <3>2. j \in DOMAIN t /\ u[i] = t[j]
      BY <1>1, <3>1
    <3> QED BY <3>2 DEF Range
  <2> QED BY <1>1, <2>1, <2>2
<1>3. Range(s) \subseteq Range(u)
  BY <1>1 DEF Range
<1>4. Range(t) \subseteq Range(u)
  BY <1>1 DEF Range
<1> QED BY <1>1, <1>2, <1>3, <1>4 DEF u

(* The range of a sequence that was appended to.                           *)
LEMMA RangeAppend ==
  ASSUME NEW S, NEW s \in Seq(S), NEW x \in S
  PROVE  Append(s, x) \in Seq(S) /\ Range(Append(s, x)) = Range(s) \cup {x}
<1>1. Append(s, x) = s \o <<x>> /\ <<x>> \in Seq(S)
  OBVIOUS
<1>2. Range(<<x>>) = {x}
  BY DEF Range
<1>3. /\ s \o <<x>> \in Seq(S)
      /\ Range(s \o <<x>>) = Range(s) \cup Range(<<x>>)
  BY <1>1, RangeConcat
<1> QED BY <1>1, <1>2, <1>3

-----------------------------------------------------------------------------
(* LinesInOrder of buffers s, dropped buffers d and the lines 1..n.        *)
Ledger(s, d, n) ==
  /\ InOrder(s)
  /\ UNION {Range(b) : b \in Range(s) \cup d} = 1..n
  /\ \A b \in d, c \in Range(s) : Range(b) \cap Range(c) = {}

(* One more buffer in the union of their lines.                            *)
LEMMA UnionRange ==
  ASSUME NEW B, NEW x
  PROVE  UNION {Range(b) : b \in B \cup {x}} = Range(x) \cup UNION {Range(b) : b \in B}
<1>1. \A y \in UNION {Range(b) : b \in B \cup {x}} :
        y \in Range(x) \cup UNION {Range(b) : b \in B}
  OBVIOUS
<1>2. \A y \in Range(x) \cup UNION {Range(b) : b \in B} :
        y \in UNION {Range(b) : b \in B \cup {x}}
  OBVIOUS
<1> QED BY <1>1, <1>2

(* An empty buffer at the end changes nothing.                             *)
LEMMA LedgerEmpty ==
  ASSUME NEW s \in Seq(Buffer), NEW d, NEW n \in Nat, Ledger(s, d, n)
  PROVE  Ledger(Append(s, <<>>), d, n)
<1>1. <<>> \in Buffer /\ Range(<<>>) = {} /\ DOMAIN <<>> = {}
  BY LogAssumption DEF Buffer, Range
<1>2. Range(Append(s, <<>>)) = Range(s) \cup {<<>>}
  BY <1>1, RangeAppend
<1>3. InOrder(Append(s, <<>>))
  BY <1>1, InOrderAppend DEF Ledger
<1>4. UNION {Range(b) : b \in Range(Append(s, <<>>)) \cup d} = 1..n
  <2>1. UNION {Range(b) : b \in Range(Append(s, <<>>)) \cup d}
          = Range(<<>>) \cup UNION {Range(b) : b \in Range(s) \cup d}
    <3>1. Range(Append(s, <<>>)) \cup d = (Range(s) \cup d) \cup {<<>>}
      BY <1>2
    <3> QED BY <3>1, UnionRange
  <2> QED BY <1>1, <2>1 DEF Ledger
<1>5. \A b \in d, c \in Range(Append(s, <<>>)) : Range(b) \cap Range(c) = {}
  BY <1>1, <1>2 DEF Ledger
<1> QED BY <1>3, <1>4, <1>5 DEF Ledger

(* The next line goes to the end of the last buffer.                       *)
LEMMA LedgerLine ==
  ASSUME NEW r \in Seq(Buffer), NEW c \in Buffer, NEW d, NEW n \in Nat,
         Append(c, n + 1) \in Buffer, Ledger(Append(r, c), d, n)
  PROVE  Ledger(Append(r, Append(c, n + 1)), d, n + 1)
<1> DEFINE s == Append(r, c)
           b == Append(c, n + 1)
<1>1. /\ Len(r) \in Nat /\ DOMAIN r = 1..Len(r) /\ DOMAIN s = 1..(Len(r) + 1)
      /\ s[Len(r) + 1] = c /\ \A i \in 1..Len(r) : s[i] = r[i]
  OBVIOUS
<1>2. c \in Seq(Nat) /\ Len(c) \in Nat /\ DOMAIN c = 1..Len(c)
  BY DEF Buffer
<1>3. /\ DOMAIN b = 1..(Len(c) + 1) /\ b[Len(c) + 1] = n + 1
      /\ \A i \in 1..Len(c) : b[i] = c[i]
  BY <1>2
<1>4. Range(s) = Range(r) \cup {c} /\ Range(Append(r, b)) = Range(r) \cup {b}
  <2>1. Range(Append(r, c)) = Range(r) \cup {c}
    BY RangeAppend
  <2>2. Range(Append(r, Append(c, n + 1))) = Range(r) \cup {Append(c, n + 1)}
    <3> DEFINE e == Append(c, n + 1)
    <3>1. e \in Buffer
      OBVIOUS
    <3> HIDE DEF e
    <3>2. Range(Append(r, e)) = Range(r) \cup {e}
      BY <3>1, RangeAppend
    <3> QED BY <3>2 DEF e
  <2> QED BY <2>1, <2>2
<1>5. Range(b) = Range(c) \cup {n + 1}
  BY <1>2, RangeAppend
<1> HIDE DEF s, b
<1>6. InOrder(s)
  BY DEF Ledger, s
<1>7. InOrder(r)
  <2> DEFINE m == [p \in DOMAIN r |-> p]
  <2>1. \A p \in DOMAIN r : m[p] \in DOMAIN s /\ r[p] = s[m[p]]
    BY <1>1
  <2>2. \A p, q \in DOMAIN r : p < q => m[p] < m[q]
    OBVIOUS
  <2> HIDE DEF m
  <2> QED BY <1>6, <2>1, <2>2, InOrderEmbed
<1>8. UNION {Range(x) : x \in Range(s) \cup d} = 1..n
  BY DEF Ledger, s
<1>9. \A x \in Range(s) \cup d : Range(x) \subseteq 1..n
  BY <1>8
<1>10. \A i, j \in DOMAIN b : i < j => b[i] < b[j]
  <2> SUFFICES ASSUME NEW i \in 1..(Len(c) + 1), NEW j \in 1..(Len(c) + 1), i < j
               PROVE  b[i] < b[j]
    BY <1>3
  <2>1. i \in 1..Len(c) /\ b[i] = c[i] /\ c[i] \in Range(c)
    BY <1>2, <1>3 DEF Range
  <2>2. CASE j = Len(c) + 1
    BY <1>3, <1>4, <1>9, <2>1, <2>2
  <2>3. CASE j \in 1..Len(c)
    <3>1. Len(r) + 1 \in DOMAIN s /\ s[Len(r) + 1] = c
      BY <1>1
    <3> QED BY <1>2, <1>3, <1>6, <2>1, <2>3, <3>1 DEF InOrder
  <2> QED BY <1>2, <2>2, <2>3
<1>11. \A x \in Range(r) : \A u \in Range(x), v \in Range(b) : u < v
  <2> SUFFICES ASSUME NEW x \in Range(r), NEW u \in Range(x), NEW v \in Range(b)
               PROVE  u < v
    OBVIOUS
  <2>1. u \in 1..n
    BY <1>4, <1>9
  <2>2. CASE v = n + 1
    BY <2>1, <2>2
  <2>3. CASE v \in Range(c)
    <3>1. PICK p \in 1..Len(r) : x = r[p]
      BY <1>1 DEF Range
    <3>2. PICK i \in DOMAIN r[p] : u = r[p][i]
      BY <3>1 DEF Range
    <3>3. PICK j \in DOMAIN c : v = c[j]
      BY <2>3 DEF Range
    <3>4. /\ p \in DOMAIN s /\ Len(r) + 1 \in DOMAIN s /\ p < Len(r) + 1
          /\ s[p] = r[p] /\ s[Len(r) + 1] = c
      BY <1>1, <3>1
    <3>5. s[p][i] < s[Len(r) + 1][j]
      BY <1>6, <3>2, <3>3, <3>4 DEF InOrder
    <3> QED BY <3>2, <3>3, <3>4, <3>5
  <2> QED BY <1>5, <2>2, <2>3
<1>12. InOrder(Append(r, b))
  <2>1. b \in Buffer
    BY DEF b
  <2> QED BY <1>7, <1>10, <1>11, <2>1, InOrderAppend
<1>13. UNION {Range(x) : x \in Range(Append(r, b)) \cup d} = 1..(n + 1)
  <2>1. UNION {Range(x) : x \in Range(Append(r, b)) \cup d}
          = Range(b) \cup UNION {Range(x) : x \in Range(r) \cup d}
    <3>1. Range(Append(r, b)) \cup d = (Range(r) \cup d) \cup {b}
      BY <1>4
    <3> QED BY <3>1, UnionRange
  <2>2. 1..n = Range(c) \cup UNION {Range(x) : x \in Range(r) \cup d}
    <3>1. Range(s) \cup d = (Range(r) \cup d) \cup {c}
      BY <1>4
    <3> QED BY <1>8, <3>1, UnionRange
  <2>3. 1..(n + 1) = 1..n \cup {n + 1}
    OBVIOUS
  <2> QED BY <1>5, <2>1, <2>2, <2>3
<1>14. \A x \in d, y \in Range(Append(r, b)) : Range(x) \cap Range(y) = {}
  <2>1. \A x \in d, y \in Range(s) : Range(x) \cap Range(y) = {}
    BY DEF Ledger, s
  <2>2. \A x \in d : n + 1 \notin Range(x)
    BY <1>9
  <2> QED BY <1>4, <1>5, <2>1, <2>2
<1> QED BY <1>12, <1>13, <1>14 DEF Ledger, b

(* Buffers in order share no line.                                         *)
LEMMA InOrderDisjoint ==
  ASSUME NEW s \in Seq(Buffer), InOrder(s),
         NEW p \in DOMAIN s, NEW q \in DOMAIN s, p # q
  PROVE  Range(s[p]) \cap Range(s[q]) = {}
<1> SUFFICES ASSUME NEW y \in Range(s[p]), y \in Range(s[q])
             PROVE  FALSE
  OBVIOUS
<1>1. PICK i \in DOMAIN s[p] : y = s[p][i]
  BY DEF Range
<1>2. PICK j \in DOMAIN s[q] : y = s[q][j]
  BY DEF Range
<1>3. s[p] \in Seq(Nat) /\ y \in Nat
  <2>1. s[p] \in Buffer
    OBVIOUS
  <2>2. s[p] \in Seq(Nat)
    BY <2>1 DEF Buffer
  <2> QED BY <1>1, <2>2
<1>4. p \in Int /\ q \in Int
  OBVIOUS
<1>5. CASE p < q
  <2>1. s[p][i] < s[q][j]
    BY <1>5 DEF InOrder
  <2> QED BY <1>1, <1>2, <1>3, <2>1
<1>6. CASE q < p
  <2>1. s[q][j] < s[p][i]
    BY <1>6 DEF InOrder
  <2> QED BY <1>1, <1>2, <1>3, <2>1
<1> QED BY <1>4, <1>5, <1>6

(* A prefix v of the buffers w is kept, what follows it up to h is empty,  *)
(* and what follows h is dropped.                                          *)
LEMMA LedgerDrop ==
  ASSUME NEW f \in Seq(Buffer), NEW w \in Seq(Buffer), NEW r \in Seq(Buffer),
         NEW v \in Seq(Buffer), NEW d, NEW n \in Nat, NEW h \in Nat,
         Len(v) <= h, h <= Len(w),
         \A i \in 1..Len(v) : v[i] = w[i],
         \A i \in (Len(v) + 1)..h : w[i] = <<>>,
         Ledger(f \o w \o r, d, n)
  PROVE  Ledger(f \o v \o r,
                d \cup ({w[i] : i \in (h + 1)..Len(w)} \ {<<>>}), n)
<1> DEFINE s == f \o w \o r
           t == f \o v \o r
           k == Len(v)
           lost == {w[i] : i \in (h + 1)..Len(w)} \ {<<>>}
           m == [p \in DOMAIN t |-> IF p <= Len(f) + k THEN p ELSE p + (Len(w) - k)]
<1>1. /\ s \in Seq(Buffer) /\ DOMAIN s = 1..(Len(f) + Len(w) + Len(r))
      /\ \A i \in 1..Len(f) : s[i] = f[i]
      /\ \A i \in 1..Len(w) : s[Len(f) + i] = w[i]
      /\ \A i \in 1..Len(r) : s[Len(f) + Len(w) + i] = r[i]
  OBVIOUS
<1>2. /\ t \in Seq(Buffer) /\ DOMAIN t = 1..(Len(f) + k + Len(r))
      /\ \A i \in 1..Len(f) : t[i] = f[i]
      /\ \A i \in 1..k : t[Len(f) + i] = v[i]
      /\ \A i \in 1..Len(r) : t[Len(f) + k + i] = r[i]
  OBVIOUS
<1>3. /\ Len(f) \in Nat /\ Len(w) \in Nat /\ Len(r) \in Nat /\ k \in Nat
      /\ k <= h /\ h <= Len(w)
      /\ DOMAIN w = 1..Len(w) /\ DOMAIN v = 1..k
  OBVIOUS
<1>4. /\ Range(s) = Range(f) \cup Range(w) \cup Range(r)
      /\ Range(t) = Range(f) \cup Range(v) \cup Range(r)
  <2> HIDE DEF s, t
  <2>1. f \o w \in Seq(Buffer) /\ Range(f \o w) = Range(f) \cup Range(w)
    BY RangeConcat
  <2>2. f \o v \in Seq(Buffer) /\ Range(f \o v) = Range(f) \cup Range(v)
    BY RangeConcat
  <2> DEFINE fw == f \o w
             fv == f \o v
  <2> HIDE DEF fw, fv
  <2>3. Range(fw \o r) = Range(fw) \cup Range(r)
    <3>1. fw \in Seq(Buffer)
      BY <2>1 DEF fw
    <3> QED BY <3>1, RangeConcat
  <2>4. Range(fv \o r) = Range(fv) \cup Range(r)
    <3>1. fv \in Seq(Buffer)
      BY <2>2 DEF fv
    <3> QED BY <3>1, RangeConcat
  <2> USE DEF fw, fv, s, t
  <2> QED BY <2>1, <2>2, <2>3, <2>4
<1> HIDE DEF s, t, k
<1>5. \A p \in DOMAIN t : m[p] \in DOMAIN s /\ t[p] = s[m[p]]
  <2> SUFFICES ASSUME NEW p \in DOMAIN t
               PROVE  m[p] \in DOMAIN s /\ t[p] = s[m[p]]
    OBVIOUS
  <2>1. CASE p <= Len(f)
    BY <1>1, <1>2, <1>3, <2>1
  <2>2. CASE p > Len(f) /\ p <= Len(f) + k
    <3>1. PICK i \in 1..k : p = Len(f) + i
      <4>1. p - Len(f) \in 1..k /\ p = Len(f) + (p - Len(f))
        BY <1>2, <1>3, <2>2
      <4> QED BY <4>1
    <3>2. t[p] = w[i] /\ m[p] = Len(f) + i /\ i \in 1..Len(w)
      BY <1>2, <1>3, <2>2, <3>1 DEF k
    <3> QED BY <1>1, <1>3, <3>2
  <2>3. CASE p > Len(f) + k
    <3>1. PICK i \in 1..Len(r) : p = Len(f) + k + i
      <4>1. p - (Len(f) + k) \in 1..Len(r) /\ p = Len(f) + k + (p - (Len(f) + k))
        BY <1>2, <1>3, <2>3
      <4> QED BY <4>1
    <3>2. t[p] = r[i] /\ m[p] = Len(f) + Len(w) + i
      BY <1>2, <1>3, <2>3, <3>1
    <3> QED BY <1>1, <1>3, <3>2
  <2> QED BY <1>2, <1>3, <2>1, <2>2, <2>3
<1>6. \A p, q \in DOMAIN t : p < q => m[p] < m[q]
  <2> SUFFICES ASSUME NEW p \in DOMAIN t, NEW q \in DOMAIN t, p < q
               PROVE  m[p] < m[q]
    OBVIOUS
  <2>1. p \in Nat /\ q \in Nat
    BY <1>2
  <2>2. /\ m[p] = IF p <= Len(f) + k THEN p ELSE p + (Len(w) - k)
        /\ m[q] = IF q <= Len(f) + k THEN q ELSE q + (Len(w) - k)
    OBVIOUS
  <2> HIDE DEF m
  <2> QED BY <1>3, <2>1, <2>2
<1>7. InOrder(s)
  BY DEF Ledger, s
<1>8. InOrder(t)
  <2> HIDE DEF m
  <2> QED BY <1>5, <1>6, <1>7, InOrderEmbed
<1>9. Range(v) \subseteq Range(w) /\ lost \subseteq Range(w)
  <2>1. \A i \in 1..k : v[i] = w[i] /\ i \in 1..Len(w)
    BY <1>3 DEF k
  <2>2. Range(v) = {v[i] : i \in 1..k} /\ Range(w) = {w[i] : i \in 1..Len(w)}
    BY <1>3 DEF Range
  <2>3. \A i \in (h + 1)..Len(w) : i \in 1..Len(w)
    BY <1>3
  <2>4. Range(v) \subseteq Range(w)
    BY <2>1, <2>2
  <2>5. lost \subseteq Range(w)
    BY <2>2, <2>3
  <2> QED BY <2>4, <2>5
<1>10. UNION {Range(b) : b \in Range(s) \cup d} = 1..n
  BY DEF Ledger, s
<1>11. UNION {Range(b) : b \in Range(t) \cup (d \cup lost)} = 1..n
  <2> HIDE DEF lost
  <2>1. Range(t) \cup (d \cup lost) \subseteq Range(s) \cup d
    BY <1>4, <1>9
  <2>2. ASSUME NEW y \in 1..n
        PROVE  \E b \in Range(t) \cup (d \cup lost) : y \in Range(b)
    <3>1. PICK b \in Range(s) \cup d : y \in Range(b)
      BY <1>10
    <3>2. CASE b \notin Range(w)
      BY <1>4, <3>1, <3>2
    <3>3. CASE b \in Range(w)
      <4>1. PICK i \in 1..Len(w) : b = w[i]
        BY <1>3, <3>3 DEF Range
      <4>2. b # <<>>
        <5>1. Range(<<>>) = {}
          BY DEF Range
        <5> QED BY <3>1, <5>1
      <4>3. CASE i <= k
        <5>1. i \in DOMAIN v /\ v[i] = b
          BY <1>3, <4>1, <4>3 DEF k
        <5>2. b \in Range(v)
          BY <5>1 DEF Range
        <5> QED BY <1>4, <3>1, <5>2
      <4>4. CASE i > k /\ i <= h
        BY <1>3, <4>1, <4>2, <4>4 DEF k
      <4>5. CASE i > h
        <5>1. b \in lost
          BY <1>3, <4>1, <4>2, <4>5 DEF lost
        <5> QED BY <3>1, <5>1
      <4> QED BY <1>3, <4>3, <4>4, <4>5
    <3> QED BY <3>2, <3>3
  <2> QED BY <1>10, <2>1, <2>2
<1>12. \A b \in d \cup lost, c \in Range(t) : Range(b) \cap Range(c) = {}
  <2>1. ASSUME NEW b \in d, NEW c \in Range(t)
        PROVE  Range(b) \cap Range(c) = {}
    BY <1>4, <1>9 DEF Ledger, s
  <2>2. ASSUME NEW b \in lost, NEW c \in Range(t)
        PROVE  Range(b) \cap Range(c) = {}
    <3>1. PICK i \in (h + 1)..Len(w) : b = w[i]
      OBVIOUS
    <3>2. PICK p \in DOMAIN t : c = t[p]
      BY DEF Range
    <3>3. /\ Len(f) + i \in DOMAIN s /\ s[Len(f) + i] = b
          /\ m[p] \in DOMAIN s /\ s[m[p]] = c
      BY <1>1, <1>3, <1>5, <3>1, <3>2
    <3>4. m[p] # Len(f) + i
      BY <1>2, <1>3, <3>1
    <3> HIDE DEF m
    <3> QED BY <1>1, <1>7, <3>3, <3>4, InOrderDisjoint
  <2> QED BY <2>1, <2>2
<1> HIDE DEF lost
<1>13. Ledger(t, d \cup lost, n)
  BY <1>8, <1>11, <1>12 DEF Ledger
<1> QED BY <1>13 DEF t, lost

-----------------------------------------------------------------------------
(* The buffers of the front and of the back end, one after the other.      *)
LEMMA EverythingSplit ==
  ASSUME TypeOK
  PROVE  /\ file \o toWrite \o buffers \in Seq(Buffer)
         /\ Everything = Append(file \o toWrite \o buffers, current)
         /\ Everything \in Seq(Buffer)
BY DEF TypeOK, Everything

(* Every step keeps the types.                                             *)
LEMMA StepTypeOK ==
  ASSUME TypeOK, [Next]_vars
  PROVE  TypeOK'
<1> USE LogAssumption
<1>0. <<>> \in Buffer /\ \A i \in Nat : <<i>> \in Buffer
  <2>1. \A i \in Nat : <<i>> \in Seq(Nat) /\ Len(<<i>>) = 1
    OBVIOUS
  <2> QED BY <2>1 DEF Buffer
<1>1. CASE Start
  BY <1>1 DEF TypeOK, Start, PCs, front, back
<1>2. CASE AppendFits
  <2>1. Append(current, lines + 1) \in Buffer
    BY <1>2 DEF TypeOK, AppendFits, Buffer
  <2> QED BY <1>2, <2>1 DEF TypeOK, AppendFits, back
<1>3. CASE AppendFull
  <2>1. Append(buffers, current) \in Seq(Buffer) /\ <<lines + 1>> \in Buffer
    BY <1>0 DEF TypeOK
  <2>2. pc' \in PCs
    BY <1>3 DEF TypeOK, AppendFull, Notify, PCs
  <2>3. lines' \in Nat /\ current' \in Buffer /\ buffers' \in Seq(Buffer)
    BY <1>3, <2>1 DEF TypeOK, AppendFull
  <2>4. hasNext' \in BOOLEAN
    BY <1>3 DEF AppendFull
  <2> QED BY <1>3, <2>2, <2>3, <2>4 DEF TypeOK, AppendFull, back
<1>4. CASE Stop
  BY <1>4 DEF TypeOK, Stop, Notify, PCs, front, back
<1>5. CASE Joined
  BY <1>5 DEF TypeOK, Joined, front, back
<1>6. CASE Loop
  BY <1>6 DEF TypeOK, Loop, PCs, front, back
<1>7. CASE WaitCheck
  BY <1>7 DEF TypeOK, WaitCheck, PCs, front, back
<1>8. CASE FallAsleep
  BY <1>8 DEF TypeOK, FallAsleep, PCs, front, back
<1>9. CASE SpuriousWakeup
  BY <1>9 DEF TypeOK, SpuriousWakeup, PCs, front, back
<1>10. CASE Expire
  BY <1>10 DEF TypeOK, Expire, PCs, front, back
<1>11. CASE Swap
  <2>1. Append(buffers, current) \in Seq(Buffer) /\ <<>> \in Seq(Buffer)
    BY DEF TypeOK
  <2> QED BY <1>0, <1>11, <2>1 DEF TypeOK, Swap, PCs
<1>12. CASE Write
  <2>1. /\ Kept(toWrite) \in Seq(Buffer)
        /\ Filled(Kept(toWrite)) \in Seq(Buffer)
    BY KeptPrefix, FilledPrefix DEF TypeOK
  <2>2. file' \in Seq(Buffer)
    BY <1>12, <2>1 DEF TypeOK, Write
  <2>3. dropped' \subseteq Buffer
    <3>1. Len(Kept(toWrite)) \in Nat
      BY <2>1
    <3>2. {toWrite[i] : i \in (Len(Kept(toWrite)) + 1)..Len(toWrite)} \subseteq Buffer
      BY <3>1 DEF TypeOK
    <3> QED BY <1>12, <3>2 DEF TypeOK, Write
  <2>4. has1' \in BOOLEAN /\ has2' \in BOOLEAN
    BY <1>12 DEF TypeOK, Write
  <2>5. toWrite' \in Seq(Buffer) /\ pc' \in PCs
    BY <1>12 DEF Write, PCs
  <2> QED BY <1>12, <2>2, <2>3, <2>4, <2>5 DEF TypeOK, Write, front
<1>13. CASE Begin
  BY <1>13 DEF TypeOK, Begin, PCs, front, back
<1>14. CASE UNCHANGED vars
  BY <1>14 DEF TypeOK, vars, front, back
<1> QED BY <1>1, <1>2, <1>3, <1>4, <1>5, <1>6, <1>7, <1>8, <1>9, <1>10, <1>11,
           <1>12, <1>13, <1>14 DEF Next

(* Every step keeps the assertions of the writing thread.                  *)
LEMMA StepAssertsHold ==
  ASSUME IInv, [Next]_vars
  PROVE  AssertsHold'
<1> USE DEF IInv
<1>1. CASE AppendFull
  BY <1>1 DEF AssertsHold, AppendFull, Notify, back
<1>2. CASE Stop
  BY <1>2 DEF AssertsHold, Stop, Notify, back
<1>3. CASE Begin \/ Loop \/ WaitCheck \/ FallAsleep \/ SpuriousWakeup \/ Expire
  BY <1>3 DEF AssertsHold, StopClears, Begin, Loop, WaitCheck, FallAsleep, SpuriousWakeup,
              Expire, back
<1>4. CASE Start \/ Joined \/ AppendFits
  BY <1>4 DEF AssertsHold, Start, Joined, AppendFits, back
<1>5. CASE Swap
  <2>1. /\ toWrite' = Append(buffers, current) /\ toWrite' \in Seq(Buffer)
        /\ toWrite' # <<>> /\ Len(toWrite') = Len(buffers) + 1 /\ Len(buffers) \in Nat
    BY <1>5 DEF Swap, TypeOK
  <2>2. ~has2' => Len(toWrite') >= 2
    <3>1. has2
      BY <1>5 DEF Swap, PastWait, AssertsHold
    <3>2. ~has2' => buffers # <<>>
      BY <1>5, <3>1 DEF Swap, SpareUsedMeansQueued
    <3>3. buffers # <<>> => Len(buffers) >= 1
      BY DEF TypeOK
    <3> QED BY <2>1, <3>2, <3>3
  <2>3. /\ Len(Kept(toWrite')) >= 1
        /\ Len(toWrite') >= 2 => Len(Kept(toWrite')) >= 2
    <3> DEFINE u == toWrite'
    <3>1. u \in Seq(Buffer) /\ u # <<>>
      BY <2>1
    <3> HIDE DEF u
    <3>2. Len(Kept(u)) >= 1 /\ (Len(u) >= 2 => Len(Kept(u)) >= 2)
      BY <3>1, KeptPrefix
    <3> QED BY <3>2 DEF u
  <2>4. pc' = "write"
    BY <1>5 DEF Swap
  <2> QED BY <2>1, <2>2, <2>3, <2>4 DEF AssertsHold, Kept
<1>6. CASE Write
  <2>1. Kept(toWrite) \in Seq(Buffer) /\ Len(Kept(toWrite)) >= 1
    <3>1. toWrite \in Seq(Buffer) /\ toWrite # <<>>
      BY <1>6 DEF TypeOK, AssertsHold, Write
    <3> QED BY <3>1, KeptPrefix
  <2>2. Kept(toWrite) # <<>>
    BY <2>1
  <2>3. has1'
    BY <1>6, <2>2 DEF Write
  <2>4. has2'
    BY <1>6 DEF Write, AssertsHold, SwapTakesSpare
  <2> QED BY <1>6, <2>3, <2>4 DEF Write, AssertsHold
<1>7. CASE UNCHANGED vars
  BY <1>7 DEF AssertsHold, vars, back
<1> QED BY <1>1, <1>2, <1>3, <1>4, <1>5, <1>6, <1>7 DEF Next

(* The order of the lines depends on lines, dropped and Everything only.   *)
LEMMA LinesInOrderLedger == LinesInOrder <=> Ledger(Everything, dropped, lines)
BY DEF LinesInOrder, Ledger

(* An appended line goes to the end.                                       *)
LEMMA AppendFitsLines ==
  ASSUME IInv, AppendFits
  PROVE  LinesInOrder'
<1> DEFINE r == file \o toWrite \o buffers
           b == Append(current, lines + 1)
<1>1. r \in Seq(Buffer) /\ Everything = Append(r, current)
  BY EverythingSplit DEF IInv
<1>2. b \in Buffer
  <2>1. /\ current \in Seq(Nat) /\ Len(current) \in Nat /\ Len(current) < Capacity
        /\ lines + 1 \in Nat
    BY DEF IInv, TypeOK, AppendFits, Buffer
  <2>2. b \in Seq(Nat) /\ Len(b) = Len(current) + 1
    BY <2>1
  <2> HIDE DEF b
  <2> QED BY <2>1, <2>2, LogAssumption DEF Buffer
<1>3. current \in Buffer /\ lines \in Nat
  BY DEF IInv, TypeOK
<1>4. Everything' = Append(r, b)
  <2>1. file' = file /\ toWrite' = toWrite /\ buffers' = buffers /\ current' = b
    BY DEF AppendFits, back
  <2>2. Everything' = r \o <<b>>
    BY <2>1 DEF Everything
  <2> QED BY <1>1, <2>2
<1>5. Ledger(Append(r, current), dropped, lines)
  BY <1>1, LinesInOrderLedger DEF IInv
<1> HIDE DEF r
<1>6. Ledger(Append(r, b), dropped, lines + 1)
  BY <1>1, <1>2, <1>3, <1>5, LedgerLine
<1>7. dropped' = dropped /\ lines' = lines + 1
  BY DEF AppendFits, back
<1> HIDE DEF b
<1> QED BY <1>4, <1>6, <1>7 DEF LinesInOrder, Ledger

(* A line that needs a new buffer goes to the end too.                     *)
LEMMA AppendFullLines ==
  ASSUME IInv, AppendFull
  PROVE  LinesInOrder'
<1> DEFINE r == Everything
<1>1. r \in Seq(Buffer) /\ lines \in Nat /\ file \o toWrite \o buffers \in Seq(Buffer)
  BY EverythingSplit DEF IInv, TypeOK
<1>2. <<>> \in Buffer /\ Append(<<>>, lines + 1) \in Buffer /\ Append(<<>>, lines + 1) = <<lines + 1>>
  <2>1. <<lines + 1>> \in Seq(Nat) /\ Len(<<lines + 1>>) = 1
    BY <1>1
  <2>2. Append(<<>>, lines + 1) = <<lines + 1>>
    OBVIOUS
  <2> QED BY <2>1, <2>2, LogAssumption DEF Buffer
<1>3. Everything' = Append(r, <<lines + 1>>)
  <2>1. /\ file' = file /\ toWrite' = toWrite
        /\ buffers' = Append(buffers, current) /\ current' = <<lines + 1>>
    BY DEF AppendFull, back
  <2>2. Everything' = file \o toWrite \o Append(buffers, current) \o << <<lines + 1>> >>
    BY <2>1 DEF Everything
  <2>3. file \in Seq(Buffer) /\ toWrite \in Seq(Buffer) /\ buffers \in Seq(Buffer) /\ current \in Buffer
    BY DEF IInv, TypeOK
  <2>4. file \o toWrite \o Append(buffers, current) = Everything
    BY <2>3 DEF Everything
  <2>5. Everything' = r \o << <<lines + 1>> >>
    BY <2>2, <2>4
  <2> QED BY <1>1, <2>5
<1>4. Ledger(r, dropped, lines)
  BY LinesInOrderLedger DEF IInv
<1> HIDE DEF r
<1>5. Ledger(Append(r, <<>>), dropped, lines)
  BY <1>1, <1>4, LedgerEmpty
<1>6. Ledger(Append(r, Append(<<>>, lines + 1)), dropped, lines + 1)
  BY <1>1, <1>2, <1>5, LedgerLine
<1>7. dropped' = dropped /\ lines' = lines + 1
  BY DEF AppendFull, back
<1> QED BY <1>2, <1>3, <1>6, <1>7 DEF LinesInOrder, Ledger

(* The swap moves all buffers to the writing thread and opens an empty one.*)
LEMMA SwapLines ==
  ASSUME IInv, Swap
  PROVE  LinesInOrder'
<1> DEFINE r == Everything
<1>1. /\ file \in Seq(Buffer) /\ buffers \in Seq(Buffer) /\ current \in Buffer
      /\ r \in Seq(Buffer) /\ lines \in Nat
  BY EverythingSplit DEF IInv, TypeOK
<1>2. toWrite = <<>>
  BY DEF IInv, AssertsHold, Swap, PastWait
<1>3. Everything' = Append(r, <<>>)
  <2>1. /\ file' = file /\ toWrite' = Append(buffers, current)
        /\ buffers' = <<>> /\ current' = <<>>
    BY DEF Swap
  <2>2. Everything' = file \o Append(buffers, current) \o <<>> \o << <<>> >>
    BY <2>1 DEF Everything
  <2>3. Append(buffers, current) = buffers \o <<current>> /\ <<current>> \in Seq(Buffer)
    BY <1>1
  <2>4. r = (file \o buffers) \o <<current>>
    BY <1>1, <1>2 DEF Everything
  <2>5. (file \o buffers) \o <<current>> = file \o (buffers \o <<current>>)
    BY <1>1, <2>3, ConcatAssociative
  <2>6. file \o Append(buffers, current) \in Seq(Buffer)
    BY <1>1
  <2>7. file \o Append(buffers, current) \o <<>> = r
    <3> HIDE DEF r
    <3>1. file \o Append(buffers, current) = r
      BY <2>3, <2>4, <2>5
    <3> QED BY <2>6, <3>1, ConcatEmptySeq
  <2> HIDE DEF r
  <2>8. Everything' = r \o << <<>> >>
    BY <2>2, <2>7
  <2>9. <<>> \in Buffer
    BY LogAssumption DEF Buffer
  <2> QED BY <1>1, <2>8, <2>9, AppendIsConcat
<1>4. Ledger(r, dropped, lines)
  BY LinesInOrderLedger DEF IInv
<1> HIDE DEF r
<1>5. Ledger(Append(r, <<>>), dropped, lines)
  BY <1>1, <1>4, LedgerEmpty
<1>6. dropped' = dropped /\ lines' = lines
  BY DEF Swap
<1> QED BY <1>3, <1>5, <1>6 DEF LinesInOrder, Ledger

(* Writing moves a prefix of the buffers to the file and drops the rest.   *)
LEMMA WriteLines ==
  ASSUME IInv, Write
  PROVE  LinesInOrder'
<1> DEFINE w == toWrite
           v == Filled(Kept(w))
           r == buffers \o <<current>>
           h == Len(Kept(w))
           lost == {w[i] : i \in (h + 1)..Len(w)} \ {<<>>}
<1>1. /\ file \in Seq(Buffer) /\ w \in Seq(Buffer) /\ r \in Seq(Buffer)
      /\ lines \in Nat
  BY DEF IInv, TypeOK
<1>2. /\ Kept(w) \in Seq(Buffer) /\ h \in Nat /\ h <= Len(w)
      /\ \A i \in 1..h : Kept(w)[i] = w[i]
  BY <1>1, KeptPrefix
<1>3. /\ v \in Seq(Buffer) /\ Len(v) <= h
      /\ \A i \in 1..Len(v) : v[i] = Kept(w)[i]
      /\ \A i \in (Len(v) + 1)..h : Kept(w)[i] = <<>>
  BY <1>2, FilledPrefix
<1>4. /\ \A i \in 1..Len(v) : v[i] = w[i]
      /\ \A i \in (Len(v) + 1)..h : w[i] = <<>>
  <2> HIDE DEF v, h, w
  <2>1. Len(v) \in Nat
    BY <1>3
  <2> QED BY <1>2, <1>3, <2>1
<1>5. Ledger(file \o w \o r, dropped, lines)
  <2>1. Everything = file \o w \o r
    BY DEF IInv, TypeOK, Everything
  <2> QED BY <2>1, LinesInOrderLedger DEF IInv
<1>6. Ledger(file \o v \o r, dropped \cup lost, lines)
  <2> HIDE DEF v, h, w, r
  <2> QED BY <1>1, <1>2, <1>3, <1>4, <1>5, LedgerDrop
<1>7. /\ file' = file \o v /\ dropped' = dropped \cup lost
      /\ toWrite' = <<>> /\ buffers' = buffers /\ current' = current
      /\ lines' = lines
  BY DEF Write, front
<1>8. Everything' = file \o v \o r
  <2>1. Everything' = (file \o v) \o <<>> \o buffers \o <<current>>
    BY <1>7 DEF Everything
  <2>2. buffers \in Seq(Buffer) /\ <<current>> \in Seq(Buffer)
    BY DEF IInv, TypeOK
  <2> HIDE DEF v
  <2>3. file \o v \in Seq(Buffer)
    BY <1>1, <1>3
  <2> QED BY <1>1, <1>3, <2>1, <2>2, <2>3
<1> HIDE DEF v, r, lost
<1> QED BY <1>6, <1>7, <1>8 DEF LinesInOrder, Ledger

-----------------------------------------------------------------------------
(* Every step keeps the inductive invariant.                               *)
LEMMA StepIInv == IInv /\ [Next]_vars => IInv'
<1> SUFFICES ASSUME IInv, [Next]_vars PROVE IInv'
  OBVIOUS
<1>1. TypeOK'
  BY StepTypeOK DEF IInv
<1>2. AssertsHold'
  BY StepAssertsHold
<1>3. (SpareUsedMeansQueued /\ QueueEmptyInWait /\ SwapTakesSpare /\ StopClears)'
  <2> USE DEF IInv, SpareUsedMeansQueued, QueueEmptyInWait, SwapTakesSpare, StopClears
  <2>1. CASE Start
    BY <2>1 DEF Start, front, back
  <2>2. CASE AppendFits
    BY <2>2 DEF AppendFits, back
  <2>3. CASE AppendFull
    <3>1. buffers' # <<>>
      BY <2>3 DEF AppendFull, TypeOK
    <3> QED BY <2>3, <3>1 DEF AppendFull, Notify, MutexFree, back
  <2>4. CASE Stop
    BY <2>4 DEF Stop, Notify, front, back
  <2>5. CASE Joined
    BY <2>5 DEF Joined, front, back
  <2>6. CASE Loop
    BY <2>6 DEF Loop, front, back
  <2>7. CASE WaitCheck
    BY <2>7 DEF WaitCheck, front, back
  <2>8. CASE FallAsleep
    BY <2>8 DEF FallAsleep, front, back
  <2>9. CASE SpuriousWakeup
    BY <2>9 DEF SpuriousWakeup, front, back
  <2>10. CASE Expire
    BY <2>10 DEF Expire, front, back
  <2>11. CASE Swap
    BY <2>11 DEF Swap, PastWait
  <2>12. CASE Write
    BY <2>12 DEF Write, front
  <2>13. CASE Begin
    BY <2>13 DEF Begin, front, back
  <2>14. CASE UNCHANGED vars
    BY <2>14 DEF vars, front, back
  <2> QED BY <2>1, <2>2, <2>3, <2>4, <2>5, <2>6, <2>7, <2>8, <2>9, <2>10, <2>11,
             <2>12, <2>13, <2>14 DEF Next
<1>4. LinesInOrder'
  <2>1. ASSUME UNCHANGED <<lines, current, buffers, toWrite, file, dropped>>
        PROVE  LinesInOrder'
    BY <2>1 DEF IInv, LinesInOrder, Everything, InOrder
  <2>2. CASE Start \/ Stop \/ Joined \/ Begin \/ Loop \/ WaitCheck \/ FallAsleep
             \/ SpuriousWakeup \/ Expire \/ UNCHANGED vars
    BY <2>1, <2>2 DEF Start, Stop, Joined, Begin, Loop, WaitCheck, FallAsleep,
       SpuriousWakeup, Expire, vars, front, back
  <2>3. CASE AppendFits
    BY <2>3, AppendFitsLines
  <2>4. CASE AppendFull
    BY <2>4, AppendFullLines
  <2>5. CASE Swap
    BY <2>5, SwapLines
  <2>6. CASE Write
    BY <2>6, WriteLines
  <2> QED BY <2>2, <2>3, <2>4, <2>5, <2>6 DEF Next
<1> QED BY <1>1, <1>2, <1>3, <1>4 DEF IInv

(* The invariant of every behaviour of the log.                            *)
LEMMA SpecIInv == Spec => []IInv
BY InitIInv, StepIInv, PTL DEF Spec, Safety

(* The fields of AsyncLogging always have their types, and no buffer ever  *)
(* holds more lines than fit, whoever appends.                             *)
THEOREM TypeCorrect == Spec => []TypeOK
<1>1. IInv => TypeOK
  BY DEF IInv
<1> QED BY <1>1, SpecIInv, PTL

(* The assertions in the loop of threadFunc never fail, for any overflow   *)
(* bound of at least one buffer: the spare buffers are always there when   *)
(* the loop comes round, also after an overflow.  (The assertion before    *)
(* the loop fails only if stop() came before the thread's first statement.)*)
THEOREM AssertionsNeverFail == Spec => []AssertsHold
<1>1. IInv => AssertsHold
  BY DEF IInv
<1> QED BY <1>1, SpecIInv, PTL

(* A full buffer is never queued beside a sleeping writing thread.         *)
THEOREM QueuedNeverBesideSleeper == Spec => []QueuedMeansAwake
<1>1. IInv => QueuedMeansAwake
  BY DEF IInv, QueueEmptyInWait, QueuedMeansAwake
<1> QED BY <1>1, SpecIInv, PTL

(* append() and threadFunc lose, repeat and reorder no line, but for the   *)
(* buffers that the overflow branch drops, however many lines there are    *)
(* and however the threads interleave.                                     *)
THEOREM NoLineLost == Spec => []LinesInOrder
<1>1. IInv => LinesInOrder
  BY DEF IInv
<1> QED BY <1>1, SpecIInv, PTL
=============================================================================
