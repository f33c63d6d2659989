--------------------------- MODULE HiredisReplies ---------------------------
(***************************************************************************)
(* What a reply means: a reader that has all bytes of the reply before it, *)
(* and no buffer, position or connection to look after, takes one item     *)
(* after the other off the front.  The reader of Hiredis, which gets the   *)
(* bytes in pieces, is compared with it.                                   *)
(***************************************************************************)
EXTENDS Hiredis

\* The bytes behind the first k.
DropBytes(bytes, k) == SubSeq(bytes, k + 1, Len(bytes))

\* The line in front, and what is behind it.
Lines(bytes) == {[line |-> SubSeq(bytes, 1, s - 1), rest |-> DropBytes(bytes, s + 1)] : s \in seekNewline(bytes, 1)}

\* An item with the object it stands for, the elements that follow, and the bytes behind it.
Single(object, rest) == [object |-> object, elements |-> 0, rest |-> rest]

LineItems(type, l) ==
  IF type = "integer" THEN {Single(Integer(v), l.rest) : v \in string2ll(l.line)}
  ELSE {Single(String(type, l.line), l.rest)}

BulkItems(l) ==
  {Single(Nil, l.rest) : k \in {-1} \cap string2ll(l.line)}
    \cup {Single(String("string", SubSeq(l.rest, 1, k)), DropBytes(l.rest, k + 2)) :
            k \in {j \in string2ll(l.line) : j >= 0 /\ j + 2 <= Len(l.rest)}}

MultiBulkItems(l) ==
  {Single(Nil, l.rest) : k \in {-1} \cap string2ll(l.line)}
    \cup {[object |-> Array(k), elements |-> k, rest |-> l.rest] : k \in {j \in string2ll(l.line) : j >= 0 /\ j <= INT_MAX}}

Items(type, l) ==
  IF type = "string" THEN BulkItems(l) ELSE IF type = "array" THEN MultiBulkItems(l) ELSE LineItems(type, l)

\* What has been made of a reply: the open arrays, the objects, and the outermost one.
NothingMade == [rstack |-> <<NewTask(-1)>>, objs |-> <<>>, reply |-> 0]

\* The object of an item in its place, and the next place.
Put(made, item) ==
  LET a == Create(made, item.object)
  IN  IF item.elements = 0 THEN [a EXCEPT !.rstack = moveToNextTask(@)] ELSE Deeper(a, Len(made.rstack), item.elements)

\* A type byte is taken, or an item of the type taken before.
TypeSteps(u) ==
  IF u.rest # <<>> /\ u.rest[1] \in DOMAIN TypeOf
  THEN {[rest |-> DropBytes(u.rest, 1), made |-> [u.made EXCEPT !.rstack[Len(u.made.rstack)].type = TypeOf[u.rest[1]]]]}
  ELSE {}

ItemSteps(u) ==
  LET type == Last(u.made.rstack).type
  IN  IF type = "array" /\ Len(u.made.rstack) = MaxDepth + 1 THEN {}
      ELSE UNION {{[rest |-> i.rest, made |-> Put(u.made, i)] : i \in Items(type, l)} : l \in Lines(u.rest)}

Steps(u) ==
  IF u.made.rstack = <<>> THEN {} ELSE IF Last(u.made.rstack).type = "none" THEN TypeSteps(u) ELSE ItemSteps(u)

\* All states of reading the bytes of a call's reply are in S, and those that have finished have
\* read everything, and have made the tree that the call expects.
Covers(S, call) ==
  /\ [rest |-> call.bytes, made |-> NothingMade] \in S
  /\ \A u \in S : Steps(u) \subseteq S
  /\ \A u \in S : u.made.rstack = <<>> => u.rest = <<>> /\ Tree(u.made.objs, u.made.reply) = call.tree
\* All states of reading these bytes: every step takes at least one of them.
Whole(bytes) ==
  LET after[k \in 0 .. Len(bytes)] ==
        IF k = 0 THEN {[rest |-> bytes, made |-> NothingMade]} ELSE UNION {Steps(u) : u \in after[k - 1]}
  IN  UNION {after[k] : k \in 0 .. Len(bytes)}

\* A call asks for its argv, and the bytes of its reply, all of them there, are read as its tree.
ASSUME RepliesAssumption ==
  \A s \in CallSeqs : \A i \in 1 .. Len(s) : Asked(s[i]) \subseteq {s[i].argv} /\ Covers(Whole(s[i].bytes), s[i])
=============================================================================
