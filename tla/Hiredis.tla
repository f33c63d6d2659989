------------------------------ MODULE Hiredis ------------------------------
(***************************************************************************)
(* The Redis client library as CacheConn uses it (redis/hiredis.c, read.c, *)
(* net.c): a blocking context is connected, each command is appended to    *)
(* the output buffer, written, and its reply is put together from whatever *)
(* pieces read() returns.                                                  *)
(*                                                                         *)
(* Redis is external: it executes a command once all its bytes have come,  *)
(* and answers with the reply that "calls" holds for it; it may close or   *)
(* reset the connection between any two steps.  What a call asks for       *)
(* (argv) and what the bytes of its reply mean (tree) is known to the      *)
(* model, so that what Redis executes and the object the reader builds can *)
(* be compared with it.  Every failing system call takes one of MaxFaults  *)
(* faults.                                                                 *)
(***************************************************************************)
EXTENDS Integers, Sequences, FiniteSets, SequencesExt, RedisCommand

CONSTANTS
  CallSeqs,       \* sequences of calls: what is called (see Asked), argv, bytes, tree
  Addresses,      \* addresses the host name resolves to
  MaxDepth,       \* 8: the index of the last task of rstack
  DiscardAt,      \* 1024: consumed bytes after which the buffer is cut
  LLONG_MAX, ULLONG_MAX, INT_MAX,
  MaxFaults       \* bound: failing system calls and connections lost

ASSUME BoundsAssumption == /\ Addresses \in Nat /\ MaxDepth \in Nat \ {0}
                           /\ LLONG_MAX \in Nat /\ INT_MAX \in Nat /\ MaxFaults \in Nat
                           /\ ULLONG_MAX = 2 * LLONG_MAX + 1 /\ INT_MAX < LLONG_MAX

VARIABLES
  calls,    \* the commands in order, and the reply Redis gives to each
  n,        \* commands issued
  pc,       \* where the calling thread is
  c,        \* redisContext: allocated, fd, err, obuf, the address being tried
  r,        \* redisReader
  answer,   \* what redisCommand returned for command n
  wire,     \* the connection: bytes on their way up and down, and its state
  served,   \* the last command Redis executed on this connection: which, and with what arguments
  sockets,  \* open descriptors of this library
  faults

vars == <<calls, n, pc, c, r, answer, wire, served, sockets, faults>>

NULL == [type |-> "null"]

-----------------------------------------------------------------------------
(* read.c: the helpers.                                                    *)

\* Where the next CR LF begins at or after position "from"; {} when there is none.
seekNewline(s, from) ==
  LET at == {i \in from .. Len(s) - 1 : s[i] = "CR" /\ s[i + 1] = "LF"}
  IN  {i \in at : \A j \in at : i <= j}

\* The number a text stands for; {} when the text is not the canonical form of a long long.
string2ll(text) ==
  LET negative == text # <<>> /\ text[1] = "-"
      digits == IF negative THEN Tail(text) ELSE text
      AddDigit(v, d) ==
        IF v = -1 \/ d \notin DOMAIN Value \/ v > ULLONG_MAX \div 10 THEN -1
        ELSE IF v * 10 > ULLONG_MAX - Value[d] THEN -1 ELSE v * 10 + Value[d]
      upTo[i \in 0 .. Len(digits)] == IF i = 0 THEN 0 ELSE AddDigit(upTo[i - 1], digits[i])
      v == upTo[Len(digits)]
      limit == IF negative THEN LLONG_MAX + 1 ELSE LLONG_MAX
  IN  IF text = <<"0">> THEN {0}
      ELSE IF digits = <<>> \/ digits[1] \in {"0", "CR"} \/ v = -1 \/ v > limit THEN {}
      ELSE {IF negative THEN -v ELSE v}

NewTask(idx) == [type |-> "none", elements |-> -1, idx |-> idx, obj |-> 0]

NewReader == [buf |-> <<>>, pos |-> 0, err |-> "0", rstack |-> <<>>, objs |-> <<>>, reply |-> 0]

ridx == Len(r.rstack) - 1

\* Leave the arrays that are complete; go on to the next element of the one that is not.
moveToNextTask(stack) ==
  LET open == {i \in 2 .. Len(stack) : stack[i].idx # stack[i - 1].elements - 1}
      i == CHOOSE i \in open : \A j \in open : j <= i
  IN  IF open = {} THEN <<>>
      ELSE Append(SubSeq(stack, 1, i - 1), NewTask(stack[i].idx + 1))

\* createStringObject and its siblings: a new object, in its slot of the enclosing array.
Create(rd, object) ==
  LET id == Len(rd.objs) + 1
      depth == Len(rd.rstack)
      objs == Append(rd.objs, object)
  IN  IF depth = 1 THEN [rd EXCEPT !.objs = objs, !.reply = id]
      ELSE [rd EXCEPT !.objs = [objs EXCEPT ![rd.rstack[depth - 1].obj].element[rd.rstack[depth].idx + 1] = id]]

String(type, text) == [type |-> type, str |-> text]
Integer(v) == [type |-> "integer", integer |-> v]
Nil == [type |-> "nil"]
Array(elements) == [type |-> "array", element |-> [i \in 1 .. elements |-> 0]]

\* The reply as the caller sees it: ids of elements replaced by the elements.
Tree(objs, root) ==
  LET T[i \in 0 .. Len(objs)] ==
        IF i = 0 THEN NULL
        ELSE IF objs[i].type # "array" THEN objs[i]
        ELSE [type |-> "array", element |-> [j \in DOMAIN objs[i].element |-> T[objs[i].element[j]]]]
  IN  T[root]

-----------------------------------------------------------------------------
(* Errors.                                                                 *)

NoContext == [alive |-> FALSE, fd |-> 0, err |-> "0", obuf |-> <<>>, addr |-> 0, phase |-> "first"]

\* Mutant: a failed read or write is reported to the caller only.
redisSetErrorNotIo(e) == [c EXCEPT !.err = IF e = "IO" THEN @ ELSE e]

\* __redisSetError.
redisSetError(e) == [c EXCEPT !.err = e]

\* redisCommand returns NULL.
ReturnNull == pc' = "return" /\ answer' = NULL

Fault == faults < MaxFaults /\ faults' = faults + 1

\* Mutant: the context does not learn of the reader's error.
ReaderErrorUnseen(rd, e) ==
  /\ r' = [NewReader EXCEPT !.err = e]
  /\ ReturnNull
  /\ UNCHANGED c

\* __redisReaderSetError frees the partial reply and the buffer; the context takes the error over.
ReaderError(rd, e) ==
  /\ r' = [NewReader EXCEPT !.err = e]
  /\ c' = redisSetError(e)
  /\ ReturnNull

-----------------------------------------------------------------------------
(* Connecting: _redisContextConnectTcp, called by CacheConn::Init.         *)

Connecting == UNCHANGED <<calls, n, answer, r, served>>

\* A connection attempt ends with an error in the context.
ConnectError(ctx, e) == pc' = "failed" /\ c' = [ctx EXCEPT !.err = e]

redisContextCloseFd == sockets' = sockets \ {c.fd}
Closed == [c EXCEPT !.fd = -1]

\* redisConnectWithTimeout; getaddrinfo may fail for both families.
Resolve ==
  /\ pc = "resolve"
  /\ LET fresh == [NoContext EXCEPT !.alive = TRUE, !.addr = 1] IN
     \/ pc' = "socket" /\ c' = fresh /\ UNCHANGED faults
     \/ Fault /\ ConnectError(fresh, "OTHER")
  /\ r' = NewReader
  /\ UNCHANGED <<calls, n, answer, served, wire, sockets>>

\* Mutant: the socket of an unreachable address stays open.
NextAddressLeaks == pc' = "socket" /\ c' = [Closed EXCEPT !.addr = @ + 1] /\ UNCHANGED sockets

\* EHOSTUNREACH: close and try the next address.
NextAddress == pc' = "socket" /\ c' = [Closed EXCEPT !.addr = @ + 1] /\ redisContextCloseFd

Socket ==
  /\ pc = "socket"
  /\ \/ c.addr > Addresses /\ ConnectError(c, "OTHER") /\ UNCHANGED <<sockets, faults>>
     \/ /\ c.addr <= Addresses /\ Fault
        /\ UNCHANGED <<pc, sockets>> /\ c' = [c EXCEPT !.addr = @ + 1]
     \/ /\ c.addr <= Addresses
        /\ LET s == CHOOSE f \in 1 .. 1 + Cardinality(sockets) : f \notin sockets IN
           \/ sockets' = sockets \cup {s} /\ pc' = "connect" /\ c' = [c EXCEPT !.fd = s] /\ UNCHANGED faults
           \/ Fault /\ ConnectError(Closed, "IO") /\ UNCHANGED sockets      \* fcntl fails
  /\ Connecting /\ UNCHANGED wire

Connect ==
  /\ pc = "connect"
  /\ \/ pc' \in {"wait", "ready"} /\ UNCHANGED <<c, sockets, faults>>       \* EINPROGRESS, or connected
     \/ Fault /\ NextAddress
     \/ Fault /\ ConnectError(Closed, "IO") /\ redisContextCloseFd
  /\ Connecting /\ UNCHANGED wire

\* poll: an error or the timeout closes the socket, SO_ERROR leaves that to redisFree.
WaitReady ==
  /\ pc = "wait"
  /\ \/ pc' = "ready" /\ UNCHANGED <<c, sockets, faults>>
     \/ Fault /\ ConnectError(Closed, "IO") /\ redisContextCloseFd
     \/ Fault /\ ConnectError(c, "IO") /\ UNCHANGED sockets
  /\ Connecting /\ UNCHANGED wire

Open == [up |-> <<>>, down |-> <<>>, state |-> "open"]

\* The arguments of a call of redisCommand (format and values) or redisCommandArgv (a list);
\* {} when the format is not valid.
Asked(call) == IF "format" \in DOMAIN call THEN redisvFormatCommand(call.format, call.args) ELSE {call.list}

\* A call asks for a list of texts, and Redis answers with a text.
ASSUME CallsAssumption ==
  \A s \in CallSeqs :
    /\ Len(s) \in Nat
    /\ \A i \in 1 .. Len(s) : Asked(s[i]) \subseteq Seq(Text) /\ s[i].bytes \in Text

\* redisvAppendCommand, redisAppendCommandArgv: no command is written when that fails.
redisAppendCommand(k) ==
  \/ \E argv \in Asked(calls[k]) :
       c' = [c EXCEPT !.obuf = @ \o Protocol(argv), !.phase = "first"] /\ pc' = "reply" /\ UNCHANGED <<answer, faults>>
  \/ Asked(calls[k]) = {} /\ c' = redisSetError("OTHER") /\ ReturnNull /\ UNCHANGED faults
  \/ Fault /\ c' = redisSetError("OOM") /\ ReturnNull

\* Blocking again and without delay; then the command that asked for the connection goes on.
Ready ==
  /\ pc = "ready"
  /\ \/ /\ wire' = Open /\ served' = [nth |-> n - 1, argv |-> <<>>]
        /\ redisAppendCommand(n)
        /\ UNCHANGED sockets
     \/ /\ Fault /\ ConnectError(Closed, "IO") /\ redisContextCloseFd
        /\ UNCHANGED <<wire, served, answer>>
  /\ UNCHANGED <<calls, n, r>>

\* redisFree closes the socket and forgets the context; Redis sees the end of the connection.
Freed ==
  /\ c' = NoContext
  /\ r' = NewReader
  /\ sockets' = IF c.fd > 0 THEN sockets \ {c.fd} ELSE sockets
  /\ wire' = [Open EXCEPT !.state = "none"]

ConnectFailed ==
  /\ pc = "failed"
  /\ Freed /\ ReturnNull
  /\ UNCHANGED <<calls, n, served, faults>>

-----------------------------------------------------------------------------
(* A command: CacheConn's Init(), redisCommand, and what CacheConn does    *)
(* with the result.                                                        *)

StartCommand ==
  /\ pc = "app" /\ n < Len(calls)
  /\ n' = n + 1
  /\ \/ c.alive /\ redisAppendCommand(n + 1)
     \/ ~c.alive /\ pc' = "resolve" /\ UNCHANGED <<c, answer, faults>>
  /\ UNCHANGED <<calls, r, wire, served, sockets>>

\* Without a reply most commands free the context, one keeps it.
EndCommand ==
  /\ pc = "return"
  /\ pc' = "app"
  /\ \/ UNCHANGED <<c, r, wire, sockets>>
     \/ answer = NULL /\ c.alive /\ Freed
  /\ answer' = NULL
  /\ UNCHANGED <<calls, n, served, faults>>

Unwired == UNCHANGED <<calls, n, wire, served, sockets>>

NoReplyYet == pc' = (IF c.phase = "first" THEN "write" ELSE "read")

\* redisReaderGetReply, up to its loop.
GetReply ==
  /\ pc = "reply"
  /\ \/ r.err # "0" /\ c' = redisSetError(r.err) /\ ReturnNull /\ UNCHANGED r
     \/ r.err = "0" /\ r.buf = <<>> /\ NoReplyYet /\ UNCHANGED <<c, r, answer>>
     \/ /\ r.err = "0" /\ r.buf # <<>>
        /\ pc' = "item"
        /\ r' = [r EXCEPT !.rstack = IF @ = <<>> THEN <<NewTask(-1)>> ELSE @]
        /\ UNCHANGED <<c, answer>>
  /\ Unwired /\ UNCHANGED faults

-----------------------------------------------------------------------------
(* processItem: one turn of the loop.                                      *)

TypeOf == [t \in {"-", "+", ":", "$", "*"} |->
             IF t = "-" THEN "error" ELSE IF t = "+" THEN "status" ELSE IF t = ":" THEN "integer"
             ELSE IF t = "$" THEN "string" ELSE "array"]

Parsing == pc = "item" /\ r.rstack # <<>>
Untyped == Last(r.rstack).type = "none"
NoByte == Untyped /\ r.pos = Len(r.buf)

\* The reader once the type byte, if it is still to come, has been taken.
Typed == IF Untyped
         THEN [r EXCEPT !.pos = @ + 1, !.rstack[ridx + 1].type = TypeOf[r.buf[r.pos + 1]]]
         ELSE r

NeedMore(rd) == r' = rd /\ pc' = "emit" /\ UNCHANGED <<c, answer, faults>>

\* The item is complete: its object is made, or memory for it is not to be had.
ItemDone(rd, object) ==
  \/ /\ r' = [Create(rd, object) EXCEPT !.rstack = moveToNextTask(@)]
     /\ pc' = "item"
     /\ UNCHANGED <<c, answer, faults>>
  \/ Fault /\ ReaderError(rd, "OOM")

ProtocolError == ReaderError(r, "PROTOCOL") /\ UNCHANGED faults

ItemType ==
  /\ Parsing
  /\ \/ NoByte /\ NeedMore(r)
     \/ Untyped /\ ~NoByte /\ r.buf[r.pos + 1] \notin DOMAIN TypeOf /\ ProtocolError
  /\ Unwired

\* The current item is of one of these types, and its line ends at "s" ({} if it does not yet).
ItemOf(types) ==
  /\ Parsing /\ ~NoByte
  /\ Untyped => r.buf[r.pos + 1] \in DOMAIN TypeOf
  /\ Last(Typed.rstack).type \in types

Line(rd, s) == SubSeq(rd.buf, rd.pos + 1, s - 1)

LineItem ==
  /\ ItemOf({"error", "status", "integer"})
  /\ LET rd == Typed
         newline == seekNewline(rd.buf, rd.pos + 1)
         type == Last(rd.rstack).type
     IN
     \/ newline = {} /\ NeedMore(rd)
     \/ \E s \in newline :
          LET text == Line(rd, s)
              behind == [rd EXCEPT !.pos = s + 1]
          IN
          \/ type # "integer" /\ ItemDone(behind, String(type, text))
          \/ type = "integer" /\ \E v \in string2ll(text) : ItemDone(behind, Integer(v))
          \/ type = "integer" /\ string2ll(text) = {} /\ ProtocolError
  /\ Unwired

\* A bulk string is taken only when all of it is there.
BulkItem ==
  /\ ItemOf({"string"})
  /\ LET rd == Typed
         newline == seekNewline(rd.buf, rd.pos + 1)
     IN
     \/ newline = {} /\ NeedMore(rd)
     \/ \E s \in newline :
          LET len == string2ll(Line(rd, s)) IN
          \/ len = {} /\ ProtocolError
          \/ \E l \in len :
               \/ l < -1 /\ ProtocolError
               \/ l = -1 /\ ItemDone([rd EXCEPT !.pos = s + 1], Nil)
               \/ l >= 0 /\ s + 1 + l + 2 > Len(rd.buf) /\ NeedMore(rd)
               \/ /\ l >= 0 /\ s + 1 + l + 2 <= Len(rd.buf)
                  /\ ItemDone([rd EXCEPT !.pos = s + 1 + l + 2],
                              String("string", SubSeq(rd.buf, s + 2, s + 1 + l)))
  /\ Unwired

\* Mutant: the depth is tested after the stack has been used up.
TooDeepLate == ridx > MaxDepth

TooDeep == ridx = MaxDepth

\* The newest object is the array of the task at this depth; a task for its first element goes on top.
Deeper(a, depth, k) ==
  LET array == [a.rstack[depth] EXCEPT !.elements = k, !.obj = Len(a.objs)]
  IN  [a EXCEPT !.rstack = Append([a.rstack EXCEPT ![depth] = array], NewTask(0))]

MultiBulkItem ==
  /\ ItemOf({"array"})
  /\ LET rd == Typed
         newline == seekNewline(rd.buf, rd.pos + 1)
     IN
     \/ TooDeep /\ ProtocolError
     \/ ~TooDeep /\ newline = {} /\ NeedMore(rd)
     \/ /\ ~TooDeep
        /\ \E s \in newline :
             LET count == string2ll(Line(rd, s))
                 behind == [rd EXCEPT !.pos = s + 1]
             IN
             \/ count = {} /\ ProtocolError
             \/ \E k \in count :
                  \/ (k < -1 \/ k > INT_MAX) /\ ProtocolError
                  \/ k = -1 /\ ItemDone(behind, Nil)
                  \/ k = 0 /\ ItemDone(behind, Array(0))
                  \/ /\ k \in 1 .. INT_MAX
                     /\ r' = Deeper(Create(behind, Array(k)), ridx + 1, k)
                     /\ UNCHANGED <<pc, c, answer, faults>>
                  \/ k \in 1 .. INT_MAX /\ Fault /\ ReaderError(behind, "OOM")
  /\ Unwired

\* The end of redisReaderGetReply: consumed bytes are cut off, a finished reply is handed out.
Emit ==
  /\ pc = "emit" \/ (pc = "item" /\ r.rstack = <<>>)
  /\ LET cut == IF r.pos >= DiscardAt
                THEN [r EXCEPT !.buf = SubSeq(@, r.pos + 1, Len(@)), !.pos = 0] ELSE r
     IN
     \/ /\ r.rstack = <<>>
        /\ answer' = Tree(r.objs, r.reply) /\ pc' = "return"
        /\ r' = [cut EXCEPT !.reply = 0, !.objs = <<>>]
     \/ /\ r.rstack # <<>>
        /\ r' = cut /\ NoReplyYet /\ UNCHANGED answer
  /\ Unwired /\ UNCHANGED <<c, faults>>

-----------------------------------------------------------------------------
(* redisBufferWrite and redisBufferRead.                                   *)

IoError == c' = redisSetError("IO") /\ ReturnNull

BufferWrite ==
  /\ pc = "write"
  /\ \/ c.err # "0" /\ ReturnNull /\ UNCHANGED <<c, wire, faults>>
     \/ /\ c.err = "0"
        /\ \E k \in 1 .. Len(c.obuf) :                                     \* write takes k bytes
             LET left == SubSeq(c.obuf, k + 1, Len(c.obuf)) IN
             /\ c' = [c EXCEPT !.obuf = left, !.phase = IF left = <<>> THEN "next" ELSE @]
             /\ wire' = IF wire.state = "open" THEN [wire EXCEPT !.up = @ \o SubSeq(c.obuf, 1, k)] ELSE wire
             /\ pc' = IF left = <<>> THEN "read" ELSE "write"
        /\ UNCHANGED <<answer, faults>>
     \/ /\ c.err = "0" /\ IoError
        /\ IF wire.state = "open" THEN Fault ELSE UNCHANGED faults
        /\ UNCHANGED wire
     \/ c.err = "0" /\ Fault /\ UNCHANGED <<pc, c, answer, wire>>           \* EINTR
  /\ UNCHANGED <<calls, n, r, served, sockets>>

\* Mutant: the end of the stream is taken for "nothing to read yet".
BufferReadNoEof ==
  /\ pc = "read" /\ c.err = "0"
  /\ \/ \E k \in 1 .. Len(wire.down) :
          /\ r' = [r EXCEPT !.buf = @ \o SubSeq(wire.down, 1, k)]
          /\ wire' = [wire EXCEPT !.down = SubSeq(@, k + 1, Len(@))]
     \/ wire.down = <<>> /\ wire.state = "closed" /\ UNCHANGED <<r, wire>>
  /\ pc' = "reply"
  /\ UNCHANGED <<calls, n, c, answer, served, sockets, faults>>

\* read returns some of the bytes that have come, the end of the stream, or an error.
BufferRead ==
  /\ pc = "read"
  /\ \/ c.err # "0" /\ ReturnNull /\ UNCHANGED <<c, r, wire, faults>>
     \/ /\ c.err = "0"
        /\ \E k \in 1 .. Len(wire.down) :
             /\ r' = [r EXCEPT !.buf = @ \o SubSeq(wire.down, 1, k)]
             /\ wire' = [wire EXCEPT !.down = SubSeq(@, k + 1, Len(@))]
        /\ pc' = "reply"
        /\ UNCHANGED <<c, answer, faults>>
     \/ /\ c.err = "0" /\ wire.down = <<>> /\ wire.state = "closed"
        /\ c' = redisSetError("EOF") /\ ReturnNull /\ UNCHANGED <<r, wire, faults>>
     \/ /\ c.err = "0" /\ IoError
        /\ IF wire.state = "reset" THEN UNCHANGED faults ELSE Fault
        /\ UNCHANGED <<r, wire>>
     \/ c.err = "0" /\ Fault /\ pc' = "reply" /\ UNCHANGED <<c, r, answer, wire>>  \* EINTR
  /\ UNCHANGED <<calls, n, served, sockets>>

-----------------------------------------------------------------------------
(* Redis.                                                                  *)

Execute ==
  /\ wire.state = "open" /\ served.nth < Len(calls)
  /\ \E command \in FirstCommand(wire.up) :
       /\ served' = [nth |-> served.nth + 1, argv |-> command.argv]
       /\ wire' = [wire EXCEPT !.up = command.rest, !.down = @ \o calls[served.nth + 1].bytes]
  /\ UNCHANGED <<calls, n, pc, c, r, answer, sockets, faults>>

\* The connection ends; a reset takes the bytes on their way down with it.
Lost ==
  /\ wire.state = "open" /\ Fault
  /\ \/ wire' = [wire EXCEPT !.state = "closed", !.up = <<>>]
     \/ wire' = [Open EXCEPT !.state = "reset"]
  /\ UNCHANGED <<calls, n, pc, c, r, answer, served, sockets>>

-----------------------------------------------------------------------------
Init ==
  /\ calls \in CallSeqs
  /\ n = 0 /\ pc = "app" /\ c = NoContext /\ r = NewReader /\ answer = NULL
  /\ wire = [Open EXCEPT !.state = "none"] /\ served = [nth |-> 0, argv |-> <<>>] /\ sockets = {} /\ faults = 0

Command ==
  \/ StartCommand \/ EndCommand
  \/ Resolve \/ Socket \/ Connect \/ WaitReady \/ Ready \/ ConnectFailed
  \/ GetReply \/ ItemType \/ LineItem \/ BulkItem \/ MultiBulkItem \/ Emit
  \/ BufferWrite \/ BufferRead

Next == Command \/ Execute \/ Lost

Spec == Init /\ [][Next]_vars /\ WF_vars(Command) /\ WF_vars(Execute)

-----------------------------------------------------------------------------
(* Properties.                                                             *)

\* A reply that redisCommand returns is the reply to the command it was called for, which Redis
\* executed with the arguments the caller gave (empty ones, and ones with blanks, per cent signs
\* or line ends in them, included); it is right element by element, however the bytes were cut
\* and whichever earlier commands failed half-way; a reply that breaks the protocol is never
\* returned.
ReplyMatchesCommand ==
  pc = "return" /\ answer # NULL =>
    served = [nth |-> n, argv |-> calls[n].argv] /\ answer = calls[n].tree

\* What the comment above __redisBlockForReply promises: when NULL is returned, the error field
\* of the context is set; and CacheConn may rely on the converse, a context with an error
\* answers nothing.  (The context is gone when the connection could not be made.)
NullMeansError == pc = "return" /\ c.alive => (answer = NULL <=> c.err # "0")

\* The assertions of read.c and hiredis.c, and what their arrays need: a command fills exactly
\* the memory that was taken for it, the task stack never outgrows rstack, each task fills an
\* empty slot of the array below it and leaves none behind.
ReaderAssertions ==
  /\ pc = "write" => \A argv \in Asked(calls[n]) : Len(Protocol(argv)) = totlen(argv)
  /\ ridx <= MaxDepth /\ r.pos <= Len(r.buf)
  /\ \A i \in 2 .. Len(r.rstack) :
       LET below == r.rstack[i - 1]
           slots == r.objs[below.obj].element
       IN  /\ below.type = "array" /\ r.objs[below.obj].type = "array"
           /\ r.rstack[i].idx < below.elements /\ Len(slots) = below.elements
           /\ \A j \in DOMAIN slots : slots[j] # 0 <=> (j <= r.rstack[i].idx \/ (j = r.rstack[i].idx + 1 /\ i < Len(r.rstack)))

\* The library keeps no socket but the one of its context, whatever step of connecting failed.
NoSocketLost == sockets = IF c.alive /\ c.fd > 0 THEN {c.fd} ELSE {}

\* With a Redis that answers or hangs up, every command returns.
CommandsReturn == pc # "app" ~> pc = "app"
=============================================================================
