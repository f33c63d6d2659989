-------------------------- MODULE HttpServerProofs --------------------------
(***************************************************************************)
(* Theorems about HttpServer, for any numbers of connections, descriptors, *)
(* addresses and workers, and any lengths of requests and responses.       *)
(***************************************************************************)
EXTENDS HttpServer, TLAPS

(* Why a connection is closed, as CloseHasReason says of all of them.      *)
Reason(c, k) ==
  \/ k.out = 0 /\ k.delivered >= RespLen
  \/ k.fin \/ k.rst
  \/ Overlong(k) \/ c \in UnknownConns

(* One connection: what is buffered, and what the flag m_busy means.       *)
RecordOK(c, k) ==
  /\ k.inbuf <= k.sent
  /\ k.drained <= k.delivered /\ k.delivered - k.drained <= k.win
  /\ k.st \in {"none", "backlog"} => ~k.busy /\ k.delivered = k.drained
  /\ ~k.busy => k.out = 0
  /\ k.busy => k.delivered + k.out >= RespLen
  /\ k.st = "closed" => Reason(c, k)
  /\ k.st = "open" => k.fd \in Fds
  /\ k.st \in {"open", "closed"} => k.addr \in Addrs

RecordsOK == \A c \in Conns : RecordOK(c, conn[c])

FdsDistinct == \A c, d \in OpenConns : conn[c].fd = conn[d].fd => c = d

(* An event that waits in the batch still tells the truth.                 *)
Truth(e, k) ==
  /\ k.st = "open" /\ k.fd = e.fd
  /\ e.in => Avail(k) > 0 \/ k.fin \/ k.rst
  /\ e.hup => k.rst

BatchTrue ==
  \A e \in batch : e.who # NoConn => e.who \in Conns /\ Truth(e, conn[e.who])

BatchOnce ==
  \A e, f \in batch : e.who # NoConn /\ e.who = f.who => e = f

BatchInPhase == batch # {} => phase = "events"

(* The edge that reports each kind of readiness has not been consumed.     *)
EdgeKept(c) ==
  /\ Avail(conn[c]) > 0 => c \in ready \/ \E e \in batch : e.who = c /\ e.in
  /\ conn[c].rst => c \in ready \/ \E e \in batch : e.who = c /\ e.hup
  /\ conn[c].busy /\ Space(conn[c]) > 0 /\ ~conn[c].rst =>
       c \in ready \/ \E e \in batch : e.who = c /\ e.out

EdgesKept == \A c \in OpenConns : EdgeKept(c)

Constructed(c) == conn[c].st \in {"open", "closed"}

LoginsConstructed ==
  /\ \A i \in 1..Len(jobs) : Constructed(jobs[i])
  /\ \A w \in Workers : work[w] # NoConn => Constructed(work[w])

AliveMeansOwn ==
  \A i \in 1..Len(respList) : respList[i].alive => respList[i].uuid = respList[i].owner

IInv ==
  /\ TypeOK /\ RecordsOK /\ FdsDistinct
  /\ BatchTrue /\ BatchOnce /\ BatchInPhase
  /\ EdgesKept /\ LoginsConstructed /\ AliveMeansOwn

-----------------------------------------------------------------------------
(* What a call on an open connection does to its record.                   *)
Keeps(c, k, r) ==
  /\ r \in ConnType /\ RecordOK(c, r)
  /\ r.st \in {"open", "closed"}
  /\ r.fd = k.fd /\ r.addr = k.addr /\ r.sent = k.sent
  /\ r.fin = k.fin /\ r.rst = k.rst

(* A write edge that is still needed was needed before.                    *)
NoNewWrite(k, r) ==
  r.st = "open" /\ r.busy /\ Space(r) > 0 /\ ~r.rst => k.busy /\ Space(k) > 0

(* The buffered units, as numbers.                                         *)
LEMMA Numbers ==
  ASSUME HttpServerAssumption, NEW k \in ConnType
  PROVE  /\ k.win \in Nat /\ k.delivered \in Nat /\ k.drained \in Nat
         /\ k.out \in Nat /\ k.sent \in Nat /\ k.inbuf \in Nat
         /\ RespLen \in Nat /\ RespLen > 0
         /\ k.rst \in BOOLEAN /\ k.busy \in BOOLEAN /\ k.fin \in BOOLEAN
<1>1. /\ k.win \in Windows \cup {0} /\ k.sent \in 0..MaxSent /\ k.inbuf \in 0..MaxSent
      /\ k.out \in Nat /\ k.delivered \in Nat /\ k.drained \in Nat
      /\ k.rst \in BOOLEAN /\ k.busy \in BOOLEAN /\ k.fin \in BOOLEAN
  BY DEF ConnType
<1>2. Windows \subseteq Nat /\ MaxSent \in Nat /\ RespLen \in Nat /\ RespLen # 0
  BY DEF HttpServerAssumption
<1>3. k.win \in Nat
  <2>1. CASE k.win = 0
    BY <2>1
  <2>2. CASE k.win \in Windows
    BY <1>2, <2>2
  <2> QED BY <1>1, <2>1, <2>2
<1>4. k.sent \in Nat /\ k.inbuf \in Nat
  BY <1>1, <1>2
<1> QED BY <1>1, <1>2, <1>3, <1>4

(* The kernel accepts what fits into its buffer.                           *)
LEMMA AcceptedFits ==
  ASSUME HttpServerAssumption, NEW c \in Conns, NEW k \in ConnType,
         RecordOK(c, k), NEW len \in Nat
  PROVE  /\ Accepted(k, len) \in Nat
         /\ Accepted(k, len) <= len /\ Accepted(k, len) <= Space(k)
         /\ Accepted(k, len) < len /\ ~k.rst => Accepted(k, len) = Space(k)
<1>1. Space(k) \in Nat
  BY Numbers DEF Space, RecordOK
<1> QED BY <1>1 DEF Accepted, Least

LEMMA SentKeeps ==
  ASSUME HttpServerAssumption, NEW c \in Conns, NEW k \in ConnType,
         RecordOK(c, k), k.st = "open"
  PROVE  Keeps(c, k, Sent(k)) /\ NoNewWrite(k, Sent(k)) /\ Sent(k).inbuf = k.inbuf
<1> DEFINE n == Accepted(k, RespLen)
<1>1. n \in Nat /\ n <= RespLen /\ n <= Space(k) /\ (n < RespLen /\ ~k.rst => n = Space(k))
  BY Numbers, AcceptedFits
<1>2. CASE k.busy
  BY <1>2 DEF Sent, Keeps, NoNewWrite, RecordOK, ConnType, Space, HttpServerAssumption
<1>3. CASE ~k.busy /\ n < RespLen
  <2>1. Sent(k) = [k EXCEPT !.out = RespLen - n, !.busy = TRUE, !.delivered = @ + n]
    BY <1>3 DEF Sent
  <2> HIDE DEF n
  <2>2. RespLen - n \in Nat /\ k.delivered + n \in Nat /\ RespLen - n + (k.delivered + n) >= RespLen
    BY <1>1, <1>3, Numbers
  <2>3. Sent(k) \in ConnType
    BY <2>1, <2>2 DEF ConnType
  <2>4. /\ Sent(k).out = RespLen - n /\ Sent(k).busy = TRUE
        /\ Sent(k).delivered = k.delivered + n /\ Sent(k).drained = k.drained
        /\ Sent(k).win = k.win /\ Sent(k).st = k.st /\ Sent(k).fd = k.fd
        /\ Sent(k).addr = k.addr /\ Sent(k).sent = k.sent /\ Sent(k).inbuf = k.inbuf
        /\ Sent(k).fin = k.fin /\ Sent(k).rst = k.rst
    BY <2>1 DEF ConnType
  <2>5. RecordOK(c, Sent(k))
    BY <1>1, <2>4, Numbers DEF RecordOK, Space
  <2> QED BY <1>1, <1>3, <2>3, <2>4, <2>5, Numbers DEF Keeps, NoNewWrite, Space
<1>4. CASE ~k.busy /\ ~(n < RespLen)
  <2>1. Sent(k) = Closed([k EXCEPT !.delivered = @ + n])
    BY <1>4 DEF Sent
  <2> HIDE DEF n
  <2>2. n = RespLen /\ k.delivered + n \in Nat /\ k.delivered + n >= RespLen
    BY <1>1, <1>4, Numbers
  <2>3. Sent(k) \in ConnType
    BY <2>1, <2>2 DEF ConnType, Closed
  <2>4. /\ Sent(k).out = k.out /\ Sent(k).busy = k.busy
        /\ Sent(k).delivered = k.delivered + n /\ Sent(k).drained = k.drained
        /\ Sent(k).win = k.win /\ Sent(k).st = "closed" /\ Sent(k).fd = k.fd
        /\ Sent(k).addr = k.addr /\ Sent(k).sent = k.sent /\ Sent(k).inbuf = k.inbuf
        /\ Sent(k).fin = k.fin /\ Sent(k).rst = k.rst
    BY <2>1 DEF ConnType, Closed
  <2>5. RecordOK(c, Sent(k))
    BY <1>1, <1>4, <2>2, <2>4, Numbers DEF RecordOK, Reason, Space
  <2> QED BY <2>3, <2>4, <2>5 DEF Keeps, NoNewWrite
<1> QED BY <1>2, <1>3, <1>4

LEMMA WriteKeeps ==
  ASSUME HttpServerAssumption, NEW c \in Conns, NEW k \in ConnType,
         RecordOK(c, k), k.st = "open"
  PROVE  /\ Keeps(c, k, AfterWrite(k)) /\ AfterWrite(k).inbuf = k.inbuf
         /\ LET r == AfterWrite(k)
            IN  r.st = "open" /\ r.busy /\ ~r.rst => ~(Space(r) > 0)
<1> DEFINE n == Accepted(k, k.out)
<1>1. n \in Nat /\ n <= k.out /\ n <= Space(k) /\ (n < k.out /\ ~k.rst => n = Space(k))
  BY Numbers, AcceptedFits
<1>2. CASE ~k.busy
  BY <1>2 DEF AfterWrite, Keeps, RecordOK, ConnType, Space, HttpServerAssumption
<1>3. CASE k.busy /\ n < k.out
  <2>1. AfterWrite(k) = [k EXCEPT !.out = @ - n, !.delivered = @ + n]
    BY <1>3 DEF AfterWrite
  <2> HIDE DEF n
  <2>2. k.out - n \in Nat /\ k.delivered + n \in Nat
    BY <1>1, <1>3, Numbers
  <2>3. AfterWrite(k) \in ConnType
    BY <2>1, <2>2 DEF ConnType
  <2> DEFINE r == AfterWrite(k)
  <2>4. /\ r.out = k.out - n /\ r.busy = k.busy
        /\ r.delivered = k.delivered + n /\ r.drained = k.drained
        /\ r.win = k.win /\ r.st = k.st /\ r.fd = k.fd
        /\ r.addr = k.addr /\ r.sent = k.sent /\ r.inbuf = k.inbuf
        /\ r.fin = k.fin /\ r.rst = k.rst
    BY <2>1 DEF ConnType
  <2> HIDE DEF r
  <2>5. RecordOK(c, r)
    BY <1>1, <1>3, <2>4, Numbers DEF RecordOK, Space
  <2>6. ~r.rst => ~(Space(r) > 0)
    BY <1>1, <1>3, <2>4, Numbers DEF Space
  <2> QED BY <2>3, <2>4, <2>5, <2>6 DEF Keeps, r
<1>4. CASE k.busy /\ ~(n < k.out)
  <2>1. AfterWrite(k) = Closed([k EXCEPT !.out = @ - n, !.delivered = @ + n])
    BY <1>4 DEF AfterWrite
  <2> HIDE DEF n
  <2>2. n = k.out /\ k.out - n = 0 /\ k.out - n \in Nat /\ k.delivered + n \in Nat
    BY <1>1, <1>4, Numbers
  <2>3. AfterWrite(k) \in ConnType
    BY <2>1, <2>2 DEF ConnType, Closed
  <2> DEFINE r == AfterWrite(k)
  <2>4. /\ r.out = 0 /\ r.busy = k.busy
        /\ r.delivered = k.delivered + n /\ r.drained = k.drained
        /\ r.win = k.win /\ r.st = "closed" /\ r.fd = k.fd
        /\ r.addr = k.addr /\ r.sent = k.sent /\ r.inbuf = k.inbuf
        /\ r.fin = k.fin /\ r.rst = k.rst
    BY <2>1, <2>2 DEF ConnType, Closed
  <2> HIDE DEF r
  <2>5. RecordOK(c, r)
    BY <1>1, <1>4, <2>2, <2>4, Numbers DEF RecordOK, Reason, Space
  <2> QED BY <2>3, <2>4, <2>5 DEF Keeps, r
<1> QED BY <1>2, <1>3, <1>4

(* A connection that may be closed.                                        *)
LEMMA ClosedKeeps ==
  ASSUME NEW c \in Conns, NEW k \in ConnType, RecordOK(c, k),
         k.st \in {"open", "closed"}, k.addr \in Addrs, Reason(c, k)
  PROVE  Keeps(c, k, Closed(k)) /\ Closed(k).st = "closed"
BY DEF Closed, Keeps, RecordOK, Reason, Overlong, ConnType

(* After CBaseSocket::OnRead nothing is unread, if the event is true.      *)
LEMMA ReadKeeps ==
  ASSUME HttpServerAssumption, NEW c \in Conns, NEW k \in ConnType,
         RecordOK(c, k), k.st = "open", Avail(k) > 0 \/ k.fin \/ k.rst
  PROVE  LET r == AfterRead(c, k)
         IN  Keeps(c, k, r) /\ NoNewWrite(k, r) /\ Avail(r) = 0
<1>1. CASE Avail(k) = 0
  BY <1>1, ClosedKeeps DEF AfterRead, Reason, RecordOK, Avail, NoNewWrite, Closed, ConnType
<1>2. CASE Avail(k) # 0
  <2> DEFINE i == [k EXCEPT !.inbuf = k.sent]
  <2>1. /\ i \in ConnType /\ RecordOK(c, i) /\ i.st = "open" /\ Avail(i) = 0
        /\ Keeps(c, k, i) /\ NoNewWrite(k, i)
        /\ i.busy = k.busy /\ Space(i) = Space(k) /\ i.addr \in Addrs
    BY DEF RecordOK, ConnType, Avail, Space, Keeps, NoNewWrite
  <2>2. AfterRead(c, k) = Dispatched(c, i)
    BY <1>2 DEF AfterRead
  <2> HIDE DEF i
  <2>3. CASE Overlong(i) \/ (Complete(i) /\ c \in UnknownConns)
    <3>1. AfterRead(c, k) = Closed(i)
      BY <2>2, <2>3 DEF Dispatched
    <3>2. Keeps(c, i, Closed(i)) /\ Closed(i).st = "closed"
      BY <2>1, <2>3, ClosedKeeps DEF Reason
    <3>3. Avail(Closed(i)) = 0
      BY <2>1 DEF Avail, Closed, ConnType
    <3> QED BY <2>1, <3>1, <3>2, <3>3 DEF Keeps, NoNewWrite
  <2>4. CASE ~(Overlong(i) \/ (Complete(i) /\ c \in UnknownConns))
             /\ Complete(i) /\ c \notin LoginConns
    <3>1. AfterRead(c, k) = Sent(i)
      BY <2>2, <2>4 DEF Dispatched
    <3>2. Keeps(c, i, Sent(i)) /\ NoNewWrite(i, Sent(i)) /\ Sent(i).inbuf = i.inbuf
      BY <2>1, SentKeeps
    <3> QED BY <2>1, <3>1, <3>2 DEF Keeps, NoNewWrite, Avail
  <2>5. CASE ~(Overlong(i) \/ (Complete(i) /\ c \in UnknownConns))
             /\ ~(Complete(i) /\ c \notin LoginConns)
    BY <2>1, <2>2, <2>5 DEF Dispatched
  <2> QED BY <2>3, <2>4, <2>5
<1> QED BY <1>1, <1>2

(* One event of a batch, handled as StartDispatch does.                    *)
LEMMA HandleKeeps ==
  ASSUME HttpServerAssumption, NEW c \in Conns, NEW e, conn[c] \in ConnType,
         RecordOK(c, conn[c]), Truth(e, conn[c])
  PROVE  LET k == Handle(c, e)
         IN  /\ Keeps(c, conn[c], k)
             /\ k.st = "open" => ~e.hup
             /\ k.st = "open" /\ Avail(k) > 0 => ~e.in /\ Avail(conn[c]) > 0
             /\ NoNewWrite(conn[c], k)
             /\ k.st = "open" /\ k.busy /\ Space(k) > 0 /\ ~k.rst => ~e.out
<1> DEFINE k == conn[c]
           r == IF e.in THEN AfterRead(c, k) ELSE k
           w == IF e.out /\ r.st = "open" THEN AfterWrite(r) ELSE r
<1>1. k.st = "open" /\ k \in ConnType /\ RecordOK(c, k) /\ k.addr \in Addrs
  BY DEF Truth, RecordOK
<1>2. /\ Keeps(c, k, r) /\ NoNewWrite(k, r)
      /\ e.in => Avail(r) = 0
      /\ ~e.in => r = k
  <2>1. CASE e.in
    BY <1>1, <2>1, ReadKeeps DEF Truth
  <2>2. CASE ~e.in
    BY <1>1, <2>2 DEF Keeps, NoNewWrite
  <2> QED BY <2>1, <2>2
<1> HIDE DEF r
<1>3. /\ Keeps(c, k, w) /\ NoNewWrite(k, w)
      /\ Avail(w) = Avail(r)
      /\ w.st = "open" /\ w.busy /\ Space(w) > 0 /\ ~w.rst => ~e.out
  <2>1. CASE e.out /\ r.st = "open"
    <3>1. r \in ConnType /\ RecordOK(c, r)
      BY <1>2 DEF Keeps
    <3>2. /\ Keeps(c, r, AfterWrite(r)) /\ AfterWrite(r).inbuf = r.inbuf
          /\ AfterWrite(r).st = "open" /\ AfterWrite(r).busy /\ ~AfterWrite(r).rst
               => ~(Space(AfterWrite(r)) > 0)
      BY <2>1, <3>1, WriteKeeps
    <3>3. w = AfterWrite(r)
      BY <2>1
    <3> QED BY <1>2, <3>2, <3>3 DEF Keeps, NoNewWrite, Avail
  <2>2. CASE ~(e.out /\ r.st = "open")
    BY <1>2, <2>2
  <2> QED BY <2>1, <2>2
<1> HIDE DEF w
<1>4. Handle(c, e) = IF e.hup THEN Closed(w) ELSE w
  BY DEF Handle, r, w
<1>5. CASE e.hup
  <2>1. Keeps(c, w, Closed(w)) /\ Closed(w).st = "closed"
    BY <1>1, <1>3, <1>5, ClosedKeeps DEF Keeps, Reason, Truth
  <2> QED BY <1>3, <1>4, <1>5, <2>1 DEF Keeps, NoNewWrite
<1>6. CASE ~e.hup
  BY <1>2, <1>3, <1>4, <1>6 DEF Keeps
<1> QED BY <1>5, <1>6
-----------------------------------------------------------------------------
(* The initial states.                                                     *)
LEMMA InitIInv == ASSUME HttpServerAssumption, Init PROVE IInv
<1>1. Fresh \in ConnType
  BY DEF Fresh, ConnType, HttpServerAssumption
<1>2. \A c \in Conns : conn[c] = Fresh /\ RecordOK(c, conn[c]) /\ ~IsOpen(c)
  BY <1>1 DEF Init, Fresh, RecordOK, IsOpen
<1>3. OpenConns = {}
  BY <1>2 DEF OpenConns
<1>4. TypeOK
  <2>1. /\ conn \in [Conns -> ConnType] /\ mem \in [Addrs -> Conns \cup {NoConn}]
        /\ work \in [Workers -> LoginConns \cup {NoConn}]
    BY <1>1 DEF Init
  <2>2. /\ jobs \in Seq(LoginConns)
        /\ respList \in Seq([uuid : Conns \cup {NoConn}, owner : LoginConns, alive : BOOLEAN])
    BY DEF Init
  <2>3. /\ phase \in {"wait", "events", "loop"} /\ batch = {} /\ ready = {}
        /\ listenEdge \in BOOLEAN
    BY DEF Init
  <2> QED BY <2>1, <2>2, <2>3 DEF TypeOK
<1> QED
  BY <1>2, <1>3, <1>4 DEF Init, IInv, RecordsOK, FdsDistinct, BatchTrue, BatchOnce,
     BatchInPhase, EdgesKept, LoginsConstructed, AliveMeansOwn

(* What the clients do, and what it does not disturb.                      *)
LEMMA ClientKeeps ==
  ASSUME HttpServerAssumption, IInv, NEW c \in Conns, NEW k \in ConnType,
         conn' = [conn EXCEPT ![c] = k], RecordOK(c, k),
         k.st = "open" <=> IsOpen(c), Constructed(c) => k.st \in {"open", "closed"},
         IsOpen(c) => k.fd = conn[c].fd,
         Avail(conn[c]) > 0 => Avail(k) > 0,
         conn[c].fin => k.fin, conn[c].rst => k.rst,
         ready' = ready \/ (IsOpen(c) /\ ready' = ready \cup {c}),
         IsOpen(c) /\ c \notin ready' =>
           Avail(k) = Avail(conn[c]) /\ k.rst = conn[c].rst /\ ~k.busy,
         listenEdge' \in BOOLEAN, UNCHANGED <<loopVars, serverVars>>
  PROVE  IInv'
<1> USE DEF IInv
<1>1. \A d \in Conns : conn'[d] = IF d = c THEN k ELSE conn[d]
  BY DEF TypeOK
<1>2. OpenConns' = OpenConns
  BY <1>1 DEF OpenConns, IsOpen
<1>3. TypeOK'
  <2>1. conn' \in [Conns -> ConnType]
    BY DEF TypeOK
  <2>2. ready' \subseteq OpenConns'
    BY <1>2 DEF TypeOK, OpenConns
  <2> QED BY <2>1, <2>2 DEF TypeOK, loopVars, serverVars
<1>4. RecordsOK'
  BY <1>1 DEF RecordsOK, RecordOK, Reason, Overlong
<1>5. FdsDistinct'
  BY <1>1, <1>2 DEF FdsDistinct, OpenConns
<1>6. BatchTrue'
  BY <1>1 DEF BatchTrue, Truth, loopVars, IsOpen
<1>7. BatchOnce' /\ BatchInPhase'
  BY DEF BatchOnce, BatchInPhase, loopVars
<1>8. EdgesKept'
  <2> SUFFICES ASSUME NEW d \in OpenConns PROVE EdgeKept(d)'
    BY <1>2 DEF EdgesKept
  <2>1. d \in Conns /\ IsOpen(d) /\ batch' = batch /\ EdgeKept(d)
    BY DEF OpenConns, EdgesKept, loopVars
  <2>2. CASE d \in ready'
    BY <2>2 DEF EdgeKept
  <2>3. CASE d \notin ready' /\ d = c
    BY <1>1, <2>1, <2>3 DEF EdgeKept
  <2>4. CASE d \notin ready' /\ d # c
    BY <1>1, <2>1, <2>4 DEF EdgeKept
  <2> QED BY <2>2, <2>3, <2>4
<1>9. LoginsConstructed'
  <2>1. \A d \in Conns : Constructed(d) => Constructed(d)'
    BY <1>1 DEF Constructed
  <2>2. /\ \A i \in 1..Len(jobs) : jobs[i] \in Conns
        /\ \A w \in Workers : work[w] # NoConn => work[w] \in Conns
    BY DEF TypeOK, HttpServerAssumption
  <2> QED BY <2>1, <2>2 DEF LoginsConstructed, serverVars, Constructed
<1>10. AliveMeansOwn'
  BY DEF AliveMeansOwn, serverVars
<1> QED BY <1>3, <1>4, <1>5, <1>6, <1>7, <1>8, <1>9, <1>10

LEMMA ConnectKeeps ==
  ASSUME HttpServerAssumption, IInv, NEW c \in Conns, Connect(c) PROVE IInv'
<1>1. PICK n \in Windows : conn' = [conn EXCEPT ![c].st = "backlog", ![c].win = n]
  BY DEF Connect
<1> DEFINE k == [conn[c] EXCEPT !.st = "backlog", !.win = n]
<1>2. conn[c] \in ConnType /\ conn[c].st = "none" /\ RecordOK(c, conn[c])
  BY DEF IInv, TypeOK, RecordsOK, Connect
<1>3. conn' = [conn EXCEPT ![c] = k]
  BY <1>1, <1>2 DEF IInv, TypeOK
<1>4. k \in ConnType
  BY <1>2 DEF ConnType
<1>5. /\ k.st = "backlog" /\ k.win = n /\ k.busy = conn[c].busy /\ k.out = conn[c].out
      /\ k.delivered = conn[c].delivered /\ k.drained = conn[c].drained
      /\ k.sent = conn[c].sent /\ k.inbuf = conn[c].inbuf
      /\ k.fin = conn[c].fin /\ k.rst = conn[c].rst
  BY <1>2 DEF ConnType
<1> HIDE DEF k
<1>6. RecordOK(c, k)
  BY <1>2, <1>4, <1>5, Numbers DEF RecordOK
<1>7. ~IsOpen(c) /\ ~Constructed(c)
  BY <1>2 DEF IsOpen, Constructed
<1>8. /\ Avail(conn[c]) > 0 => Avail(k) > 0
      /\ ready' = ready /\ listenEdge' \in BOOLEAN
      /\ UNCHANGED <<loopVars, serverVars>>
  BY <1>5 DEF Avail, Connect
<1> QED
  BY <1>3, <1>4, <1>5, <1>6, <1>7, <1>8, ClientKeeps

(* A client sends, closes or resets: its connection gets an edge.          *)
LEMMA ClientDoesKeeps ==
  ASSUME HttpServerAssumption, IInv, NEW c \in Conns, NEW k \in ConnType,
         ClientDoes(c, k), conn[c].st \in {"backlog", "open"},
         k.st = conn[c].st, k.fd = conn[c].fd, k.addr = conn[c].addr, k.win = conn[c].win,
         k.inbuf = conn[c].inbuf, k.busy = conn[c].busy, k.out = conn[c].out,
         k.delivered = conn[c].delivered, k.drained = conn[c].drained,
         k.sent >= conn[c].sent, conn[c].fin => k.fin, conn[c].rst => k.rst
  PROVE  IInv'
<1>1. conn[c] \in ConnType /\ RecordOK(c, conn[c])
  BY DEF IInv, TypeOK, RecordsOK
<1>2. RecordOK(c, k)
  BY <1>1, Numbers DEF RecordOK
<1>3. Avail(conn[c]) > 0 => Avail(k) > 0
  BY <1>1, Numbers DEF Avail
<1>4. /\ conn' = [conn EXCEPT ![c] = k]
      /\ ready' = ready \/ (IsOpen(c) /\ ready' = ready \cup {c})
      /\ ~(IsOpen(c) /\ c \notin ready')
      /\ listenEdge' \in BOOLEAN /\ UNCHANGED <<loopVars, serverVars>>
  BY DEF ClientDoes, IInv, TypeOK
<1>5. (k.st = "open" <=> IsOpen(c)) /\ (Constructed(c) => k.st \in {"open", "closed"})
  BY DEF IsOpen, Constructed
<1> QED
  BY <1>2, <1>3, <1>4, <1>5, ClientKeeps

LEMMA ClientStepKeeps ==
  ASSUME HttpServerAssumption, IInv, NEW c \in Conns, ClientStep(c) PROVE IInv'
<1> DEFINE k == conn[c]
<1>1. k \in ConnType /\ RecordOK(c, k)
  BY DEF IInv, TypeOK, RecordsOK
<1>2. CASE Connect(c)
  BY <1>2, ConnectKeeps
<1>3. CASE SendMore(c)
  <2> DEFINE r == [k EXCEPT !.sent = @ + 1]
  <2>1. ClientDoes(c, r) /\ k.st \in {"backlog", "open"} /\ k.sent < MaxSent
    BY <1>3 DEF SendMore, Connected
  <2>2. k.sent + 1 \in 0..MaxSent /\ k.sent + 1 >= k.sent
    BY <1>1, <2>1, Numbers DEF HttpServerAssumption
  <2>3. /\ r \in ConnType /\ r.sent >= k.sent /\ r.st = k.st /\ r.fd = k.fd /\ r.addr = k.addr
        /\ r.win = k.win /\ r.inbuf = k.inbuf /\ r.busy = k.busy /\ r.out = k.out
        /\ r.delivered = k.delivered /\ r.drained = k.drained /\ r.fin = k.fin /\ r.rst = k.rst
    BY <1>1, <2>2 DEF ConnType
  <2> QED BY <2>1, <2>3, ClientDoesKeeps
<1>4. CASE CloseByClient(c)
  <2> DEFINE r == [k EXCEPT !.fin = TRUE]
  <2>1. ClientDoes(c, r) /\ k.st \in {"backlog", "open"}
    BY <1>4 DEF CloseByClient, Connected
  <2>2. /\ r \in ConnType /\ r.sent = k.sent /\ r.st = k.st /\ r.fd = k.fd /\ r.addr = k.addr
        /\ r.win = k.win /\ r.inbuf = k.inbuf /\ r.busy = k.busy /\ r.out = k.out
        /\ r.delivered = k.delivered /\ r.drained = k.drained /\ r.fin /\ r.rst = k.rst
    BY <1>1 DEF ConnType
  <2>3. r.sent >= k.sent
    BY <1>1, <2>2, Numbers
  <2> QED BY <2>1, <2>2, <2>3, ClientDoesKeeps
<1>5. CASE ResetByClient(c)
  <2> DEFINE r == [k EXCEPT !.rst = TRUE]
  <2>1. ClientDoes(c, r) /\ k.st \in {"backlog", "open"}
    BY <1>5 DEF ResetByClient, Connected
  <2>2. /\ r \in ConnType /\ r.sent = k.sent /\ r.st = k.st /\ r.fd = k.fd /\ r.addr = k.addr
        /\ r.win = k.win /\ r.inbuf = k.inbuf /\ r.busy = k.busy /\ r.out = k.out
        /\ r.delivered = k.delivered /\ r.drained = k.drained /\ r.fin = k.fin /\ r.rst
    BY <1>1 DEF ConnType
  <2>3. r.sent >= k.sent
    BY <1>1, <2>2, Numbers
  <2> QED BY <2>1, <2>2, <2>3, ClientDoesKeeps
<1>6. CASE Drain(c)
  <2> DEFINE r == [k EXCEPT !.drained = k.delivered]
  <2>1. /\ conn' = [conn EXCEPT ![c] = r] /\ k.st \in {"backlog", "open"}
        /\ k.drained < k.delivered
        /\ ready' = (IF k.busy THEN ready \cup {c} ELSE ready)
        /\ UNCHANGED <<loopVars, listenEdge, serverVars>>
    BY <1>6 DEF Drain, Connected, IInv, TypeOK
  <2>2. /\ r \in ConnType /\ r.sent = k.sent /\ r.st = k.st /\ r.fd = k.fd /\ r.addr = k.addr
        /\ r.win = k.win /\ r.inbuf = k.inbuf /\ r.busy = k.busy /\ r.out = k.out
        /\ r.delivered = k.delivered /\ r.drained = k.delivered
        /\ r.fin = k.fin /\ r.rst = k.rst
    BY <1>1 DEF ConnType
  <2> HIDE DEF r
  <2>3. k.st = "open"
    BY <1>1, <2>1, Numbers DEF RecordOK
  <2>4. RecordOK(c, r)
    BY <1>1, <2>2, <2>3, Numbers DEF RecordOK, Reason, Overlong
  <2>5. Avail(r) = Avail(k) /\ IsOpen(c) /\ listenEdge' \in BOOLEAN
    BY <2>1, <2>2, <2>3 DEF Avail, IsOpen, IInv, TypeOK
  <2>6. ready' = ready \/ (IsOpen(c) /\ ready' = ready \cup {c})
    BY <2>1, <2>5
  <2>7. c \notin ready' => ~r.busy
    BY <2>1, <2>2
  <2> QED BY <2>1, <2>2, <2>3, <2>4, <2>5, <2>6, <2>7, ClientKeeps
<1> QED BY <1>2, <1>3, <1>4, <1>5, <1>6 DEF ClientStep

(* An open connection's record is replaced by what a call of the server    *)
(* makes of it: everything but the batch and the edges.                    *)
LEMMA ServerKeeps ==
  ASSUME HttpServerAssumption, IInv, NEW c \in OpenConns, NEW k,
         conn' = [conn EXCEPT ![c] = k], Keeps(c, conn[c], k),
         ready' = EdgesAfter(c, k), UNCHANGED <<mem, work>>
  PROVE  /\ conn' \in [Conns -> ConnType] /\ RecordsOK' /\ FdsDistinct'
         /\ \A d \in Conns : conn'[d] = IF d = c THEN k ELSE conn[d]
         /\ ready' \subseteq OpenConns'
         /\ \A d \in Conns : Constructed(d) => Constructed(d)'
         /\ OpenConns' \subseteq OpenConns
<1>1. c \in Conns /\ IsOpen(c) /\ k \in ConnType
  BY DEF OpenConns, Keeps
<1>2. conn' \in [Conns -> ConnType]
  BY <1>1 DEF IInv, TypeOK
<1>3. \A d \in Conns : conn'[d] = IF d = c THEN k ELSE conn[d]
  BY DEF IInv, TypeOK
<1>4. RecordsOK'
  BY <1>3 DEF IInv, RecordsOK, Keeps, RecordOK, Reason, Overlong
<1>5. OpenConns' \subseteq OpenConns
  BY <1>1, <1>3 DEF OpenConns, IsOpen
<1>6. FdsDistinct'
  BY <1>3, <1>5 DEF IInv, FdsDistinct, OpenConns, Keeps
<1>7. ready' \subseteq OpenConns'
  <2>1. ready \subseteq OpenConns
    BY DEF IInv, TypeOK
  <2>2. \A d \in ready' : d \in ready /\ (d = c => k.st = "open")
    BY <1>1 DEF EdgesAfter, Keeps
  <2> QED BY <1>1, <1>3, <2>1, <2>2 DEF OpenConns, IsOpen
<1>8. \A d \in Conns : Constructed(d) => Constructed(d)'
  BY <1>1, <1>3 DEF Constructed, Keeps
<1> QED BY <1>2, <1>3, <1>4, <1>5, <1>6, <1>7, <1>8

(* Connections that were constructed stay so: the logins of the queue and  *)
(* of the workers keep theirs.                                             *)
LEMMA LoginsKeep ==
  ASSUME HttpServerAssumption, IInv, jobs' = jobs, work' = work,
         \A d \in Conns : Constructed(d) => Constructed(d)'
  PROVE  LoginsConstructed'
<1>1. /\ \A i \in 1..Len(jobs) : jobs[i] \in Conns
      /\ \A w \in Workers : work[w] # NoConn => work[w] \in Conns
  BY DEF IInv, TypeOK, HttpServerAssumption
<1> QED BY <1>1 DEF IInv, LoginsConstructed, Constructed

LEMMA EpollWaitKeeps ==
  ASSUME HttpServerAssumption, IInv, EpollWait PROVE IInv'
<1>1. ready \subseteq OpenConns /\ batch = {} /\ conn' = conn
  BY DEF IInv, TypeOK, BatchInPhase, EpollWait
<1>2. \A e \in batch' : e = ListenEvent \/ \E c \in ready : e = EventOf(c)
  BY DEF EpollWait
<1>3. \A c \in OpenConns :
        /\ EventOf(c).who = c /\ EventOf(c).fd = conn[c].fd /\ c \in Conns /\ c # NoConn
        /\ EventOf(c).in = (Avail(conn[c]) > 0 \/ conn[c].fin \/ conn[c].rst)
        /\ EventOf(c).out = (Space(conn[c]) > 0 \/ conn[c].rst)
        /\ EventOf(c).hup = conn[c].rst
        /\ conn[c].st = "open" /\ conn[c].fd \in Fds
  BY DEF EventOf, OpenConns, IsOpen, HttpServerAssumption, IInv, RecordsOK, RecordOK
<1>4. ListenEvent.who = NoConn
  BY DEF ListenEvent
<1>5. TypeOK'
  <2>1. \A e \in batch' : e.who = NoConn \/ e.fd \in Fds
    BY <1>1, <1>2, <1>3, <1>4
  <2>2. ready' = {} /\ listenEdge' = FALSE /\ phase' = "events"
    BY DEF EpollWait
  <2> QED BY <2>1, <2>2, <1>1 DEF IInv, TypeOK, EpollWait, serverVars
<1>6. BatchTrue'
  <2> SUFFICES ASSUME NEW e \in batch', e.who # NoConn
               PROVE  e.who \in Conns /\ Truth(e, conn[e.who])
    BY <1>1 DEF BatchTrue
  <2>1. PICK c \in ready : e = EventOf(c)
    BY <1>2, <1>4
  <2>2. /\ e.who = c /\ c \in Conns /\ e.fd = conn[c].fd /\ conn[c].st = "open"
        /\ e.in => Avail(conn[c]) > 0 \/ conn[c].fin \/ conn[c].rst
        /\ e.hup => conn[c].rst
    BY <1>1, <1>3, <2>1
  <2> QED BY <2>2 DEF Truth
<1>7. BatchOnce'
  BY <1>1, <1>2, <1>3, <1>4 DEF BatchOnce
<1>8. BatchInPhase'
  BY DEF BatchInPhase, EpollWait
<1>9. EdgesKept'
  <2> SUFFICES ASSUME NEW c \in OpenConns PROVE EdgeKept(c)'
    BY <1>1 DEF EdgesKept, OpenConns, IsOpen
  <2>1. EdgeKept(c)
    BY DEF IInv, EdgesKept
  <2>2. c \in ready => EventOf(c) \in batch'
    BY DEF EpollWait
  <2> QED BY <1>1, <1>3, <2>1, <2>2 DEF EdgeKept
<1>10. LoginsConstructed' /\ AliveMeansOwn' /\ RecordsOK' /\ FdsDistinct'
  BY <1>1, LoginsKeep DEF IInv, AliveMeansOwn, EpollWait, serverVars, Constructed,
     RecordsOK, RecordOK, Reason, Overlong, FdsDistinct, OpenConns, IsOpen
<1> QED BY <1>5, <1>6, <1>7, <1>8, <1>9, <1>10 DEF IInv

(* The handlers of one event.  By FdsDistinct and BatchTrue the socket     *)
(* found by the descriptor is the one the event is about.                  *)
LEMMA ConnEventKeeps ==
  ASSUME HttpServerAssumption, IInv, NEW e \in batch, ConnEvent(e) PROVE IInv'
<1> DEFINE c == e.who
           k == Handle(c, e)
<1>1. c \in Conns /\ c # NoConn /\ Truth(e, conn[c]) /\ c \in OpenConns
  BY DEF IInv, BatchTrue, ConnEvent, Truth, OpenConns, IsOpen
<1>2. \A d \in OpenConns : conn[d].fd = e.fd <=> d = c
  BY <1>1 DEF IInv, FdsDistinct, Truth
<1>3. /\ conn' = [conn EXCEPT ![c] = k] /\ ready' = EdgesAfter(c, k)
      /\ jobs' = (IF e.in /\ SubmitsLogin(c, conn[c]) THEN Append(jobs, c) ELSE jobs)
      /\ batch' = batch \ {e}
      /\ UNCHANGED <<phase, mem, listenEdge, work, respList>>
  BY <1>1, <1>2 DEF ConnEvent
<1>4. conn[c] \in ConnType /\ RecordOK(c, conn[c]) /\ conn[c].st = "open"
  BY <1>1 DEF IInv, TypeOK, RecordsOK, Truth
<1>5. /\ Keeps(c, conn[c], k)
      /\ k.st = "open" => ~e.hup
      /\ k.st = "open" /\ Avail(k) > 0 => ~e.in /\ Avail(conn[c]) > 0
      /\ NoNewWrite(conn[c], k)
      /\ k.st = "open" /\ k.busy /\ Space(k) > 0 /\ ~k.rst => ~e.out
  BY <1>1, <1>4, HandleKeeps
<1> HIDE DEF c, k
<1>6. /\ conn' \in [Conns -> ConnType] /\ RecordsOK' /\ FdsDistinct'
      /\ \A d \in Conns : conn'[d] = IF d = c THEN k ELSE conn[d]
      /\ ready' \subseteq OpenConns'
      /\ \A d \in Conns : Constructed(d) => Constructed(d)'
      /\ OpenConns' \subseteq OpenConns
  BY <1>1, <1>3, <1>5, ServerKeeps
<1>7. /\ jobs' \in Seq(LoginConns)
      /\ \A i \in 1..Len(jobs') : conn'[jobs'[i]].st \in {"open", "closed"}
  <2>1. \A i \in 1..Len(jobs) : conn'[jobs[i]].st \in {"open", "closed"}
    <3>1. \A i \in 1..Len(jobs) : jobs[i] \in Conns /\ Constructed(jobs[i])
      BY DEF IInv, TypeOK, LoginsConstructed, HttpServerAssumption
    <3> QED BY <1>6, <3>1 DEF Constructed
  <2>2. conn'[c].st \in {"open", "closed"}
    BY <1>1, <1>5, <1>6 DEF Keeps
  <2>3. CASE jobs' = jobs
    BY <2>1, <2>3 DEF IInv, TypeOK
  <2>4. CASE jobs' = Append(jobs, c) /\ SubmitsLogin(c, conn[c])
    <3>1. c \in LoginConns
      BY <2>4 DEF SubmitsLogin
    <3>2. jobs \in Seq(LoginConns)
      BY DEF IInv, TypeOK
    <3>3. jobs' \in Seq(LoginConns) /\ Len(jobs') = Len(jobs) + 1
      BY <2>4, <3>1, <3>2
    <3>4. \A i \in 1..Len(jobs') : jobs'[i] = c \/ (i \in 1..Len(jobs) /\ jobs'[i] = jobs[i])
      BY <2>4, <3>1, <3>2
    <3> QED BY <2>1, <2>2, <3>3, <3>4
  <2> QED BY <1>3, <2>3, <2>4
<1>8. TypeOK'
  BY <1>3, <1>6, <1>7 DEF IInv, TypeOK
<1>9. \A f \in batch' : f \in batch /\ (f.who # NoConn => f.who # c)
  BY <1>1, <1>3 DEF IInv, BatchOnce, c
<1>10. BatchTrue'
  BY <1>6, <1>9 DEF IInv, BatchTrue, Truth
<1>11. BatchOnce' /\ BatchInPhase'
  BY <1>3, <1>9 DEF IInv, BatchOnce, BatchInPhase
<1>12. EdgesKept'
  <2> SUFFICES ASSUME NEW d \in OpenConns' PROVE EdgeKept(d)'
    BY DEF EdgesKept
  <2>1. d \in OpenConns /\ d \in Conns /\ EdgeKept(d)
    BY <1>6 DEF IInv, EdgesKept, OpenConns
  <2>2. CASE d # c
    <3>1. conn'[d] = conn[d] /\ (d \in ready => d \in ready')
      BY <1>3, <1>6, <2>1, <2>2 DEF EdgesAfter
    <3>2. \A f \in batch : f.who = d => f \in batch'
      BY <1>3, <2>2 DEF c
    <3> QED BY <2>1, <3>1, <3>2 DEF EdgeKept
  <2>3. CASE d = c
    <3>1. conn'[d] = k /\ k.st = "open" /\ ready' = ready
      BY <1>3, <1>6, <2>1, <2>3 DEF OpenConns, IsOpen, EdgesAfter
    <3>2. \A f \in batch : f.who = c => f = e
      BY <1>1 DEF IInv, BatchOnce, c
    <3>3. k.rst = conn[c].rst
      BY <1>5 DEF Keeps
    <3> QED BY <1>5, <2>1, <2>3, <3>1, <3>2, <3>3 DEF EdgeKept, NoNewWrite
  <2> QED BY <2>2, <2>3
<1>13. LoginsConstructed'
  <2>1. \A w \in Workers : work[w] # NoConn => work[w] \in Conns /\ Constructed(work[w])
    BY DEF IInv, TypeOK, LoginsConstructed, HttpServerAssumption
  <2>2. \A w \in Workers : work'[w] # NoConn => conn'[work'[w]].st \in {"open", "closed"}
    BY <1>3, <1>6, <2>1 DEF Constructed
  <2> QED BY <1>7, <2>2 DEF LoginsConstructed, Constructed
<1>14. AliveMeansOwn'
  BY <1>3 DEF IInv, AliveMeansOwn
<1> QED BY <1>6, <1>8, <1>10, <1>11, <1>12, <1>13, <1>14 DEF IInv

(* A new connection gets a descriptor and an address nobody uses.          *)
LEMMA AcceptOneKeeps ==
  ASSUME HttpServerAssumption, IInv, NEW c \in Conns, AcceptOne(c) PROVE IInv'
<1>1. PICK f \in FreeFds, a \in FreeAddrs :
        /\ conn' = [conn EXCEPT ![c].st = "open", ![c].fd = f, ![c].addr = a]
        /\ mem' = [mem EXCEPT ![a] = c]
  BY DEF AcceptOne
<1> DEFINE k == [conn[c] EXCEPT !.st = "open", !.fd = f, !.addr = a]
<1>2. /\ conn[c] \in ConnType /\ conn[c].st = "backlog" /\ RecordOK(c, conn[c])
      /\ f \in Fds /\ a \in Addrs
  BY <1>1 DEF IInv, TypeOK, RecordsOK, AcceptOne, Backlog, FreeFds, FreeAddrs
<1>3. conn' = [conn EXCEPT ![c] = k]
  BY <1>1, <1>2 DEF IInv, TypeOK
<1>4. k \in ConnType
  BY <1>2 DEF ConnType
<1>5. /\ k.st = "open" /\ k.fd = f /\ k.addr = a /\ k.win = conn[c].win
      /\ k.busy = conn[c].busy /\ k.out = conn[c].out
      /\ k.delivered = conn[c].delivered /\ k.drained = conn[c].drained
      /\ k.sent = conn[c].sent /\ k.inbuf = conn[c].inbuf
      /\ k.fin = conn[c].fin /\ k.rst = conn[c].rst
  BY <1>2 DEF ConnType
<1> HIDE DEF k
<1>6. /\ ready' = ready \cup {c} /\ UNCHANGED <<loopVars, listenEdge, jobs, work, respList>>
  BY DEF AcceptOne
<1>7. \A d \in Conns : conn'[d] = IF d = c THEN k ELSE conn[d]
  BY <1>3 DEF IInv, TypeOK
<1>8. OpenConns' = OpenConns \cup {c} /\ c \notin OpenConns
  BY <1>2, <1>5, <1>7 DEF OpenConns, IsOpen
<1>9. TypeOK'
  <2>1. conn' \in [Conns -> ConnType]
    BY <1>3, <1>4 DEF IInv, TypeOK
  <2>2. mem' \in [Addrs -> Conns \cup {NoConn}]
    BY <1>1 DEF IInv, TypeOK
  <2>3. ready' \subseteq OpenConns'
    BY <1>6, <1>8 DEF IInv, TypeOK
  <2> QED BY <1>6, <2>1, <2>2, <2>3 DEF IInv, TypeOK, loopVars
<1>10. RecordsOK'
  <2>1. RecordOK(c, k)
    BY <1>2, <1>5 DEF RecordOK
  <2> QED BY <1>7, <2>1 DEF IInv, RecordsOK, RecordOK, Reason, Overlong
<1>11. FdsDistinct'
  <2>1. \A d \in OpenConns : conn[d].fd # f
    BY DEF FreeFds
  <2> QED BY <1>5, <1>7, <1>8, <2>1 DEF IInv, FdsDistinct, OpenConns
<1>12. BatchTrue'
  BY <1>2, <1>6, <1>7 DEF IInv, BatchTrue, Truth, loopVars
<1>13. BatchOnce' /\ BatchInPhase'
  BY <1>6 DEF IInv, BatchOnce, BatchInPhase, loopVars
<1>14. EdgesKept'
  <2> SUFFICES ASSUME NEW d \in OpenConns' PROVE EdgeKept(d)'
    BY DEF EdgesKept
  <2>1. CASE d = c
    BY <1>6, <2>1 DEF EdgeKept
  <2>2. CASE d # c
    <3>1. d \in Conns /\ EdgeKept(d) /\ conn'[d] = conn[d]
      BY <1>7, <1>8, <2>2 DEF IInv, EdgesKept, OpenConns
    <3> QED BY <1>6, <3>1 DEF EdgeKept, loopVars
  <2> QED BY <2>1, <2>2
<1>15. LoginsConstructed'
  <2>1. \A d \in Conns : Constructed(d) => Constructed(d)'
    BY <1>5, <1>7 DEF Constructed
  <2> QED BY <1>6, <2>1, LoginsKeep
<1>16. AliveMeansOwn'
  BY <1>6 DEF IInv, AliveMeansOwn
<1> QED BY <1>9, <1>10, <1>11, <1>12, <1>13, <1>14, <1>15, <1>16 DEF IInv

LEMMA SendResponseKeeps ==
  ASSUME HttpServerAssumption, IInv, SendResponse PROVE IInv'
<1> DEFINE h == Head(respList)
<1>1. /\ phase = "loop" /\ batch = {} /\ respList # <<>> /\ respList' = Tail(respList)
      /\ UNCHANGED <<mem, loopVars, listenEdge, jobs, work>>
  BY DEF SendResponse, IInv, BatchInPhase
<1>2. /\ respList' \in Seq([uuid : Conns \cup {NoConn}, owner : LoginConns, alive : BOOLEAN])
      /\ AliveMeansOwn'
  <2>1. respList \in Seq([uuid : Conns \cup {NoConn}, owner : LoginConns, alive : BOOLEAN])
    BY DEF IInv, TypeOK
  <2>2. /\ Tail(respList) \in Seq([uuid : Conns \cup {NoConn}, owner : LoginConns, alive : BOOLEAN])
        /\ \A i \in 1..Len(Tail(respList)) :
             i + 1 \in 1..Len(respList) /\ Tail(respList)[i] = respList[i + 1]
    BY <1>1, <2>1
  <2> QED BY <1>1, <2>2 DEF IInv, AliveMeansOwn
<1>3. BatchTrue' /\ BatchOnce' /\ BatchInPhase'
  BY <1>1 DEF BatchTrue, BatchOnce, BatchInPhase, loopVars
<1>4. CASE Lookup(h) = {}
  <2>1. conn' = conn /\ ready' = ready
    BY <1>4 DEF SendResponse
  <2>2. TypeOK' /\ RecordsOK' /\ FdsDistinct' /\ EdgesKept'
    BY <1>1, <1>2, <2>1 DEF IInv, TypeOK, RecordsOK, RecordOK, Reason, Overlong,
       FdsDistinct, EdgesKept, EdgeKept, OpenConns, IsOpen, loopVars
  <2>3. LoginsConstructed'
    BY <1>1, <2>1, LoginsKeep DEF Constructed
  <2> QED BY <1>2, <1>3, <2>2, <2>3 DEF IInv
<1>5. CASE Lookup(h) # {}
  <2>1. PICK c \in Lookup(h) :
          /\ conn' = [conn EXCEPT ![c] = Sent(conn[c])]
          /\ ready' = EdgesAfter(c, Sent(conn[c]))
    BY <1>5 DEF SendResponse
  <2> DEFINE k == Sent(conn[c])
  <2>2. c \in OpenConns /\ c \in Conns /\ conn[c] \in ConnType /\ RecordOK(c, conn[c])
        /\ conn[c].st = "open" /\ EdgeKept(c)
    BY DEF Lookup, IInv, TypeOK, RecordsOK, OpenConns, IsOpen, EdgesKept
  <2>3. Keeps(c, conn[c], k) /\ NoNewWrite(conn[c], k) /\ k.inbuf = conn[c].inbuf
    BY <2>2, SentKeeps
  <2> HIDE DEF k
  <2>4. /\ conn' \in [Conns -> ConnType] /\ RecordsOK' /\ FdsDistinct'
        /\ \A d \in Conns : conn'[d] = IF d = c THEN k ELSE conn[d]
        /\ ready' \subseteq OpenConns'
        /\ \A d \in Conns : Constructed(d) => Constructed(d)'
        /\ OpenConns' \subseteq OpenConns
    <3>1. conn' = [conn EXCEPT ![c] = k] /\ ready' = EdgesAfter(c, k)
      BY <2>1 DEF k
    <3> QED BY <1>1, <2>2, <2>3, <3>1, ServerKeeps
  <2>5. TypeOK'
    BY <1>1, <1>2, <2>4 DEF IInv, TypeOK, loopVars
  <2>6. EdgesKept'
    <3> SUFFICES ASSUME NEW d \in OpenConns' PROVE EdgeKept(d)'
      BY DEF EdgesKept
    <3>1. d \in OpenConns /\ d \in Conns /\ EdgeKept(d)
      BY <2>4 DEF IInv, EdgesKept, OpenConns
    <3>4. d \in ready' <=> d \in ready
      BY <2>1, <2>4 DEF IInv, EdgesKept, OpenConns, IsOpen, EdgesAfter, k
    <3>2. CASE d # c
      BY <1>1, <2>4, <3>1, <3>4, <3>2 DEF EdgeKept, loopVars
    <3>3. CASE d = c
      <4>1. conn'[d] = k /\ k.st = "open"
        BY <2>4, <3>1, <3>3 DEF OpenConns, IsOpen
      <4>2. Avail(k) = Avail(conn[c]) /\ k.rst = conn[c].rst
        BY <2>3 DEF Avail, Keeps
      <4> QED BY <1>1, <2>3, <3>1, <3>3, <3>4, <4>1, <4>2 DEF EdgeKept, NoNewWrite, loopVars
    <3> QED BY <3>2, <3>3
  <2>7. LoginsConstructed'
    BY <1>1, <2>4, LoginsKeep
  <2> QED BY <1>2, <1>3, <2>4, <2>5, <2>6, <2>7 DEF IInv
<1> QED BY <1>4, <1>5

(* Steps that leave the connections, the batch and the edges alone.        *)
LEMMA QuietKeeps ==
  ASSUME HttpServerAssumption, IInv, UNCHANGED <<conn, mem, ready, listenEdge>>,
         batch' \subseteq batch, \A e \in batch \ batch' : e.who = NoConn,
         phase' \in {"wait", "events", "loop"}, batch' # {} => phase' = "events",
         jobs' \in Seq(LoginConns), work' \in [Workers -> LoginConns \cup {NoConn}],
         respList' \in Seq([uuid : Conns \cup {NoConn}, owner : LoginConns, alive : BOOLEAN]),
         LoginsConstructed', AliveMeansOwn'
  PROVE  IInv'
<1>1. TypeOK' /\ RecordsOK' /\ FdsDistinct' /\ BatchTrue' /\ BatchOnce' /\ BatchInPhase'
  BY DEF IInv, TypeOK, RecordsOK, RecordOK, Reason, Overlong, FdsDistinct, OpenConns,
     IsOpen, BatchTrue, BatchOnce, BatchInPhase, Truth
<1>2. EdgesKept'
  <2> SUFFICES ASSUME NEW c \in OpenConns PROVE EdgeKept(c)'
    BY DEF EdgesKept, OpenConns, IsOpen
  <2>1. EdgeKept(c) /\ c # NoConn
    BY DEF IInv, EdgesKept, OpenConns, HttpServerAssumption
  <2> QED BY <2>1 DEF EdgeKept
<1> QED BY <1>1, <1>2 DEF IInv

LEMMA LoopStepKeeps ==
  ASSUME HttpServerAssumption, IInv, LoopStep PROVE IInv'
<1>1. CASE EpollWait
  BY <1>1, EpollWaitKeeps
<1>2. CASE \E e \in batch : ConnEvent(e)
  BY <1>2, ConnEventKeeps
<1>3. CASE \E c \in Conns : AcceptOne(c)
  BY <1>3, AcceptOneKeeps
<1>4. CASE SendResponse
  BY <1>4, SendResponseKeeps
<1>5. CASE AcceptDone \/ EventsDone \/ LoopDone
  <2>1. /\ UNCHANGED <<conn, mem, ready, listenEdge, jobs, work, respList>>
        /\ batch' \subseteq batch /\ \A e \in batch \ batch' : e.who = NoConn
        /\ phase' \in {"wait", "events", "loop"} /\ (batch' # {} => phase' = "events")
    BY <1>5 DEF AcceptDone, EventsDone, LoopDone, ListenEvent, IInv, TypeOK, BatchInPhase
  <2>2. LoginsConstructed' /\ AliveMeansOwn'
    BY <2>1, LoginsKeep DEF IInv, AliveMeansOwn, Constructed
  <2>3. /\ jobs' \in Seq(LoginConns) /\ work' \in [Workers -> LoginConns \cup {NoConn}]
        /\ respList' \in Seq([uuid : Conns \cup {NoConn}, owner : LoginConns, alive : BOOLEAN])
    BY <2>1 DEF IInv, TypeOK
  <2>4. UNCHANGED <<conn, mem, ready, listenEdge>>
    BY <2>1
  <2>5. /\ batch' \subseteq batch /\ \A e \in batch \ batch' : e.who = NoConn
        /\ phase' \in {"wait", "events", "loop"} /\ (batch' # {} => phase' = "events")
    BY <2>1
  <2> QED BY <2>2, <2>3, <2>4, <2>5, QuietKeeps
<1> QED BY <1>1, <1>2, <1>3, <1>4, <1>5 DEF LoopStep

LEMMA TakeJobKeeps ==
  ASSUME HttpServerAssumption, IInv, NEW w \in Workers, TakeJob(w) PROVE IInv'
<1>1. /\ jobs # <<>> /\ jobs' = Tail(jobs) /\ work' = [work EXCEPT ![w] = Head(jobs)]
      /\ UNCHANGED <<conn, mem, loopVars, ready, listenEdge, respList>>
  BY DEF TakeJob
<1>2. jobs \in Seq(LoginConns) /\ work \in [Workers -> LoginConns \cup {NoConn}]
  BY DEF IInv, TypeOK
<1>3. /\ Tail(jobs) \in Seq(LoginConns) /\ Head(jobs) \in LoginConns
      /\ 1 \in 1..Len(jobs) /\ Head(jobs) = jobs[1]
      /\ \A i \in 1..Len(Tail(jobs)) : i + 1 \in 1..Len(jobs) /\ Tail(jobs)[i] = jobs[i + 1]
  BY <1>1, <1>2
<1>4. /\ work' \in [Workers -> LoginConns \cup {NoConn}]
      /\ \A v \in Workers : work'[v] = IF v = w THEN jobs[1] ELSE work[v]
  BY <1>1, <1>2, <1>3
<1>5. LoginsConstructed'
  BY <1>1, <1>3, <1>4 DEF IInv, LoginsConstructed, Constructed
<1>6. AliveMeansOwn'
  BY <1>1 DEF IInv, AliveMeansOwn
<1> QED BY <1>1, <1>3, <1>4, <1>5, <1>6, QuietKeeps DEF IInv, TypeOK, BatchInPhase, loopVars

(* The uuid in an answer is the owner's if the owner was alive.            *)
LEMMA FinishJobKeeps ==
  ASSUME HttpServerAssumption, IInv, NEW w \in Workers, FinishJob(w) PROVE IInv'
<1> DEFINE c == work[w]
           R == [uuid : Conns \cup {NoConn}, owner : LoginConns, alive : BOOLEAN]
<1>1. PICK u \in UuidSeen(c) :
        respList' = Append(respList, [uuid |-> u, owner |-> c, alive |-> IsOpen(c)])
  BY DEF FinishJob
<1>2. /\ c # NoConn /\ work' = [work EXCEPT ![w] = NoConn]
      /\ UNCHANGED <<conn, mem, loopVars, ready, listenEdge, jobs>>
  BY DEF FinishJob
<1>3. c \in LoginConns /\ c \in Conns /\ conn[c].addr \in Addrs
  BY <1>2 DEF IInv, TypeOK, LoginsConstructed, Constructed, RecordsOK, RecordOK, HttpServerAssumption
<1>4. u \in Conns \cup {NoConn} /\ (IsOpen(c) => u = c)
  BY <1>3 DEF UuidSeen, IInv, TypeOK
<1> DEFINE r == [uuid |-> u, owner |-> c, alive |-> IsOpen(c)]
<1>5. r \in R /\ (r.alive => r.uuid = r.owner)
  BY <1>3, <1>4 DEF IsOpen
<1>6. respList \in Seq(R) /\ respList' = Append(respList, r)
  BY <1>1 DEF IInv, TypeOK
<1> HIDE DEF r, R
<1>7. /\ respList' \in Seq(R)
      /\ \A i \in 1..Len(respList') :
           respList'[i] = r \/ (i \in 1..Len(respList) /\ respList'[i] = respList[i])
  BY <1>5, <1>6
<1>8. AliveMeansOwn'
  BY <1>5, <1>7 DEF IInv, AliveMeansOwn
<1>9. /\ work' \in [Workers -> LoginConns \cup {NoConn}]
      /\ \A v \in Workers : work'[v] = work[v] \/ work'[v] = NoConn
  BY <1>2 DEF IInv, TypeOK
<1>10. LoginsConstructed'
  BY <1>2, <1>9 DEF IInv, LoginsConstructed, Constructed
<1> QED BY <1>2, <1>7, <1>8, <1>9, <1>10, QuietKeeps DEF IInv, TypeOK, BatchInPhase, loopVars, R

-----------------------------------------------------------------------------
LEMMA NextKeeps ==
  ASSUME HttpServerAssumption, IInv, [Next]_vars PROVE IInv'
<1>1. CASE \E c \in Conns : ClientStep(c)
  BY <1>1, ClientStepKeeps
<1>2. CASE LoopStep
  BY <1>2, LoopStepKeeps
<1>3. CASE \E w \in Workers : WorkerStep(w)
  BY <1>3, TakeJobKeeps, FinishJobKeeps DEF WorkerStep
<1>4. CASE UNCHANGED vars
  <2>1. LoginsConstructed' /\ AliveMeansOwn'
    BY <1>4, LoginsKeep DEF vars, IInv, AliveMeansOwn, Constructed
  <2> QED BY <1>4, <2>1, QuietKeeps DEF vars, IInv, TypeOK, BatchInPhase
<1> QED BY <1>1, <1>2, <1>3, <1>4 DEF Next

(* The strengthened invariant holds in every reachable state.              *)
THEOREM Inductive == Spec => []IInv
<1>1. Init => IInv
  BY InitIInv, HttpServerAssumption
<1>2. IInv /\ [Next]_vars => IInv'
  BY NextKeeps, HttpServerAssumption
<1> QED BY <1>1, <1>2, PTL DEF Spec

(* Connections, events, edges, jobs and answers keep their types.          *)
THEOREM TypeCorrect == Spec => []TypeOK
<1>1. IInv => TypeOK
  BY DEF IInv
<1> QED BY <1>1, Inductive, PTL

(* An event never reaches another connection than the one it is about,     *)
(* although it carries a descriptor that may have been closed and accepted *)
(* again since epoll_wait (EventDispatch.cpp, StartDispatch).              *)
THEOREM EventsReachTheirConnection == Spec => []NoStaleEvent
<1>1. IInv => NoStaleEvent
  <2> SUFFICES ASSUME IInv, NEW e \in batch, NEW c \in OpenConns,
                      e.who # NoConn, conn[c].fd = e.fd
               PROVE  c = e.who
    BY DEF NoStaleEvent
  <2>1. e.who \in OpenConns /\ conn[e.who].fd = e.fd
    BY DEF IInv, BatchTrue, Truth, OpenConns, IsOpen
  <2> QED BY <2>1 DEF IInv, FdsDistinct
<1> QED BY <1>1, Inductive, PTL

(* The server closes a connection only when the response went out, the     *)
(* client went away, or the request is refused (CBaseSocket::OnRead,       *)
(* CHttpConn::OnRead, Send and OnWrite).                                   *)
THEOREM ClosedForAReason == Spec => []CloseHasReason
<1>1. IInv => CloseHasReason
  BY DEF IInv, RecordsOK, RecordOK, Reason, CloseHasReason
<1> QED BY <1>1, Inductive, PTL

(* The edge-triggered loop forgets no connection with unread data or with  *)
(* an answer that could be written.                                        *)
THEOREM NoEdgeLost == Spec => []NothingForgotten
<1>1. IInv => NothingForgotten
  <2> SUFFICES ASSUME IInv, NEW c \in OpenConns,
                      Avail(conn[c]) > 0 \/ conn[c].rst \/ (conn[c].busy /\ Space(conn[c]) > 0)
               PROVE  c \in ready \/ \E e \in batch : e.who = c
    BY DEF NothingForgotten
  <2>1. EdgeKept(c)
    BY DEF IInv, EdgesKept
  <2> QED BY <2>1 DEF EdgeKept
<1> QED BY <1>1, Inductive, PTL

(* An answer of a login reaches the connection that asked, or nobody, if   *)
(* the connection was alive when the worker read its uuid                  *)
(* (CHttpConn::SendResponseDataList).                                      *)
THEOREM AnswersReachTheAsker == Spec => AnswerToAsker
<1> DEFINE Own == \A c \in Conns :
             (SendResponse /\ conn'[c].delivered > conn[c].delivered /\ Head(respList).alive)
               => c = Head(respList).owner
<1>1. IInv /\ [Next]_vars => [Own]_vars
  <2> SUFFICES ASSUME IInv, NEW c \in Conns, SendResponse, Head(respList).alive,
                      conn'[c].delivered > conn[c].delivered
               PROVE  c = Head(respList).owner
    BY DEF Own
  <2> DEFINE h == Head(respList)
             R == [uuid : Conns \cup {NoConn}, owner : LoginConns, alive : BOOLEAN]
  <2>1. conn[c] \in ConnType /\ respList \in Seq(R) /\ respList # <<>>
    BY DEF IInv, TypeOK, SendResponse
  <2>2. 1 \in 1..Len(respList) /\ h = respList[1]
    BY <2>1
  <2>3. h.uuid = h.owner
    BY <2>2 DEF IInv, AliveMeansOwn
  <2>4. conn' # conn
    BY <2>1, HttpServerAssumption, Numbers
  <2>5. PICK d \in Lookup(h) : conn' = [conn EXCEPT ![d] = Sent(conn[d])]
    BY <2>4 DEF SendResponse
  <2>6. d = h.uuid
    BY DEF Lookup
  <2>7. c = d
    <3> SUFFICES ASSUME c # d PROVE FALSE
      OBVIOUS
    <3>1. conn'[c] = conn[c]
      BY <2>5 DEF IInv, TypeOK
    <3> QED BY <2>1, <3>1, HttpServerAssumption, Numbers
  <2> QED BY <2>3, <2>6, <2>7
<1> QED BY <1>1, Inductive, PTL DEF Spec, AnswerToAsker
=============================================================================
