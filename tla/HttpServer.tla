----------------------------- MODULE HttpServer -----------------------------
(***************************************************************************)
(* The event loop of the server and its HTTP connections: StartDispatch    *)
(* (base/EventDispatch.cpp), CBaseSocket (base/BaseSocket.cpp), CHttpConn  *)
(* (HttpConn.cpp) and the callbacks of main.cpp, with the kernel's         *)
(* edge-triggered epoll, the clients, and the workers that run logins.     *)
(*                                                                         *)
(* The event loop is one thread.  What it does for one event runs without  *)
(* a point at which another thread could see the connection, except for    *)
(* the worker that holds the bound `this' of a login; so one event is one  *)
(* step.  Bytes are counted in units: RequestLen of them are a request,    *)
(* more than BufLimit are refused, RespLen are a response.                 *)
(*                                                                         *)
(* A Conns value is one connection of one client; it stands for the        *)
(* CBaseSocket, the CHttpConn and for m_conn_handle and m_uuid, which are  *)
(* never reused (they wrap after 2^32 connections).  A socket descriptor   *)
(* and the memory of a CHttpConn are reused: Fds and Addrs.                *)
(***************************************************************************)
EXTENDS Integers, Sequences, FiniteSets

CONSTANTS Conns, Fds, Addrs, Workers,
          LoginConns,    \* connections whose request is /api/login
          UnknownConns,  \* connections whose request has an unknown url
          NoConn,
          RequestLen, BufLimit, RespLen,
          MaxSent,       \* bound: units one client sends
          Windows        \* units the kernel may buffer for a client

ASSUME HttpServerAssumption ==
  /\ LoginConns \subseteq Conns /\ UnknownConns \subseteq Conns
  /\ LoginConns \cap UnknownConns = {}
  /\ NoConn \notin Conns
  /\ RequestLen \in Nat \ {0} /\ BufLimit \in Nat /\ BufLimit >= RequestLen
  /\ RespLen \in Nat \ {0} /\ Windows \subseteq Nat \ {0} /\ MaxSent \in Nat

VARIABLES conn,       \* per connection: see ConnType
          mem,        \* the connection last constructed at an address
          phase,      \* where StartDispatch is
          batch,      \* events returned by epoll_wait, not yet handled
          ready,      \* epoll's ready list: connections with an edge
          listenEdge, \* the listening socket has an edge
          jobs,       \* tasks of g_thread_pool, front first
          work,       \* the login a worker is running
          respList    \* s_response_pdu_list, front first

vars == <<conn, mem, phase, batch, ready, listenEdge, jobs, work, respList>>

loopVars   == <<phase, batch>>
serverVars == <<mem, jobs, work, respList>>

ConnType ==
  [st : {"none", "backlog", "open", "closed"},
   fd : Fds \cup {NoConn}, addr : Addrs \cup {NoConn},
   win : Windows \cup {0},    \* size of the socket's send buffer
   sent : 0..MaxSent,        \* units the client has sent
   fin : BOOLEAN,            \* the client has closed its side
   rst : BOOLEAN,            \* the client has reset the connection
   inbuf : 0..MaxSent,       \* m_in_buf's write offset
   busy : BOOLEAN,           \* m_busy
   out : Nat,                \* m_out_buf's write offset
   delivered : Nat,          \* units the kernel accepted from Send
   drained : Nat]            \* units the client has read

Fresh == [st |-> "none", fd |-> NoConn, addr |-> NoConn, win |-> 0, sent |-> 0,
          fin |-> FALSE, rst |-> FALSE, inbuf |-> 0, busy |-> FALSE, out |-> 0,
          delivered |-> 0, drained |-> 0]

IsOpen(c)  == conn[c].st = "open"
OpenConns  == {c \in Conns : IsOpen(c)}
Backlog    == {c \in Conns : conn[c].st = "backlog"}
FreeFds    == Fds \ {conn[c].fd : c \in OpenConns}
FreeAddrs  == Addrs \ {conn[c].addr : c \in OpenConns}

Avail(k)   == k.sent - k.inbuf                   \* what FIONREAD reports
Space(k)   == k.win - (k.delivered - k.drained)
Least(m, n) == IF m < n THEN m ELSE n

Init ==
  /\ conn = [c \in Conns |-> Fresh]
  /\ mem = [a \in Addrs |-> NoConn]
  /\ phase = "wait"
  /\ batch = {}
  /\ ready = {}
  /\ listenEdge = FALSE
  /\ jobs = <<>>
  /\ work = [w \in Workers |-> NoConn]
  /\ respList = <<>>

-----------------------------------------------------------------------------
(* The clients and the kernel.  A change of an accepted socket puts it on  *)
(* epoll's ready list.                                                     *)
ClientDoes(c, k) ==
  /\ conn' = [conn EXCEPT ![c] = k]
  /\ ready' = IF IsOpen(c) THEN ready \cup {c} ELSE ready
  /\ UNCHANGED <<loopVars, listenEdge, serverVars>>

Connect(c) ==
  /\ conn[c].st = "none"
  /\ \E n \in Windows : conn' = [conn EXCEPT ![c].st = "backlog", ![c].win = n]
  /\ listenEdge' = TRUE
  /\ UNCHANGED <<loopVars, ready, serverVars>>

Connected(c) == conn[c].st \in {"backlog", "open"} /\ ~conn[c].rst

SendMore(c) ==
  /\ Connected(c) /\ ~conn[c].fin
  /\ conn[c].sent < MaxSent
  /\ ClientDoes(c, [conn[c] EXCEPT !.sent = @ + 1])

CloseByClient(c) ==
  /\ Connected(c) /\ ~conn[c].fin
  /\ ClientDoes(c, [conn[c] EXCEPT !.fin = TRUE])

ResetByClient(c) ==
  /\ Connected(c)
  /\ ClientDoes(c, [conn[c] EXCEPT !.rst = TRUE])

(* The client reads; the kernel signals new space only to a sender that    *)
(* was refused some.                                                       *)
Drain(c) ==
  /\ Connected(c) /\ conn[c].drained < conn[c].delivered
  /\ conn' = [conn EXCEPT ![c].drained = conn[c].delivered]
  /\ ready' = IF conn[c].busy THEN ready \cup {c} ELSE ready
  /\ UNCHANGED <<loopVars, listenEdge, serverVars>>

-----------------------------------------------------------------------------
(* CHttpConn, as functions of one connection's record.                     *)

(* Close(): out of both maps, socket closed, `delete this'.                *)
Closed(k) == [k EXCEPT !.st = "closed"]

Accepted(k, len) == IF k.rst THEN 0 ELSE Least(len, Space(k))

(* Mutant: the part that was not sent is lost.                             *)
SentForgetsRest(k) == [k EXCEPT !.delivered = @ + Accepted(k, RespLen)]

(* Send(): append when busy; else send, keep the rest, close when all went.*)
Sent(k) ==
  LET n == Accepted(k, RespLen)
  IN  IF k.busy THEN [k EXCEPT !.out = @ + RespLen]
      ELSE IF n < RespLen
           THEN [k EXCEPT !.out = RespLen - n, !.busy = TRUE, !.delivered = @ + n]
           ELSE Closed([k EXCEPT !.delivered = @ + n])

(* CHttpConn::OnRead after the recv loop: every byte so far is in m_in_buf.*)
Overlong(k)  == k.inbuf > BufLimit
Complete(k)  == k.inbuf >= RequestLen /\ ~Overlong(k)

Dispatched(c, k) ==
  IF Overlong(k) \/ (Complete(k) /\ c \in UnknownConns) THEN Closed(k)
  ELSE IF Complete(k) /\ c \notin LoginConns THEN Sent(k)
  ELSE k

(* Mutant: one recv in place of the loop.                                  *)
AfterOneRecv(c, k) ==
  IF Avail(k) = 0 THEN Closed(k) ELSE Dispatched(c, [k EXCEPT !.inbuf = @ + 1])

(* CBaseSocket::OnRead: nothing to read means that the peer closed.        *)
AfterRead(c, k) ==
  IF Avail(k) = 0 THEN Closed(k) ELSE Dispatched(c, [k EXCEPT !.inbuf = k.sent])

SubmitsLogin(c, k) ==
  c \in LoginConns /\ Avail(k) > 0 /\ Complete([k EXCEPT !.inbuf = k.sent])

(* CHttpConn::OnWrite.                                                     *)
AfterWrite(k) ==
  LET n == Accepted(k, k.out)
      s == [k EXCEPT !.out = @ - n, !.delivered = @ + n]
  IN  IF ~k.busy THEN k ELSE IF n < k.out THEN s ELSE Closed(s)

(* What StartDispatch calls for one event; the callbacks of a connection   *)
(* that an earlier call closed find no entry in g_http_conn_map.           *)
Handle(c, e) ==
  LET r == IF e.in THEN AfterRead(c, conn[c]) ELSE conn[c]
      w == IF e.out /\ r.st = "open" THEN AfterWrite(r) ELSE r
  IN  IF e.hup THEN Closed(w) ELSE w

-----------------------------------------------------------------------------
(* Mutant: EPOLLIN taken for granted.                                      *)
EventAlwaysIn(c) ==
  LET k == conn[c]
  IN  [fd |-> k.fd, who |-> c, in |-> TRUE, out |-> Space(k) > 0 \/ k.rst, hup |-> k.rst]

(* StartDispatch.  epoll_wait reports, for what is on the ready list, the  *)
(* state of the socket at that moment; `who' is history.                   *)
EventOf(c) ==
  LET k == conn[c]
  IN  [fd |-> k.fd, who |-> c,
       in |-> Avail(k) > 0 \/ k.fin \/ k.rst,
       out |-> Space(k) > 0 \/ k.rst,
       hup |-> k.rst]

ListenEvent == [fd |-> NoConn, who |-> NoConn, in |-> TRUE, out |-> FALSE, hup |-> FALSE]

EpollWait ==
  /\ phase = "wait"
  /\ batch' = {EventOf(c) : c \in ready} \cup (IF listenEdge THEN {ListenEvent} ELSE {})
  /\ ready' = {}
  /\ listenEdge' = FALSE
  /\ phase' = "events"
  /\ UNCHANGED <<conn, serverVars>>

(* CBaseSocket::Close takes a closed socket out of epoll.                  *)
EdgesAfter(c, k) == IF k.st = "closed" THEN ready \ {c} ELSE ready

(* One event of an accepted socket: FindBaseSocket, then the handlers.     *)
ConnEvent(e) ==
  /\ phase = "events"
  /\ e \in batch /\ e.who # NoConn
  /\ batch' = batch \ {e}
  /\ LET owners == {c \in OpenConns : conn[c].fd = e.fd}
     IN  IF owners = {}
         THEN UNCHANGED <<conn, jobs, ready>>
         ELSE \E c \in owners :
                LET k == Handle(c, e)
                IN  /\ conn' = [conn EXCEPT ![c] = k]
                    /\ jobs' = IF e.in /\ SubmitsLogin(c, conn[c]) THEN Append(jobs, c) ELSE jobs
                    /\ ready' = EdgesAfter(c, k)
  /\ UNCHANGED <<phase, mem, listenEdge, work, respList>>

(* _AcceptNewSocket: accept until nothing is pending or no descriptor is   *)
(* left; http_callback constructs the CHttpConn, and EPOLL_CTL_ADD makes   *)
(* the socket ready at once.                                               *)
AcceptOne(c) ==
  /\ phase = "events"
  /\ ListenEvent \in batch
  /\ c \in Backlog
  /\ \E f \in FreeFds, a \in FreeAddrs :
        /\ conn' = [conn EXCEPT ![c].st = "open", ![c].fd = f, ![c].addr = a]
        /\ mem' = [mem EXCEPT ![a] = c]
  /\ ready' = ready \cup {c}
  /\ UNCHANGED <<loopVars, listenEdge, jobs, work, respList>>

AcceptDone ==
  /\ phase = "events"
  /\ ListenEvent \in batch
  /\ Backlog = {} \/ FreeFds = {} \/ FreeAddrs = {}
  /\ batch' = batch \ {ListenEvent}
  /\ UNCHANGED <<conn, mem, phase, ready, listenEdge, jobs, work, respList>>

(* _CheckTimer has no timer to run: init_http_conn is never called.        *)
EventsDone ==
  /\ phase = "events"
  /\ batch = {}
  /\ phase' = "loop"
  /\ UNCHANGED <<conn, mem, batch, ready, listenEdge, jobs, work, respList>>

(* Mutant: the connection is found by its socket handle.                   *)
LookupByHandle(r) ==
  {c \in OpenConns : r.uuid # NoConn /\ conn[c].fd = conn[r.uuid].fd}

(* SendResponseDataList, one response per step: the mutex is released      *)
(* between them.  A uuid that is no longer in g_uuid_conn_map drops it.    *)
Lookup(r) == {c \in OpenConns : c = r.uuid}

(* Mutant: responses are also sent between two events.                     *)
SendResponseAnytime ==
  /\ phase \in {"events", "loop"}
  /\ respList # <<>>
  /\ respList' = Tail(respList)
  /\ \E c \in Lookup(Head(respList)) :
        /\ conn' = [conn EXCEPT ![c] = Sent(conn[c])]
        /\ ready' = EdgesAfter(c, Sent(conn[c]))
  /\ UNCHANGED <<mem, loopVars, listenEdge, jobs, work>>

SendResponse ==
  /\ phase = "loop"
  /\ respList # <<>>
  /\ respList' = Tail(respList)
  /\ LET found == Lookup(Head(respList))
     IN  IF found = {}
         THEN UNCHANGED <<conn, ready>>
         ELSE \E c \in found :
                LET k == Sent(conn[c])
                IN  /\ conn' = [conn EXCEPT ![c] = k]
                    /\ ready' = EdgesAfter(c, k)
  /\ UNCHANGED <<mem, loopVars, listenEdge, jobs, work>>

LoopDone ==
  /\ phase = "loop"
  /\ respList = <<>>
  /\ phase' = "wait"
  /\ UNCHANGED <<conn, mem, batch, ready, listenEdge, jobs, work, respList>>

-----------------------------------------------------------------------------
(* A worker of g_thread_pool runs _HandleLoginRequest.                     *)
TakeJob(w) ==
  /\ work[w] = NoConn
  /\ jobs # <<>>
  /\ work' = [work EXCEPT ![w] = Head(jobs)]
  /\ jobs' = Tail(jobs)
  /\ UNCHANGED <<conn, mem, loopVars, ready, listenEdge, respList>>

(* m_uuid is read when the answer is ready.  If the connection was closed  *)
(* in the meantime the object is freed memory: its bytes are still those   *)
(* of the object last constructed there, or something else.                *)
UuidSeen(c) == IF IsOpen(c) THEN {c} ELSE {mem[conn[c].addr], NoConn}

FinishJob(w) ==
  /\ work[w] # NoConn
  /\ \E u \in UuidSeen(work[w]) :
        respList' = Append(respList,
                           [uuid |-> u, owner |-> work[w], alive |-> IsOpen(work[w])])
  /\ work' = [work EXCEPT ![w] = NoConn]
  /\ UNCHANGED <<conn, mem, loopVars, ready, listenEdge, jobs>>

ClientStep(c) ==
  \/ Connect(c) \/ SendMore(c)
  \/ CloseByClient(c) \/ ResetByClient(c) \/ Drain(c)

LoopStep ==
  \/ EpollWait
  \/ \E e \in batch : ConnEvent(e)
  \/ \E c \in Conns : AcceptOne(c)
  \/ AcceptDone \/ EventsDone
  \/ SendResponse \/ LoopDone

WorkerStep(w) == TakeJob(w) \/ FinishJob(w)

Next ==
  \/ \E c \in Conns : ClientStep(c)
  \/ LoopStep
  \/ \E w \in Workers : WorkerStep(w)

(* The event loop and the workers run; a login ends; a client that has not *)
(* gone away reads what it is sent.                                        *)
Fairness ==
  /\ WF_vars(LoopStep)
  /\ \A w \in Workers : WF_vars(WorkerStep(w))
  /\ \A c \in Conns : WF_vars(Drain(c))

Spec == Init /\ [][Next]_vars /\ Fairness

-----------------------------------------------------------------------------
TypeOK ==
  /\ conn \in [Conns -> ConnType]
  /\ mem \in [Addrs -> Conns \cup {NoConn}]
  /\ phase \in {"wait", "events", "loop"}
  /\ \A e \in batch : e.who = NoConn \/ e.fd \in Fds
  /\ ready \subseteq OpenConns
  /\ listenEdge \in BOOLEAN
  /\ jobs \in Seq(LoginConns)
  /\ work \in [Workers -> LoginConns \cup {NoConn}]
  /\ respList \in Seq([uuid : Conns \cup {NoConn}, owner : LoginConns, alive : BOOLEAN])

(* An event is never delivered to another connection than the one it was   *)
(* reported for, although descriptors are reused and events carry only the *)
(* descriptor: a socket is closed during the events phase by its own event *)
(* only, and a batch has one event per socket.                             *)
NoStaleEvent ==
  \A e \in batch, c \in OpenConns : e.who # NoConn /\ conn[c].fd = e.fd => c = e.who

(* The server closes a connection only for a reason: the whole response    *)
(* went out, the client went away, or the request is refused.  No event    *)
(* that carries stale or missing data makes it drop a healthy client.      *)
CloseHasReason ==
  \A c \in Conns :
    conn[c].st = "closed" =>
      \/ conn[c].out = 0 /\ conn[c].delivered >= RespLen
      \/ conn[c].fin \/ conn[c].rst
      \/ Overlong(conn[c]) \/ c \in UnknownConns

(* An answer computed while its connection was alive reaches that          *)
(* connection or nobody, however descriptors and memory are reused before  *)
(* the event loop gets to it.                                              *)
AnswerToAsker ==
  [][\A c \in Conns :
       (SendResponse /\ conn'[c].delivered > conn[c].delivered /\ Head(respList).alive)
          => c = Head(respList).owner]_vars

(* A connection with unread data or a pending answer is never forgotten by *)
(* the edge-triggered loop: some thread still has something to do for it.  *)
NothingForgotten ==
  \A c \in OpenConns :
    (Avail(conn[c]) > 0 \/ conn[c].rst \/ (conn[c].busy /\ Space(conn[c]) > 0)) =>
      c \in ready \/ \E e \in batch : e.who = c

(* A complete request is answered or refused in the end: its connection    *)
(* does not stay open, whatever the client does after sending it.          *)
RequestEnds ==
  \A c \in Conns :
    (IsOpen(c) /\ conn[c].sent >= RequestLen) ~> conn[c].st = "closed"

-----------------------------------------------------------------------------
(* EventDispatch.cpp:377: on peer close the socket's OnClose is called and *)
(* releases the connection.                                                *)
PeerCloseReleases ==
  \A c \in Conns : (IsOpen(c) /\ conn[c].fin) ~> conn[c].st = "closed"
=============================================================================
