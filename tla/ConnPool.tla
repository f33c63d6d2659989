------------------------------ MODULE ConnPool ------------------------------
(***************************************************************************)
(* The connection pool of the server: CDBPool (mysql/DBPool.cpp) and, with *)
(* the same statements on its own fields, CachePool (redis/CachePool.cpp). *)
(*                                                                         *)
(* Every public operation runs under m_mutex, so one critical section is   *)
(* one step here.  The only places where the mutex is given up are the two *)
(* condition-variable waits of GetDBConn; they split that operation into   *)
(* falling asleep, being woken, and resuming with the mutex held again.    *)
(*                                                                         *)
(* Calls that return NULL without touching the pool (the pool is aborting, *)
(* or CDBConn::Init fails while growing) change nothing and are stuttering *)
(* steps of the caller.                                                    *)
(***************************************************************************)
EXTENDS Integers, Sequences, FiniteSets

CONSTANTS Clients,   \* threads that call the pool (event loop and workers)
          Conns,     \* connection objects that may ever be allocated
          NoConn,    \* a null CDBConn pointer
          MinConn,   \* MIN_DB_CONN_CNT / MIN_CACHE_CONN_CNT
          MaxConn,   \* <pool>_maxconncnt of tc_http_server.conf
          MayAbort   \* whether the destructor may run

(* The configured maximum may be below the built-in minimum: Init creates  *)
(* the minimum anyway and the pool then never grows.                       *)
Limit == IF MinConn > MaxConn THEN MinConn ELSE MaxConn

ASSUME PoolAssumption ==
  /\ IsFiniteSet(Clients)
  /\ IsFiniteSet(Conns)
  /\ NoConn \notin Conns
  /\ MinConn \in Nat \ {0}
  /\ MaxConn \in Nat
  /\ MayAbort \in BOOLEAN

VARIABLES freeList,      \* m_free_list, front first
          curConnCnt,    \* m_db_cur_conn_cnt
          abortRequest,  \* m_abort_request
          pc,            \* where each thread is in its pool call
          held,          \* the connection a thread got and has not returned
          timed          \* whether a waiting thread passed timeout_ms > 0

vars == <<freeList, curConnCnt, abortRequest, pc, held, timed>>

Elems(s) == {s[i] : i \in 1..Len(s)}

FreeConns == Elems(freeList)
HeldConns == {held[c] : c \in Clients} \ {NoConn}
Live      == FreeConns \cup HeldConns

Asleep == {c \in Clients : pc[c] = "asleep"}
Woken  == {c \in Clients : pc[c] = "woken"}

-----------------------------------------------------------------------------
(* CDBPool::Init has created the minimum number of connections.            *)
Init ==
  /\ \E s \in [1..MinConn -> Conns] :
        /\ \A i, j \in 1..MinConn : i # j => s[i] # s[j]
        /\ freeList = s
  /\ curConnCnt = MinConn
  /\ abortRequest = FALSE
  /\ pc = [c \in Clients |-> "idle"]
  /\ held = [c \in Clients |-> NoConn]
  /\ timed = [c \in Clients |-> FALSE]

(* Mutant: pop_front forgotten.                                            *)
TakeFrontKeepsIt(c) ==
  /\ freeList # <<>>
  /\ held' = [held EXCEPT ![c] = Head(freeList)]
  /\ freeList' = freeList
  /\ pc' = [pc EXCEPT ![c] = "using"]

(* The common tail of GetDBConn: pop the front and return it.              *)
TakeFront(c) ==
  /\ freeList # <<>>
  /\ held' = [held EXCEPT ![c] = Head(freeList)]
  /\ freeList' = Tail(freeList)
  /\ pc' = [pc EXCEPT ![c] = "using"]

GetFree(c) ==
  /\ pc[c] = "idle"
  /\ ~abortRequest
  /\ TakeFront(c)
  /\ UNCHANGED <<curConnCnt, abortRequest, timed>>

(* Mutant: m_db_cur_conn_cnt++ forgotten.                                  *)
GetNewUncounted(c) ==
  /\ pc[c] = "idle"
  /\ ~abortRequest
  /\ freeList = <<>>
  /\ curConnCnt < MaxConn
  /\ \E k \in Conns \ Live : held' = [held EXCEPT ![c] = k]
  /\ pc' = [pc EXCEPT ![c] = "using"]
  /\ UNCHANGED <<freeList, curConnCnt, abortRequest, timed>>

(* The list is empty and the pool may grow: the new connection is pushed   *)
(* and popped within the same critical section.                            *)
GetNew(c) ==
  /\ pc[c] = "idle"
  /\ ~abortRequest
  /\ freeList = <<>>
  /\ curConnCnt < MaxConn
  /\ \E k \in Conns \ Live : held' = [held EXCEPT ![c] = k]
  /\ curConnCnt' = curConnCnt + 1
  /\ pc' = [pc EXCEPT ![c] = "using"]
  /\ UNCHANGED <<freeList, abortRequest, timed>>

(* Mutant: waits whenever the pool is full, without looking at the list.   *)
GetWaitUnchecked(c, t) ==
  /\ pc[c] = "idle"
  /\ ~abortRequest
  /\ curConnCnt >= MaxConn
  /\ pc' = [pc EXCEPT ![c] = "asleep"]
  /\ timed' = [timed EXCEPT ![c] = t]
  /\ UNCHANGED <<freeList, curConnCnt, abortRequest, held>>

(* The list is empty and the pool is full: wait (timeout_ms <= 0) or       *)
(* wait_for (timeout_ms > 0).                                              *)
GetWait(c, t) ==
  /\ pc[c] = "idle"
  /\ ~abortRequest
  /\ freeList = <<>>
  /\ curConnCnt >= MaxConn
  /\ pc' = [pc EXCEPT ![c] = "asleep"]
  /\ timed' = [timed EXCEPT ![c] = t]
  /\ UNCHANGED <<freeList, curConnCnt, abortRequest, held>>

(* Condition variables may wake up without a notification.                 *)
SpuriousWakeup(c) ==
  /\ pc[c] = "asleep"
  /\ pc' = [pc EXCEPT ![c] = "woken"]
  /\ UNCHANGED <<freeList, curConnCnt, abortRequest, held, timed>>

(* The deadline of wait_for passes; the thread still needs the mutex.      *)
Timeout(c) ==
  /\ pc[c] = "asleep"
  /\ timed[c]
  /\ pc' = [pc EXCEPT ![c] = "expired"]
  /\ UNCHANGED <<freeList, curConnCnt, abortRequest, held, timed>>

(* Back with the mutex: the wait's predicate decides whether to proceed    *)
(* or to sleep again; an expired thread proceeds in any case.              *)
ResumeTake(c) ==
  /\ pc[c] \in {"woken", "expired"}
  /\ ~abortRequest
  /\ TakeFront(c)
  /\ timed' = [timed EXCEPT ![c] = FALSE]
  /\ UNCHANGED <<curConnCnt, abortRequest>>

ResumeNull(c) ==
  /\ \/ pc[c] \in {"woken", "expired"} /\ abortRequest
     \/ pc[c] = "expired" /\ freeList = <<>>
  /\ pc' = [pc EXCEPT ![c] = "idle"]
  /\ timed' = [timed EXCEPT ![c] = FALSE]
  /\ UNCHANGED <<freeList, curConnCnt, abortRequest, held>>

ResumeSleep(c) ==
  /\ pc[c] = "woken"
  /\ freeList = <<>>
  /\ ~abortRequest
  /\ pc' = [pc EXCEPT ![c] = "asleep"]
  /\ UNCHANGED <<freeList, curConnCnt, abortRequest, held, timed>>

Resume(c) == ResumeTake(c) \/ ResumeNull(c) \/ ResumeSleep(c)

(* Mutant: notify_one forgotten.                                           *)
NotifyNobody(c) == pc' = [pc EXCEPT ![c] = "idle"]

(* pc after a thread c has left its call and notify_one woke one sleeper.  *)
NotifyOne(c) ==
  IF Asleep = {}
  THEN pc' = [pc EXCEPT ![c] = "idle"]
  ELSE \E w \in Asleep : pc' = [pc EXCEPT ![c] = "idle", ![w] = "woken"]

(* RelDBConn, called by the AUTO_REL_DBCONN guard when a handler returns.  *)
(* A connection already in the list is not pushed again.                   *)
Rel(c) ==
  /\ pc[c] = "using"
  /\ IF held[c] \in FreeConns
     THEN /\ pc' = [pc EXCEPT ![c] = "idle"]
          /\ UNCHANGED freeList
     ELSE /\ freeList' = Append(freeList, held[c])
          /\ NotifyOne(c)
  /\ held' = [held EXCEPT ![c] = NoConn]
  /\ UNCHANGED <<curConnCnt, abortRequest, timed>>

(* ~CDBPool: raise the flag, wake everybody, delete the free connections.  *)
Abort ==
  /\ MayAbort
  /\ ~abortRequest
  /\ abortRequest' = TRUE
  /\ freeList' = <<>>
  /\ pc' = [c \in Clients |-> IF pc[c] = "asleep" THEN "woken" ELSE pc[c]]
  /\ UNCHANGED <<curConnCnt, held, timed>>

Next ==
  \/ \E c \in Clients :
        \/ GetFree(c) \/ GetNew(c)
        \/ \E t \in BOOLEAN : GetWait(c, t)
        \/ SpuriousWakeup(c) \/ Timeout(c)
        \/ ResumeTake(c) \/ ResumeNull(c) \/ ResumeSleep(c)
        \/ Rel(c)
  \/ Abort

(* A woken thread eventually gets the mutex, and a handler eventually      *)
(* returns its connection; nothing makes a thread call the pool, and       *)
(* wake-ups without a notification and timeouts need not happen.           *)
Fairness == \A c \in Clients : WF_vars(Resume(c)) /\ WF_vars(Rel(c))

Safety == Init /\ [][Next]_vars
Spec   == Safety /\ Fairness

-----------------------------------------------------------------------------
TypeOK ==
  /\ freeList \in Seq(Conns)
  /\ curConnCnt \in Nat
  /\ abortRequest \in BOOLEAN
  /\ pc \in [Clients -> {"idle", "asleep", "woken", "expired", "using"}]
  /\ held \in [Clients -> Conns \cup {NoConn}]
  /\ timed \in [Clients -> BOOLEAN]

(* A connection is in one place only: no two threads use it, it is not     *)
(* free while a thread uses it, and it is not twice in the free list.      *)
NoDuplicates == \A i, j \in 1..Len(freeList) : freeList[i] = freeList[j] => i = j
FreeNotHeld  == \A c \in Clients : held[c] \notin FreeConns
OneHolder    == \A c, d \in Clients :
                   held[c] # NoConn /\ held[c] = held[d] => c = d
ExclusiveConn == NoDuplicates /\ FreeNotHeld /\ OneHolder

(* m_db_cur_conn_cnt is what limits growth, and nothing else counts the    *)
(* connections handed out: it must equal the connections that exist, which *)
(* therefore never exceed the configured maximum.                          *)
ConnsAccounted ==
  /\ ~abortRequest => curConnCnt = Cardinality(Live)
  /\ Cardinality(Live) <= curConnCnt
  /\ curConnCnt >= MinConn /\ curConnCnt <= Limit

(* No lost wake-up: while somebody sleeps on m_cond_var, every connection  *)
(* in the free list has a notified thread on its way to it.  Growing never *)
(* notifies, and a released connection may be taken by a newcomer, so this *)
(* depends on every path that pushes and every path that sleeps.           *)
NoLostWakeup == Asleep # {} => Len(freeList) <= Cardinality(Woken)

(* A thread sleeps only when every connection of a full pool is taken or   *)
(* spoken for, hence some other thread will come back through RelDBConn.   *)
SleepersHaveReleaser ==
  Asleep # {} =>
    \E c \in Clients : pc[c] = "using" \/ (pc[c] = "woken" /\ freeList # <<>>)

(* Once a connection is free while a thread sleeps, the list is emptied by *)
(* somebody or the sleepers leave: a free connection and a waiting thread  *)
(* never face each other for ever.                                         *)
FreeConnReachesWaiter ==
  (freeList # <<>> /\ Asleep # {}) ~> (freeList = <<>> \/ Asleep = {})
=============================================================================
