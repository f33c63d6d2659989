---------------------------- MODULE RequestPools ----------------------------
(***************************************************************************)
(* Requests on their way through the two connection pools.                 *)
(*                                                                         *)
(* The event loop and the workers serve requests.  A request is a sequence *)
(* of functions; each takes its connections from the MySQL pool and the    *)
(* Redis pool, one after the other and without a time limit, issues its    *)
(* commands, and returns them in the reverse order when the guards         *)
(* AUTO_REL_CACHECONN and AUTO_REL_DBCONN go out of scope.  So a thread    *)
(* waits in one pool while it holds a connection of the other.             *)
(*                                                                         *)
(* Both pools are instances of ConnLease, what a pool promises its callers *)
(* (ConnPool implements it): a thread waits as long as it cannot lease.    *)
(* What a Redis connection does is the module RedisConn.  MySQL is taken   *)
(* to be reachable.                                                        *)
(***************************************************************************)
EXTENDS Integers, Sequences, FiniteSets

CONSTANTS Threads,
          Loop,         \* the thread of the event loop; the others are workers
          DbConns, CacheConns,
          DbFirst, CacheFirst, \* connections that the pools' Init has created
          DbLimit, CacheLimit, \* <pool>_maxconncnt
          MaxRequests,  \* bound: requests of a thread
          MaxStops      \* bound: how often Redis stops

ASSUME RequestAssumption ==
  /\ IsFiniteSet(Threads) /\ Loop \in Threads
  /\ "nobody" \notin Threads /\ "pool" \notin Threads
  /\ IsFiniteSet(DbConns) /\ DbConns # {}
  /\ IsFiniteSet(CacheConns) /\ CacheConns # {}
  /\ DbFirst \subseteq DbConns /\ CacheFirst \subseteq CacheConns
  /\ DbLimit \in Nat \ {0} /\ CacheLimit \in Nat \ {0}
  /\ MaxRequests \in Nat /\ MaxStops \in Nat

VARIABLES
  dbOwner,     \* who has a connection of CDBPool "tuchuang_slave"
  cacheOwner,  \* who has a connection of CachePool "token"
  closed,      \* the pools are destroyed: never, the managers are not deleted
  server, ctx, recent, stops, calm, strikes, \* Redis, see RedisConn
  job,     \* the functions a thread still has to execute, the current one first
  phase,   \* "lease": takes its connections, "ready": CacheConn::Init has returned 0,
           \* "release": the command is over or the last connection is returned
  left,    \* requests a thread may still serve
  alive    \* the process runs

redisVars == <<server, ctx, recent, stops, calm, strikes>>
reqVars   == <<job, phase, left, alive>>
vars      == <<dbOwner, cacheOwner, closed, redisVars, reqVars>>

Db == INSTANCE ConnLease
  WITH Clients <- Threads, Conns <- DbConns, Limit <- DbLimit, MayClose <- FALSE,
       Nobody <- "nobody", Pool <- "pool", owner <- dbOwner

Cache == INSTANCE ConnLease
  WITH Clients <- Threads, Conns <- CacheConns, Limit <- CacheLimit, MayClose <- FALSE,
       Nobody <- "nobody", Pool <- "pool", owner <- cacheOwner

Redis == INSTANCE RedisConn

-----------------------------------------------------------------------------
(* What the functions take, in this order.                                 *)
VerifyToken == <<"cache">>
setToken    == <<"cache">>
ReadsMysql  == <<"db">>
Handler     == <<"db", "cache">>

(* Mutant: the last function of a login takes Redis first.                 *)
LoginRedisFirst == <<ReadsMysql, setToken, <<"cache", "db">>>>

(* A login, which a worker executes.                                       *)
Login == <<ReadsMysql, setToken, Handler>>

(* The other requests, which the event loop executes: upload and public    *)
(* lists, registration, everything with a token, and the download counter. *)
LoopRequests == {<<Handler>>, <<ReadsMysql>>, <<VerifyToken, Handler>>, <<VerifyToken, ReadsMysql>>}

Requests(t) == IF t = Loop THEN LoopRequests ELSE {Login}

Need(t) == Head(job[t])

Uses(t, pool) == (IF pool = "db" THEN Db!OwnedBy(t) ELSE Cache!OwnedBy(t)) # {}

(* The Redis connection a thread has.                                      *)
HeldContext(t) == CHOOSE k \in CacheConns : cacheOwner[k] = t

HoldsAll(t) == \A i \in DOMAIN Need(t) : Uses(t, Need(t)[i])

(* The pool is the first one that t needs and has not got.                 *)
Turn(t, pool) ==
  /\ alive /\ job[t] # <<>> /\ phase[t] = "lease"
  /\ \E i \in DOMAIN Need(t) :
       /\ Need(t)[i] = pool
       /\ ~Uses(t, pool)
       /\ \A j \in 1..(i - 1) : Uses(t, Need(t)[j])

(* The pools have created their first connections.                         *)
Init ==
  /\ Db!Init /\ Db!OwnedBy("pool") = DbFirst
  /\ Cache!Init /\ Cache!OwnedBy("pool") = CacheFirst
  /\ Redis!Init(CacheFirst)
  /\ job = [t \in Threads |-> <<>>]
  /\ phase = [t \in Threads |-> "lease"]
  /\ left = [t \in Threads |-> MaxRequests]
  /\ alive = TRUE

(* A request arrives: OnRead calls a handler, or a worker takes a login.   *)
Start(t) ==
  /\ alive /\ job[t] = <<>> /\ left[t] > 0
  /\ job' \in {[job EXCEPT ![t] = r] : r \in Requests(t)}
  /\ left' = [left EXCEPT ![t] = @ - 1]
  /\ UNCHANGED <<dbOwner, cacheOwner, closed, redisVars, phase, alive>>

-----------------------------------------------------------------------------
LeaseDb(t) ==
  /\ Turn(t, "db")
  /\ \E k \in DbConns : Db!Lease(t, k) \/ Db!Grow(t, k)
  /\ UNCHANGED <<cacheOwner, redisVars, reqVars>>

LeaseCache(t) ==
  /\ Turn(t, "cache")
  /\ \E k \in CacheConns :
       \/ Cache!Lease(t, k) /\ UNCHANGED redisVars
       \/ Cache!Grow(t, k) /\ Redis!Created(k)
  /\ UNCHANGED <<dbOwner, reqVars>>

(* The pool cannot grow, because the new connection's Init fails: callers  *)
(* get NULL.  VerifyToken and setToken report an error, which ends the     *)
(* request; a handler uses the pointer.                                    *)
GrowFails(t) ==
  /\ Turn(t, "cache")
  /\ \E k \in CacheConns : Cache!MayGrow(t, k)
  /\ server # "up"
  /\ IF Need(t) = Handler
     THEN alive' = FALSE /\ UNCHANGED job
     ELSE job' = [job EXCEPT ![t] = <<>>] /\ UNCHANGED alive
  /\ UNCHANGED <<dbOwner, cacheOwner, closed, redisVars, phase, left>>

-----------------------------------------------------------------------------
(* A function that has its connections may issue a command (bound: one; a  *)
(* connection carries its state to the next function): Init first,         *)
CommandInit(t) ==
  /\ alive /\ job[t] # <<>> /\ phase[t] = "lease"
  /\ HoldsAll(t) /\ Uses(t, "cache")
  /\ \/ Redis!InitOk(HeldContext(t)) /\ phase' = [phase EXCEPT ![t] = "ready"]
     \/ Redis!InitFails(HeldContext(t)) /\ phase' = [phase EXCEPT ![t] = "release"]
  /\ UNCHANGED <<dbOwner, cacheOwner, closed, job, left, alive>>

(* then the exchange with Redis.                                           *)
Exchange(t) ==
  /\ alive /\ phase[t] = "ready"
  /\ \/ Redis!Answered(HeldContext(t))
     \/ \E cmd \in Redis!Commands : Redis!Dropped(HeldContext(t), cmd) \/ Redis!Kept(HeldContext(t), cmd)
  /\ phase' = [phase EXCEPT ![t] = "release"]
  /\ UNCHANGED <<dbOwner, cacheOwner, closed, job, left, alive>>

ExchangeDies(t) ==
  /\ alive /\ phase[t] = "ready"
  /\ \E cmd \in Redis!Commands : Redis!Dies(HeldContext(t), cmd)
  /\ alive' = FALSE
  /\ UNCHANGED <<dbOwner, cacheOwner, closed, job, phase, left>>

(* The function returns: its guards give the connections back, the last    *)
(* one first.  After the last the request goes on or ends with an error.   *)
Release(t, pool) ==
  /\ alive /\ job[t] # <<>>
  /\ phase[t] = "release" \/ (phase[t] = "lease" /\ HoldsAll(t))
  /\ \E i \in DOMAIN Need(t) :
       /\ Need(t)[i] = pool
       /\ Uses(t, pool)
       /\ \A j \in (i + 1)..Len(Need(t)) : ~Uses(t, Need(t)[j])
       /\ IF i = 1
          THEN /\ job' \in {[job EXCEPT ![t] = Tail(@)], [job EXCEPT ![t] = <<>>]}
               /\ phase' = [phase EXCEPT ![t] = "lease"]
          ELSE /\ phase' = [phase EXCEPT ![t] = "release"]
               /\ UNCHANGED job
  /\ UNCHANGED <<redisVars, left, alive>>

ReleaseDb(t) ==
  /\ Release(t, "db")
  /\ \E k \in Db!OwnedBy(t) : Db!Return(k)
  /\ UNCHANGED cacheOwner

ReleaseCache(t) ==
  /\ Release(t, "cache")
  /\ Cache!Return(HeldContext(t))
  /\ UNCHANGED dbOwner

RedisStep == alive /\ Redis!ServerStep /\ UNCHANGED <<dbOwner, cacheOwner, closed, reqVars>>

(* What a thread does of itself once it serves a request.                  *)
Serve(t) ==
  \/ LeaseDb(t) \/ LeaseCache(t) \/ GrowFails(t)
  \/ CommandInit(t) \/ Exchange(t) \/ ExchangeDies(t)
  \/ ReleaseDb(t) \/ ReleaseCache(t)

Next ==
  \/ \E t \in Threads : Start(t) \/ Serve(t)
  \/ RedisStep

(* Threads are scheduled, and a pool serves a waiting thread when it can.  *)
Fairness == \A t \in Threads : WF_vars(Serve(t))

Safety == Init /\ [][Next]_vars
Spec   == Safety /\ Fairness

-----------------------------------------------------------------------------
TypeOK ==
  /\ dbOwner \in [DbConns -> Threads \cup {"nobody", "pool"}]
  /\ cacheOwner \in [CacheConns -> Threads \cup {"nobody", "pool"}]
  /\ closed = FALSE
  /\ Redis!TypeOK
  /\ phase \in [Threads -> {"lease", "ready", "release"}]
  /\ left \in [Threads -> 0..MaxRequests]
  /\ alive \in BOOLEAN
  /\ \A t \in Threads : job[t] = <<>> => Db!OwnedBy(t) = {} /\ Cache!OwnedBy(t) = {}

(* Between Init and the command the context exists and belongs to one      *)
(* thread: no other thread frees or replaces it.                           *)
ContextOwned ==
  \A t \in Threads : phase[t] = "ready" =>
    /\ Cache!OwnedBy(t) # {}
    /\ \A k \in Cache!OwnedBy(t) : ctx[k] # "none"

(* A connection finds back to Redis at the cost of one failing command:    *)
(* once Redis has been up for a second, the first command without an       *)
(* answer frees the context and the next one connects.  (The hget that     *)
(* fills a buffer may fail more often before.)                             *)
OneFailureAfterRestart == \A k \in CacheConns : strikes[k] <= 1

(* Threads hold a connection of one pool while they wait in the other, and *)
(* still no group of threads waits for each other: every request gets its  *)
(* connections and ends, whatever Redis does.                              *)
RequestsEnd == (\E t \in Threads : job[t] # <<>>) ~> (~alive \/ \A t \in Threads : job[t] = <<>>)
=============================================================================
