-------------------------- MODULE RequestPoolsProofs --------------------------
(***************************************************************************)
(* Theorems about requests and their Redis connections, for any numbers of *)
(* threads, connections, requests and restarts of Redis.                   *)
(***************************************************************************)
EXTENDS RequestPools, FiniteSetTheorems, TLAPS

(* The part of the types that the proofs need.                             *)
Types ==
  /\ cacheOwner \in [CacheConns -> Threads \cup {"nobody", "pool"}]
  /\ phase \in [Threads -> {"lease", "ready", "release"}]
  /\ server \in {"up", "loading", "down"}
  /\ ctx \in [CacheConns -> {"none", "live", "dead"}]
  /\ recent \in [CacheConns -> BOOLEAN]
  /\ calm \in BOOLEAN
  /\ strikes \in [CacheConns -> 0..2]

(* A thread leases one Redis connection at a time.                         *)
OneLease == \A j, k \in CacheConns : cacheOwner[j] \in Threads /\ cacheOwner[j] = cacheOwner[k] => j = k

Calm ==
  /\ calm => server = "up" /\ \A k \in CacheConns : recent[k] => ctx[k] = "live"
  /\ ~calm => \A k \in CacheConns : strikes[k] = 0

(* After its one failing command a connection has no broken context.       *)
Struck == \A k \in CacheConns : strikes[k] <= 1 /\ (strikes[k] = 1 => ctx[k] # "dead")

IInv == Types /\ OneLease /\ ContextOwned /\ Calm /\ Struck

-----------------------------------------------------------------------------
LEMMA InitIInv == ASSUME Init PROVE IInv
<1>1. cacheOwner \in [CacheConns -> {"nobody", "pool"}]
  BY DEF Init, Cache!Init
<1>2. Types
  <2>1. /\ ctx \in [CacheConns -> {"none", "live", "dead"}] /\ recent \in [CacheConns -> BOOLEAN]
        /\ server = "up" /\ calm = FALSE /\ strikes = [k \in CacheConns |-> 0]
    BY DEF Init, Redis!Init
  <2>2. strikes \in [CacheConns -> 0..2]
    BY <2>1
  <2>3. phase \in [Threads -> {"lease", "ready", "release"}]
    BY DEF Init
  <2> QED BY <1>1, <2>1, <2>2, <2>3 DEF Types
<1>3. OneLease
  BY <1>1, RequestAssumption DEF OneLease
<1> QED BY <1>2, <1>3 DEF IInv, Init, Redis!Init, ContextOwned, Calm, Struck

(* The connection that HeldContext names, for a thread that has one.       *)
LEMMA HeldIs ==
  ASSUME OneLease, NEW t \in Threads, Cache!OwnedBy(t) # {}
  PROVE  /\ HeldContext(t) \in CacheConns /\ cacheOwner[HeldContext(t)] = t
         /\ Cache!OwnedBy(t) = {HeldContext(t)}
<1>1. \E k \in CacheConns : cacheOwner[k] = t
  BY DEF Cache!OwnedBy
<1>2. HeldContext(t) \in CacheConns /\ cacheOwner[HeldContext(t)] = t
  BY <1>1 DEF HeldContext
<1> QED BY <1>2 DEF Cache!OwnedBy, OneLease

-----------------------------------------------------------------------------
(* What Redis and the connections do on their own.                         *)
RedisInv ==
  /\ server \in {"up", "loading", "down"}
  /\ ctx \in [CacheConns -> {"none", "live", "dead"}]
  /\ recent \in [CacheConns -> BOOLEAN]
  /\ calm \in BOOLEAN
  /\ strikes \in [CacheConns -> 0..2]
  /\ Calm /\ Struck

(* No context disappears except that of connection k.                      *)
OnlyDrops(k) == \A j \in CacheConns : ctx[j] # "none" /\ ctx'[j] = "none" => j = k
NoneDrops    == \A j \in CacheConns : ctx[j] # "none" => ctx'[j] # "none"

LEMMA Stops ==
  ASSUME RedisInv, NEW contexts \in [CacheConns -> {"none", "live", "dead"}],
         \A j \in CacheConns : ctx[j] # "none" => contexts[j] # "none",
         Redis!Stop(contexts), recent' \in [CacheConns -> BOOLEAN]
  PROVE  RedisInv' /\ NoneDrops
<1>1. /\ server' = "down" /\ calm' = FALSE /\ strikes' = [k \in CacheConns |-> 0]
      /\ ctx' = [k \in CacheConns |-> IF contexts[k] = "live" THEN "dead" ELSE contexts[k]]
  BY DEF Redis!Stop
<1>2. ctx' \in [CacheConns -> {"none", "live", "dead"}] /\ NoneDrops
  BY <1>1 DEF NoneDrops
<1>3. strikes' \in [CacheConns -> 0..2]
  BY <1>1
<1>4. Calm' /\ Struck'
  BY <1>1 DEF Calm, Struck
<1> QED BY <1>1, <1>2, <1>3, <1>4 DEF RedisInv

LEMMA ServerSteps == ASSUME RedisInv, Redis!ServerStep PROVE RedisInv' /\ NoneDrops
<1>1. CASE Redis!ServerStops
  BY <1>1, Stops DEF Redis!ServerStops, RedisInv
<1>2. CASE Redis!ServerStarts
  BY <1>2 DEF Redis!ServerStarts, RedisInv, Calm, Struck, NoneDrops
<1>3. CASE Redis!ServerLoaded
  BY <1>3 DEF Redis!ServerLoaded, RedisInv, Calm, Struck, NoneDrops
<1>4. CASE Redis!Tick
  BY <1>4 DEF Redis!Tick, RedisInv, Calm, Struck, NoneDrops
<1> QED BY <1>1, <1>2, <1>3, <1>4 DEF Redis!ServerStep

(* CacheConn::Init: what it leaves is there, if it reports success.        *)
LEMMA InitSteps ==
  ASSUME RedisInv, NEW k \in CacheConns, Redis!InitOk(k) \/ Redis!InitFails(k)
  PROVE  /\ RedisInv' /\ NoneDrops
         /\ Redis!InitOk(k) => ctx'[k] # "none"
<1>1. CASE Redis!InitKept(k)
  BY <1>1 DEF Redis!InitKept, Redis!vars, RedisInv, Calm, Struck, NoneDrops
<1>2. CASE Redis!InitConnects(k)
  BY <1>2 DEF Redis!InitConnects, RedisInv, Calm, Struck, NoneDrops
<1>3. CASE Redis!InitTooSoon(k)
  <2>1. ~calm /\ strikes' = strikes
    BY <1>3 DEF Redis!InitTooSoon, Redis!Strike, RedisInv, Calm
  <2> QED BY <1>3, <2>1 DEF Redis!InitTooSoon, Redis!InitOk, Redis!InitKept, Redis!InitConnects,
             RedisInv, Calm, Struck, NoneDrops
<1>4. CASE Redis!InitRefused(k)
  <2>1. ~calm /\ strikes' = strikes
    BY <1>4 DEF Redis!InitRefused, Redis!Strike, RedisInv, Calm
  <2> QED BY <1>4, <2>1 DEF Redis!InitRefused, Redis!InitOk, Redis!InitKept, Redis!InitConnects,
             RedisInv, Calm, Struck, NoneDrops
<1>5. CASE Redis!InitSelectFails(k)
  <2>1. ~calm /\ strikes' = strikes
    BY <1>5 DEF Redis!InitSelectFails, Redis!Strike, RedisInv, Calm
  <2> QED BY <1>5, <2>1 DEF Redis!InitSelectFails, Redis!InitOk, Redis!InitKept, Redis!InitConnects,
             RedisInv, Calm, Struck, NoneDrops
<1>6. CASE Redis!InitSelectLost(k)
  <2> DEFINE contexts == [ctx EXCEPT ![k] = "live"]
  <2>1. /\ contexts \in [CacheConns -> {"none", "live", "dead"}]
        /\ \A j \in CacheConns : ctx[j] # "none" => contexts[j] # "none"
        /\ Redis!Stop(contexts) /\ recent' \in [CacheConns -> BOOLEAN]
    BY <1>6 DEF Redis!InitSelectLost, RedisInv
  <2>2. RedisInv' /\ NoneDrops
    BY <2>1, Stops
  <2>3. ctx'[k] # "none"
    BY <1>6 DEF Redis!InitSelectLost, Redis!Stop, RedisInv
  <2> QED BY <2>2, <2>3
<1> QED
  BY <1>1, <1>2, <1>3, <1>4, <1>5, <1>6 DEF Redis!InitOk, Redis!InitFails

(* The exchange: only the caller's own context may be freed.               *)
LEMMA ExchangeSteps ==
  ASSUME RedisInv, NEW k \in CacheConns,
         \/ Redis!Answered(k)
         \/ \E cmd \in Redis!Commands : Redis!Dropped(k, cmd) \/ Redis!Kept(k, cmd) \/ Redis!Dies(k, cmd)
  PROVE  RedisInv' /\ OnlyDrops(k)
<1>1. CASE UNCHANGED Redis!vars
  BY <1>1 DEF Redis!vars, RedisInv, Calm, Struck, OnlyDrops
<1>2. CASE \E cmd \in Redis!Commands : Redis!Dropped(k, cmd)
  <2>1. /\ ctx[k] = "dead" /\ ctx' = [ctx EXCEPT ![k] = "none"] /\ Redis!Strike(k)
        /\ UNCHANGED <<server, recent, stops, calm>>
    BY <1>2 DEF Redis!Dropped
  <2>2. strikes[k] = 0
    BY <2>1 DEF RedisInv, Struck
  <2>3. CASE calm
    <3>1. strikes' = [strikes EXCEPT ![k] = 1]
      BY <2>1, <2>2, <2>3 DEF Redis!Strike, RedisInv
    <3> QED BY <2>1, <2>3, <3>1 DEF RedisInv, Calm, Struck, OnlyDrops
  <2>4. CASE ~calm
    BY <2>1, <2>4 DEF Redis!Strike, RedisInv, Calm, Struck, OnlyDrops
  <2> QED BY <2>3, <2>4
<1> QED BY <1>1, <1>2 DEF Redis!Answered, Redis!Kept, Redis!Dies
-----------------------------------------------------------------------------
(* The lease of every thread but t, and what t's own steps leave.          *)
LEMMA OthersKeep ==
  ASSUME IInv, NEW t \in Threads, RedisInv', phase' \in [Threads -> {"lease", "ready", "release"}],
         cacheOwner' \in [CacheConns -> Threads \cup {"nobody", "pool"}], OneLease',
         \A u \in Threads \ {t} :
           /\ phase'[u] = "ready" => phase[u] = "ready"
           /\ \A k \in CacheConns : cacheOwner'[k] = u <=> cacheOwner[k] = u,
         \A k \in CacheConns : ctx[k] # "none" /\ ctx'[k] = "none" => cacheOwner[k] = t,
         phase'[t] = "ready" =>
           \E k \in CacheConns : cacheOwner'[k] = t /\ ctx'[k] # "none"
  PROVE  IInv'
<1>1. Types'
  BY DEF Types, RedisInv
<1>2. ContextOwned'
  <2> SUFFICES ASSUME NEW u \in Threads, phase'[u] = "ready"
               PROVE  /\ \E k \in CacheConns : cacheOwner'[k] = u
                      /\ \A k \in CacheConns : cacheOwner'[k] = u => ctx'[k] # "none"
    BY DEF ContextOwned, Cache!OwnedBy
  <2>1. CASE u = t
    BY <2>1 DEF OneLease
  <2>2. CASE u # t
    <3>1. /\ \E k \in CacheConns : cacheOwner[k] = u
          /\ \A k \in CacheConns : cacheOwner[k] = u => ctx[k] # "none"
      BY <2>2 DEF IInv, ContextOwned, Cache!OwnedBy
    <3> QED BY <2>2, <3>1
  <2> QED BY <2>1, <2>2
<1> QED BY <1>1, <1>2 DEF IInv, RedisInv

(* Steps that touch neither the Redis connections nor Redis.               *)
LEMMA QuietKeeps ==
  ASSUME IInv, NEW t \in Threads, UNCHANGED <<cacheOwner, redisVars>>,
         phase' = phase \/ \E p \in {"lease", "release"} : phase' = [phase EXCEPT ![t] = p]
  PROVE  IInv'
<1>1. Types' /\ OneLease' /\ Calm' /\ Struck'
  BY DEF IInv, Types, OneLease, Calm, Struck, redisVars
<1>2. \A u \in Threads : phase'[u] = "ready" => phase[u] = "ready"
  BY DEF IInv, Types
<1>3. ContextOwned'
  BY <1>2 DEF IInv, ContextOwned, Cache!OwnedBy, redisVars
<1> QED BY <1>1, <1>3 DEF IInv

LEMMA RedisOf == IInv => RedisInv
BY DEF IInv, RedisInv, Types

LEMMA LeaseCacheKeeps ==
  ASSUME IInv, NEW t \in Threads, LeaseCache(t) PROVE IInv'
<1>1. PICK k \in CacheConns : \/ Cache!Lease(t, k) /\ UNCHANGED redisVars
                              \/ Cache!Grow(t, k) /\ Redis!Created(k)
  BY DEF LeaseCache
<1>2. /\ cacheOwner' = [cacheOwner EXCEPT ![k] = t]
      /\ cacheOwner[k] \in {"nobody", "pool"} /\ Cache!OwnedBy(t) = {}
  BY <1>1 DEF Cache!Lease, Cache!Grow, Cache!MayGrow
<1>3. RedisInv' /\ NoneDrops
  <2>1. CASE UNCHANGED redisVars
    BY <2>1, RedisOf DEF redisVars, RedisInv, Calm, Struck, NoneDrops
  <2>2. CASE Redis!Created(k)
    BY <2>2, RedisOf, InitSteps DEF Redis!Created, Redis!InitOk
  <2> QED BY <1>1, <2>1, <2>2
<1>4. phase[t] = "lease" /\ phase' = phase
  BY DEF LeaseCache, Turn, reqVars
<1>5. \A u \in Threads \ {t} : \A j \in CacheConns : cacheOwner'[j] = u <=> cacheOwner[j] = u
  BY <1>2, RequestAssumption DEF IInv, Types
<1>6. OneLease'
  BY <1>2 DEF IInv, Types, OneLease, Cache!OwnedBy
<1>7. cacheOwner' \in [CacheConns -> Threads \cup {"nobody", "pool"}]
  BY <1>2 DEF IInv, Types
<1> QED BY <1>3, <1>4, <1>5, <1>6, <1>7, OthersKeep DEF IInv, Types, NoneDrops

LEMMA CommandInitKeeps ==
  ASSUME IInv, NEW t \in Threads, CommandInit(t) PROVE IInv'
<1>1. PICK k : k = HeldContext(t)
  OBVIOUS
<1>2. k \in CacheConns /\ cacheOwner[k] = t
  <2>1. Cache!OwnedBy(t) # {}
    BY DEF CommandInit, Uses
  <2> QED BY <1>1, <2>1, HeldIs DEF IInv
<1>3. \/ Redis!InitOk(k) /\ phase' = [phase EXCEPT ![t] = "ready"]
      \/ Redis!InitFails(k) /\ phase' = [phase EXCEPT ![t] = "release"]
  BY <1>1 DEF CommandInit
<1>4. RedisInv' /\ NoneDrops /\ (Redis!InitOk(k) => ctx'[k] # "none")
  BY <1>2, <1>3, InitSteps, RedisOf
<1>5. cacheOwner' = cacheOwner
  BY DEF CommandInit
<1>6. OneLease'
  BY <1>5 DEF IInv, OneLease
<1>7. /\ phase' \in [Threads -> {"lease", "ready", "release"}]
      /\ \A u \in Threads \ {t} : phase'[u] = phase[u]
      /\ phase'[t] = "ready" => Redis!InitOk(k)
  BY <1>3 DEF IInv, Types
<1> QED BY <1>2, <1>4, <1>5, <1>6, <1>7, OthersKeep DEF IInv, Types, NoneDrops

LEMMA ExchangeKeeps ==
  ASSUME IInv, NEW t \in Threads, Exchange(t) \/ ExchangeDies(t) PROVE IInv'
<1>1. PICK k : k = HeldContext(t)
  OBVIOUS
<1>2. k \in CacheConns /\ cacheOwner[k] = t
  <2>1. Cache!OwnedBy(t) # {}
    BY DEF Exchange, ExchangeDies, IInv, ContextOwned
  <2> QED BY <1>1, <2>1, HeldIs DEF IInv
<1>3. CASE Exchange(t)
  <2>1. /\ \/ Redis!Answered(k)
           \/ \E cmd \in Redis!Commands : Redis!Dropped(k, cmd) \/ Redis!Kept(k, cmd)
        /\ phase' = [phase EXCEPT ![t] = "release"] /\ cacheOwner' = cacheOwner
    BY <1>1, <1>3 DEF Exchange
  <2>2. RedisInv' /\ OnlyDrops(k)
    BY <1>2, <2>1, ExchangeSteps, RedisOf
  <2>3. OneLease'
    BY <2>1 DEF IInv, OneLease
  <2>4. /\ phase' \in [Threads -> {"lease", "ready", "release"}]
        /\ \A u \in Threads \ {t} : phase'[u] = phase[u]
        /\ phase'[t] # "ready"
    BY <2>1 DEF IInv, Types
  <2> QED BY <1>2, <2>1, <2>2, <2>3, <2>4, OthersKeep DEF IInv, Types, OnlyDrops
<1>4. CASE ExchangeDies(t)
  <2>1. UNCHANGED <<cacheOwner, redisVars>> /\ phase' = phase
    BY <1>4 DEF ExchangeDies, Redis!Dies, Redis!vars, redisVars
  <2> QED BY <2>1, QuietKeeps
<1> QED BY <1>3, <1>4

LEMMA ReleaseCacheKeeps ==
  ASSUME IInv, NEW t \in Threads, ReleaseCache(t) PROVE IInv'
<1>1. PICK k : k = HeldContext(t)
  OBVIOUS
<1>2. /\ phase' \in {[phase EXCEPT ![t] = "lease"], [phase EXCEPT ![t] = "release"]}
      /\ UNCHANGED redisVars
  BY DEF ReleaseCache, Release
<1>3. k \in CacheConns /\ cacheOwner[k] = t
  <2>1. Uses(t, "cache")
    BY DEF ReleaseCache, Release
  <2> QED BY <1>1, <2>1, HeldIs DEF IInv, Uses
<1>4. cacheOwner' = [cacheOwner EXCEPT ![k] = "pool"]
  BY <1>1 DEF ReleaseCache, Cache!Return
<1>5. /\ cacheOwner' \in [CacheConns -> Threads \cup {"nobody", "pool"}]
      /\ \A j \in CacheConns : cacheOwner'[j] = IF j = k THEN "pool" ELSE cacheOwner[j]
  BY <1>3, <1>4 DEF IInv, Types
<1>6. OneLease'
  BY <1>5, RequestAssumption DEF IInv, OneLease
<1>7. \A u \in Threads \ {t} : \A j \in CacheConns : cacheOwner'[j] = u <=> cacheOwner[j] = u
  BY <1>3, <1>5, RequestAssumption
<1>8. /\ phase' \in [Threads -> {"lease", "ready", "release"}]
      /\ \A u \in Threads \ {t} : phase'[u] = phase[u]
      /\ phase'[t] # "ready"
  BY <1>2 DEF IInv, Types
<1>9. RedisInv' /\ ctx' = ctx
  BY <1>2, RedisOf DEF RedisInv, Calm, Struck, redisVars
<1> QED BY <1>5, <1>6, <1>7, <1>8, <1>9, OthersKeep

LEMMA NextKeeps == ASSUME IInv, [Next]_vars PROVE IInv'
<1>1. PICK loop \in Threads : TRUE
  BY RequestAssumption
<1>2. CASE \E t \in Threads : Start(t)
  BY <1>2, QuietKeeps DEF Start
<1>3. CASE \E t \in Threads : LeaseDb(t)
  BY <1>3, QuietKeeps DEF LeaseDb, reqVars
<1>4. CASE \E t \in Threads : LeaseCache(t)
  BY <1>4, LeaseCacheKeeps
<1>5. CASE \E t \in Threads : GrowFails(t)
  BY <1>5, QuietKeeps DEF GrowFails
<1>6. CASE \E t \in Threads : CommandInit(t)
  BY <1>6, CommandInitKeeps
<1>7. CASE \E t \in Threads : Exchange(t) \/ ExchangeDies(t)
  BY <1>7, ExchangeKeeps
<1>8. CASE \E t \in Threads : ReleaseDb(t)
  <2>1. PICK t \in Threads : ReleaseDb(t)
    BY <1>8
  <2>2. /\ \E p \in {"lease", "release"} : phase' = [phase EXCEPT ![t] = p]
        /\ UNCHANGED <<cacheOwner, redisVars>>
    BY <2>1 DEF ReleaseDb, Release
  <2> QED BY <2>2, QuietKeeps
<1>9. CASE \E t \in Threads : ReleaseCache(t)
  BY <1>9, ReleaseCacheKeeps
<1>10. CASE RedisStep
  <2>1. RedisInv' /\ NoneDrops /\ cacheOwner' = cacheOwner /\ phase' = phase
    BY <1>10, ServerSteps, RedisOf DEF RedisStep, reqVars
  <2>2. \A t \in Threads : phase[t] = "ready" =>
          \E k \in CacheConns : cacheOwner'[k] = t /\ ctx'[k] # "none"
    BY <2>1 DEF IInv, ContextOwned, Cache!OwnedBy, NoneDrops
  <2>3. OneLease'
    BY <2>1 DEF IInv, OneLease
  <2> QED BY <1>1, <2>1, <2>2, <2>3, OthersKeep DEF IInv, Types, NoneDrops
<1>11. CASE UNCHANGED vars
  BY <1>1, <1>11, QuietKeeps DEF vars, reqVars
<1> QED
  BY <1>2, <1>3, <1>4, <1>5, <1>6, <1>7, <1>8, <1>9, <1>10, <1>11 DEF Next, Serve

(* The strengthened invariant holds in every reachable state.              *)
THEOREM Inductive == Spec => []IInv
<1>1. Init => IInv
  BY InitIInv
<1>2. IInv /\ [Next]_vars => IInv'
  BY NextKeeps
<1> QED BY <1>1, <1>2, PTL DEF Spec, Safety

(* Between CacheConn::Init and the command no other thread frees the       *)
(* context, whatever the pools, Redis and the clock do.                    *)
THEOREM ContextsAreOwned == Spec => []ContextOwned
<1>1. IInv => ContextOwned
  BY DEF IInv
<1> QED BY <1>1, Inductive, PTL

(* Once Redis has been up for a second, a connection fails one command at  *)
(* most before it is connected again.                                      *)
THEOREM OneFailureOnly == Spec => []OneFailureAfterRestart
<1>1. IInv => OneFailureAfterRestart
  BY DEF IInv, Struck, OneFailureAfterRestart
<1> QED BY <1>1, Inductive, PTL

-----------------------------------------------------------------------------
(* No group of threads waits for each other, although every one of them    *)
(* may hold a connection of one pool while it waits in the other.          *)

(* The guards of what a thread does next (Serve), written out: it takes a  *)
(* free connection or a new one, or the growing fails because Redis is     *)
(* down; it talks to Redis with a context; or it gives back what it took   *)
(* last.                                                                   *)
MayTakeDb(t) ==
  /\ Turn(t, "db")
  /\ \E k \in DbConns : dbOwner[k] = "pool" \/ Db!MayGrow(t, k)

MayTakeCache(t) ==
  /\ Turn(t, "cache")
  /\ \E k \in CacheConns :
       \/ cacheOwner[k] = "pool"
       \/ Cache!MayGrow(t, k) /\ (server = "up" => ctx[k] = "none" /\ ~recent[k])

MayTalk(t) == phase[t] = "ready" /\ \E k \in CacheConns : cacheOwner[k] = t /\ ctx[k] # "none"

MayReturn(t) ==
  /\ phase[t] = "release" \/ (phase[t] = "lease" /\ HoldsAll(t))
  /\ \E i \in DOMAIN Need(t) : Uses(t, Need(t)[i]) /\ \A j \in (i + 1)..Len(Need(t)) : ~Uses(t, Need(t)[j])

GoesOn(t) == job[t] # <<>> /\ (MayTakeDb(t) \/ MayTakeCache(t) \/ MayTalk(t) \/ MayReturn(t))

NoCircle == alive /\ (\E t \in Threads : job[t] # <<>>) => \E t \in Threads : GoesOn(t)

Functions == {VerifyToken, ReadsMysql, Handler}

HasDb(t)    == \E k \in DbConns : dbOwner[k] = t
HasCache(t) == \E k \in CacheConns : cacheOwner[k] = t

(* What a thread holds fits its function and its phase: MySQL first.       *)
Fits(t) ==
  LET f == Head(job[t]) IN
  /\ HasDb(t) => f # VerifyToken
  /\ HasCache(t) => f # ReadsMysql /\ (f = Handler => HasDb(t))
  /\ phase[t] = "ready" => HasCache(t)
  /\ phase[t] = "release" => HasDb(t) \/ HasCache(t)

Idle(t) == ~HasDb(t) /\ ~HasCache(t) /\ phase[t] = "lease"

InOrder == \A t \in Threads : IF job[t] = <<>> THEN Idle(t) ELSE Fits(t)

OneDb == \A j, k \in DbConns : dbOwner[j] \in Threads /\ dbOwner[j] = dbOwner[k] => j = k

(* A connection that does not exist has never been connected.              *)
Unborn == \A k \in CacheConns : cacheOwner[k] = "nobody" => ctx[k] = "none" /\ ~recent[k]

Jobs ==
  /\ dbOwner \in [DbConns -> Threads \cup {"nobody", "pool"}]
  /\ job \in [Threads -> Seq(Functions)]
  /\ closed = FALSE

JInv == Jobs /\ OneDb /\ Unborn /\ InOrder

LEMMA Different == VerifyToken # ReadsMysql /\ VerifyToken # Handler /\ ReadsMysql # Handler
<1>1. VerifyToken[1] = "cache" /\ ReadsMysql[1] = "db" /\ Handler[1] = "db"
  BY DEF VerifyToken, ReadsMysql, Handler
<1>2. Len(ReadsMysql) = 1 /\ Len(Handler) = 2
  BY DEF ReadsMysql, Handler
<1> QED BY <1>1, <1>2

LEMMA UsesIs == \A t : /\ Uses(t, "db") <=> HasDb(t)
                       /\ Uses(t, "cache") <=> HasCache(t)
BY DEF Uses, HasDb, HasCache, Db!OwnedBy, Cache!OwnedBy

(* Turn, HoldsAll and the order of the returns, function by function.      *)
LEMMA TurnIs ==
  ASSUME Jobs, NEW t \in Threads, job[t] # <<>>
  PROVE  /\ Need(t) \in Functions
         /\ Turn(t, "db") <=> /\ alive /\ phase[t] = "lease" /\ ~HasDb(t)
                              /\ Need(t) \in {ReadsMysql, Handler}
         /\ Turn(t, "cache") <=> /\ alive /\ phase[t] = "lease" /\ ~HasCache(t)
                                 /\ Need(t) = VerifyToken \/ (Need(t) = Handler /\ HasDb(t))
         /\ HoldsAll(t) <=> /\ Need(t) \in {ReadsMysql, Handler} => HasDb(t)
                            /\ Need(t) \in {VerifyToken, Handler} => HasCache(t)
<1>1. Need(t) \in Functions
  BY DEF Jobs, Need
<1>2. CASE Need(t) = VerifyToken
  <2>1. DOMAIN Need(t) = {1} /\ Need(t)[1] = "cache"
    BY <1>2 DEF VerifyToken
  <2> QED BY <1>1, <1>2, <2>1, UsesIs, Different DEF Turn, HoldsAll
<1>3. CASE Need(t) = ReadsMysql
  <2>1. DOMAIN Need(t) = {1} /\ Need(t)[1] = "db"
    BY <1>3 DEF ReadsMysql
  <2> QED BY <1>1, <1>3, <2>1, UsesIs, Different DEF Turn, HoldsAll
<1>4. CASE Need(t) = Handler
  <2>1. DOMAIN Need(t) = {1, 2} /\ Need(t)[1] = "db" /\ Need(t)[2] = "cache"
    BY <1>4 DEF Handler
  <2> QED BY <1>1, <1>4, <2>1, UsesIs, Different DEF Turn, HoldsAll
<1> QED BY <1>1, <1>2, <1>3, <1>4 DEF Functions

LEMMA InitJInv == ASSUME Init PROVE JInv
<1>1. dbOwner \in [DbConns -> {"nobody", "pool"}] /\ closed = FALSE
  BY DEF Init, Db!Init
<1>2. cacheOwner \in [CacheConns -> {"nobody", "pool"}]
  BY DEF Init, Cache!Init
<1>3. job = [t \in Threads |-> <<>>] /\ phase = [t \in Threads |-> "lease"]
  BY DEF Init
<1>4. Jobs /\ OneDb
  <2>1. <<>> \in Seq(Functions)
    OBVIOUS
  <2> QED BY <1>1, <1>3, <2>1, RequestAssumption DEF Jobs, OneDb
<1>5. Unborn
  <2>1. /\ ctx = [k \in CacheConns |-> IF k \in CacheFirst THEN "live" ELSE "none"]
        /\ recent = [k \in CacheConns |-> k \in CacheFirst]
    BY DEF Init, Redis!Init
  <2>2. \A k \in CacheFirst : cacheOwner[k] = "pool"
    BY DEF Init, Cache!OwnedBy
  <2> QED BY <2>1, <2>2 DEF Unborn
<1>6. InOrder
  BY <1>1, <1>2, <1>3, RequestAssumption DEF InOrder, Idle, HasDb, HasCache
<1> QED BY <1>4, <1>5, <1>6 DEF JInv

(* A step of t: what the other threads hold fits as before.                *)
LEMMA Local ==
  ASSUME InOrder, NEW t \in Threads,
         \A u \in Threads \ {t} : /\ job'[u] = job[u] /\ phase'[u] = phase[u]
                                  /\ HasDb(u)' <=> HasDb(u)
                                  /\ HasCache(u)' <=> HasCache(u),
         IF job'[t] = <<>> THEN Idle(t)' ELSE Fits(t)'
  PROVE  InOrder'
<1> SUFFICES ASSUME NEW u \in Threads PROVE IF job'[u] = <<>> THEN Idle(u)' ELSE Fits(u)'
  BY DEF InOrder
<1>1. CASE u = t
  BY <1>1
<1>2. CASE u # t
  <2>1. /\ job'[u] = job[u] /\ phase'[u] = phase[u]
        /\ HasDb(u)' <=> HasDb(u)
        /\ HasCache(u)' <=> HasCache(u)
    BY <1>2
  <2>2. IF job[u] = <<>> THEN Idle(u) ELSE Fits(u)
    BY DEF InOrder
  <2> HIDE DEF HasDb, HasCache
  <2> QED BY <2>1, <2>2 DEF Idle, Fits
<1> QED BY <1>1, <1>2

LEMMA DbMoves ==
  ASSUME Jobs, NEW k \in DbConns, NEW o, dbOwner' = [dbOwner EXCEPT ![k] = o],
         NEW u \in Threads, u # o, u # dbOwner[k]
  PROVE  HasDb(u)' <=> HasDb(u)
BY DEF Jobs, HasDb

LEMMA CacheMoves ==
  ASSUME Types, NEW k \in CacheConns, NEW o, cacheOwner' = [cacheOwner EXCEPT ![k] = o],
         NEW u \in Threads, u # o, u # cacheOwner[k]
  PROVE  HasCache(u)' <=> HasCache(u)
BY DEF Types, HasCache

LEMMA StartKeeps == ASSUME JInv, Types, NEW t \in Threads, Start(t) PROVE JInv'
<1>1. PICK r \in Requests(t) : job' = [job EXCEPT ![t] = r]
  BY DEF Start
<1>2. job[t] = <<>> /\ UNCHANGED <<dbOwner, cacheOwner, closed, redisVars, phase>>
  BY DEF Start
<1>3. r \in Seq(Functions) /\ r # <<>>
  <2> DEFINE F == Functions
  <2>1. VerifyToken \in F /\ ReadsMysql \in F /\ setToken \in F /\ Handler \in F
    BY DEF Functions, setToken, VerifyToken
  <2>2. r \in {Login, <<Handler>>, <<ReadsMysql>>, <<VerifyToken, Handler>>, <<VerifyToken, ReadsMysql>>}
    BY <1>1 DEF Requests, LoopRequests
  <2> HIDE DEF F
  <2>3. /\ \A a \in F : <<a>> \in Seq(F)
        /\ \A a, b \in F : <<a, b>> \in Seq(F)
        /\ \A a, b, d \in F : <<a, b, d>> \in Seq(F)
    OBVIOUS
  <2>4. /\ <<Handler>> \in Seq(F) /\ <<ReadsMysql>> \in Seq(F)
        /\ <<VerifyToken, Handler>> \in Seq(F) /\ <<VerifyToken, ReadsMysql>> \in Seq(F)
        /\ Login \in Seq(F)
    BY <2>1, <2>3, Zenon DEF Login
  <2>5. /\ <<Handler>> # <<>> /\ <<ReadsMysql>> # <<>>
        /\ <<VerifyToken, Handler>> # <<>> /\ <<VerifyToken, ReadsMysql>> # <<>>
        /\ Login # <<>>
    BY DEF Login
  <2>6. r \in Seq(F) /\ r # <<>>
    BY <2>2, <2>4, <2>5, Zenon
  <2> QED BY <2>6 DEF F
<1>4. Jobs'
  BY <1>1, <1>2, <1>3 DEF JInv, Jobs
<1>5. \A u \in Threads : /\ phase'[u] = phase[u]
                         /\ HasDb(u)' <=> HasDb(u)
                         /\ HasCache(u)' <=> HasCache(u)
  BY <1>2 DEF HasDb, HasCache
<1>6. Idle(t) /\ job'[t] = r /\ \A u \in Threads \ {t} : job'[u] = job[u]
  BY <1>1, <1>2 DEF JInv, Jobs, InOrder
<1>7. Fits(t)'
  BY <1>5, <1>6 DEF Idle, Fits
<1>8. InOrder'
  BY <1>3, <1>5, <1>6, <1>7, Local DEF JInv
<1>9. OneDb' /\ Unborn'
  BY <1>2 DEF JInv, OneDb, Unborn, redisVars
<1> QED BY <1>4, <1>8, <1>9 DEF JInv

LEMMA LeaseDbKeeps == ASSUME JInv, Types, NEW t \in Threads, LeaseDb(t) PROVE JInv'
<1>1. PICK k \in DbConns : Db!Lease(t, k) \/ Db!Grow(t, k)
  BY DEF LeaseDb
<1>2. /\ dbOwner[k] \in {"nobody", "pool"} /\ dbOwner' = [dbOwner EXCEPT ![k] = t] /\ closed' = closed
  BY <1>1 DEF Db!Lease, Db!Grow, Db!MayGrow
<1>3. UNCHANGED <<cacheOwner, redisVars, job, phase>> /\ Turn(t, "db")
  BY DEF LeaseDb, reqVars
<1>4. Jobs /\ job[t] # <<>> /\ Fits(t)
  BY <1>3 DEF JInv, InOrder, Turn
<1>5. ~HasDb(t) /\ Need(t) \in {ReadsMysql, Handler} /\ phase[t] = "lease"
  BY <1>3, <1>4, TurnIs
<1>6. \A u \in Threads \ {t} : HasDb(u)' <=> HasDb(u)
  BY <1>2, <1>4, DbMoves, RequestAssumption
<1>7. HasDb(t)' /\ \A u \in Threads : HasCache(u)' <=> HasCache(u)
  BY <1>2, <1>3, <1>4 DEF HasDb, HasCache, Jobs
<1>8. Fits(t)'
  BY <1>3, <1>4, <1>5, <1>7, Different DEF Fits, Need
<1>9. InOrder'
  BY <1>3, <1>4, <1>6, <1>7, <1>8, Local DEF JInv
<1>10. Jobs' /\ OneDb'
  BY <1>2, <1>3, <1>4, <1>5 DEF JInv, Jobs, OneDb, HasDb
<1>11. Unborn'
  BY <1>3 DEF JInv, Unborn, redisVars
<1> QED BY <1>9, <1>10, <1>11 DEF JInv

LEMMA LeaseCacheOrders == ASSUME JInv, Types, NEW t \in Threads, LeaseCache(t) PROVE JInv'
<1>1. PICK k \in CacheConns : \/ Cache!Lease(t, k) /\ UNCHANGED redisVars
                              \/ Cache!Grow(t, k) /\ Redis!Created(k)
  BY DEF LeaseCache
<1>2. /\ cacheOwner[k] \in {"nobody", "pool"} /\ cacheOwner' = [cacheOwner EXCEPT ![k] = t] /\ closed' = closed
  BY <1>1 DEF Cache!Lease, Cache!Grow, Cache!MayGrow
<1>3. UNCHANGED <<dbOwner, job, phase>> /\ Turn(t, "cache")
  BY DEF LeaseCache, reqVars
<1>4. Jobs /\ job[t] # <<>> /\ Fits(t)
  BY <1>3 DEF JInv, InOrder, Turn
<1>5. ~HasCache(t) /\ phase[t] = "lease" /\ (Need(t) = VerifyToken \/ (Need(t) = Handler /\ HasDb(t)))
  BY <1>3, <1>4, TurnIs
<1>6. \A u \in Threads \ {t} : HasCache(u)' <=> HasCache(u)
  BY <1>2, CacheMoves, RequestAssumption
<1>7. HasCache(t)' /\ \A u \in Threads : HasDb(u)' <=> HasDb(u)
  BY <1>2, <1>3 DEF HasDb, HasCache, Types
<1>8. Fits(t)'
  BY <1>3, <1>4, <1>5, <1>7, Different DEF Fits, Need
<1>9. InOrder'
  BY <1>3, <1>4, <1>6, <1>7, <1>8, Local DEF JInv
<1>10. Jobs' /\ OneDb'
  BY <1>2, <1>3, <1>4 DEF JInv, Jobs, OneDb
<1>11. Unborn'
  <2>1. \A j \in CacheConns \ {k} : ctx'[j] = ctx[j] /\ recent'[j] = recent[j]
    BY <1>1 DEF Redis!Created, Redis!InitConnects, redisVars, Types
  <2> QED BY <1>2, <2>1, RequestAssumption DEF JInv, Unborn, Types
<1> QED BY <1>9, <1>10, <1>11 DEF JInv

LEMMA GrowFailsKeeps == ASSUME JInv, Types, NEW t \in Threads, GrowFails(t) PROVE JInv'
<1>1. UNCHANGED <<dbOwner, cacheOwner, closed, redisVars, phase>> /\ Turn(t, "cache")
  BY DEF GrowFails
<1>2. Jobs /\ job[t] # <<>> /\ Fits(t)
  BY <1>1 DEF JInv, InOrder, Turn
<1>3. \A u \in Threads : /\ phase'[u] = phase[u]
                         /\ HasDb(u)' <=> HasDb(u)
                         /\ HasCache(u)' <=> HasCache(u)
  BY <1>1 DEF HasDb, HasCache
<1>4. OneDb' /\ Unborn'
  BY <1>1 DEF JInv, OneDb, Unborn, redisVars
<1>5. CASE Need(t) = Handler
  <2>1. job' = job
    BY <1>5 DEF GrowFails
  <2>2. Fits(t)'
    BY <1>2, <1>3, <2>1 DEF Fits
  <2>3. InOrder'
    BY <1>2, <1>3, <2>1, <2>2, Local DEF JInv
  <2> QED BY <1>1, <1>2, <1>4, <2>1, <2>3 DEF JInv, Jobs
<1>6. CASE Need(t) # Handler
  <2>1. job' = [job EXCEPT ![t] = <<>>]
    BY <1>6 DEF GrowFails
  <2>2. ~HasCache(t) /\ Need(t) = VerifyToken /\ phase[t] = "lease"
    BY <1>1, <1>2, <1>6, TurnIs
  <2>3. ~HasDb(t)
    BY <1>2, <2>2 DEF Fits, Need
  <2>4. Idle(t)'
    BY <1>3, <2>2, <2>3 DEF Idle
  <2>5. Jobs' /\ job'[t] = <<>> /\ \A u \in Threads \ {t} : job'[u] = job[u]
    BY <1>1, <1>2, <2>1 DEF Jobs
  <2>6. InOrder'
    BY <1>3, <2>4, <2>5, Local DEF JInv
  <2> QED BY <1>4, <2>5, <2>6 DEF JInv
<1> QED BY <1>5, <1>6

(* The command of t may change only what is known of its own connection.   *)
LEMMA OwnOnly ==
  ASSUME Types, NEW k \in CacheConns,
         \/ Redis!InitOk(k) \/ Redis!InitFails(k) \/ Redis!Answered(k)
         \/ \E cmd \in Redis!Commands : Redis!Dropped(k, cmd) \/ Redis!Kept(k, cmd)
  PROVE  \A j \in CacheConns \ {k} : (ctx[j] = "none" => ctx'[j] = "none") /\ (recent'[j] => recent[j])
<1>1. CASE Redis!InitOk(k)
  BY <1>1 DEF Types, Redis!InitOk, Redis!InitKept, Redis!InitConnects, Redis!vars
<1>2. CASE Redis!InitTooSoon(k) \/ Redis!InitRefused(k) \/ Redis!InitSelectFails(k)
  BY <1>2 DEF Types, Redis!InitTooSoon, Redis!InitRefused, Redis!InitSelectFails
<1>3. CASE Redis!InitSelectLost(k)
  BY <1>3 DEF Types, Redis!InitSelectLost, Redis!Stop
<1>4. CASE Redis!Answered(k) \/ \E cmd \in Redis!Commands : Redis!Kept(k, cmd)
  BY <1>4 DEF Redis!Answered, Redis!Kept, Redis!vars
<1>5. CASE \E cmd \in Redis!Commands : Redis!Dropped(k, cmd)
  BY <1>5 DEF Types, Redis!Dropped
<1> QED BY <1>1, <1>2, <1>3, <1>4, <1>5 DEF Redis!InitFails

LEMMA CommandKeeps ==
  ASSUME JInv, IInv, NEW t \in Threads, CommandInit(t) \/ Exchange(t)
  PROVE  JInv'
<1>1. Types /\ phase[t] = "ready" => HasCache(t)
  BY DEF IInv, ContextOwned, HasCache, Cache!OwnedBy
<1>2. PICK k : k = HeldContext(t)
  OBVIOUS
<1>3. HasCache(t) /\ UNCHANGED <<dbOwner, cacheOwner, closed, job>>
  BY <1>1, UsesIs DEF CommandInit, Exchange, IInv
<1>4. k \in CacheConns /\ cacheOwner[k] = t
  BY <1>2, <1>3, HeldIs DEF IInv, HasCache, Cache!OwnedBy
<1>5. \A j \in CacheConns \ {k} : (ctx[j] = "none" => ctx'[j] = "none") /\ (recent'[j] => recent[j])
  BY <1>2, <1>4, OwnOnly DEF IInv, CommandInit, Exchange
<1>6. Unborn'
  BY <1>3, <1>4, <1>5, RequestAssumption DEF JInv, Unborn
<1>7. phase' \in {[phase EXCEPT ![t] = "ready"], [phase EXCEPT ![t] = "release"]}
  BY DEF CommandInit, Exchange
<1>8. job[t] # <<>> /\ Fits(t)
  BY <1>3 DEF JInv, InOrder, Idle
<1>9. \A u \in Threads : HasDb(u)' = HasDb(u) /\ HasCache(u)' = HasCache(u)
  BY <1>3 DEF HasDb, HasCache
<1>10. Fits(t)'
  BY <1>3, <1>7, <1>8, <1>9 DEF Fits
<1>11. InOrder'
  BY <1>3, <1>7, <1>8, <1>9, <1>10, Local DEF JInv, IInv, Types
<1>12. Jobs' /\ OneDb'
  BY <1>3 DEF JInv, Jobs, OneDb
<1> QED BY <1>6, <1>11, <1>12 DEF JInv

(* Which connection a function gives back, and what follows.               *)
LEMMA ReturnIs ==
  ASSUME Jobs, NEW t \in Threads, NEW pool \in {"db", "cache"}, Release(t, pool)
  PROVE  /\ job[t] # <<>> /\ UNCHANGED <<redisVars>>
         /\ \/ /\ pool = "db" /\ HasDb(t)
               /\ Need(t) = ReadsMysql \/ (Need(t) = Handler /\ ~HasCache(t))
               /\ job' \in {[job EXCEPT ![t] = Tail(job[t])], [job EXCEPT ![t] = <<>>]}
               /\ phase' = [phase EXCEPT ![t] = "lease"]
            \/ /\ pool = "cache" /\ HasCache(t) /\ Need(t) = VerifyToken
               /\ job' \in {[job EXCEPT ![t] = Tail(job[t])], [job EXCEPT ![t] = <<>>]}
               /\ phase' = [phase EXCEPT ![t] = "lease"]
            \/ /\ pool = "cache" /\ HasCache(t) /\ Need(t) = Handler
               /\ job' = job /\ phase' = [phase EXCEPT ![t] = "release"]
<1>1. job[t] # <<>> /\ UNCHANGED redisVars
  BY DEF Release
<1>2. Need(t) \in Functions
  BY <1>1, TurnIs
<1>3. PICK i \in DOMAIN Need(t) :
        /\ Need(t)[i] = pool
        /\ Uses(t, pool)
        /\ \A j \in (i + 1)..Len(Need(t)) : ~Uses(t, Need(t)[j])
        /\ i = 1 => /\ job' \in {[job EXCEPT ![t] = Tail(job[t])], [job EXCEPT ![t] = <<>>]}
                    /\ phase' = [phase EXCEPT ![t] = "lease"]
        /\ i # 1 => phase' = [phase EXCEPT ![t] = "release"] /\ job' = job
  BY DEF Release
<1>4. CASE Need(t) = VerifyToken
  <2>1. i = 1 /\ Need(t)[1] = "cache"
    BY <1>3, <1>4 DEF VerifyToken
  <2> QED BY <1>1, <1>3, <1>4, <2>1, UsesIs
<1>5. CASE Need(t) = ReadsMysql
  <2>1. i = 1 /\ Need(t)[1] = "db"
    BY <1>3, <1>5 DEF ReadsMysql
  <2> QED BY <1>1, <1>3, <1>5, <2>1, UsesIs
<1>6. CASE Need(t) = Handler
  <2>1. i \in {1, 2} /\ Need(t)[1] = "db" /\ Need(t)[2] = "cache" /\ Len(Need(t)) = 2
    BY <1>3, <1>6 DEF Handler
  <2>2. CASE i = 1
    <3>1. ~Uses(t, "cache")
      BY <1>3, <2>1, <2>2
    <3> QED BY <1>1, <1>3, <1>6, <2>1, <2>2, <3>1, UsesIs
  <2>3. CASE i = 2
    BY <1>1, <1>3, <1>6, <2>1, <2>3, UsesIs
  <2> QED BY <2>1, <2>2, <2>3
<1> QED BY <1>2, <1>4, <1>5, <1>6 DEF Functions

(* The function is over: nothing is held.                                  *)
LEMMA FunctionEnds ==
  ASSUME Jobs, Types, NEW t \in Threads, job[t] # <<>>,
         job' \in {[job EXCEPT ![t] = Tail(job[t])], [job EXCEPT ![t] = <<>>]},
         phase' = [phase EXCEPT ![t] = "lease"], ~HasDb(t)', ~HasCache(t)'
  PROVE  /\ job' \in [Threads -> Seq(Functions)]
         /\ IF job'[t] = <<>> THEN Idle(t)' ELSE Fits(t)'
         /\ \A u \in Threads \ {t} : job'[u] = job[u] /\ phase'[u] = phase[u]
<1>1. job' \in [Threads -> Seq(Functions)]
  <2>1. Tail(job[t]) \in Seq(Functions) /\ <<>> \in Seq(Functions)
    BY DEF Jobs
  <2> QED BY <2>1 DEF Jobs
<1>2. phase'[t] = "lease" /\ \A u \in Threads \ {t} : job'[u] = job[u] /\ phase'[u] = phase[u]
  BY DEF Jobs, Types
<1>3. Idle(t)' /\ Fits(t)'
  BY <1>2 DEF Idle, Fits
<1> QED BY <1>1, <1>2, <1>3

LEMMA ReleaseDbOrders == ASSUME JInv, Types, NEW t \in Threads, ReleaseDb(t) PROVE JInv'
<1>1. Release(t, "db") /\ cacheOwner' = cacheOwner /\ Jobs
  BY DEF ReleaseDb, JInv
<1>2. PICK k \in DbConns : dbOwner[k] = t /\ dbOwner' = [dbOwner EXCEPT ![k] = "pool"] /\ closed' = closed
  BY DEF ReleaseDb, Db!OwnedBy, Db!Return
<1>3. /\ job[t] # <<>> /\ UNCHANGED redisVars
      /\ Need(t) = ReadsMysql \/ (Need(t) = Handler /\ ~HasCache(t))
      /\ job' \in {[job EXCEPT ![t] = Tail(job[t])], [job EXCEPT ![t] = <<>>]}
      /\ phase' = [phase EXCEPT ![t] = "lease"]
  BY <1>1, ReturnIs
<1>4. ~HasCache(t)
  <2>1. Fits(t)
    BY <1>3 DEF JInv, InOrder
  <2> QED BY <1>3, <2>1 DEF Fits, Need
<1>5. ~HasDb(t)'
  BY <1>1, <1>2, RequestAssumption DEF JInv, OneDb, Jobs, HasDb
<1>6. \A u \in Threads \ {t} : HasDb(u)' <=> HasDb(u)
  BY <1>1, <1>2, DbMoves, RequestAssumption
<1>7. \A u \in Threads : HasCache(u)' <=> HasCache(u)
  BY <1>1 DEF HasCache
<1>8. /\ job' \in [Threads -> Seq(Functions)]
      /\ IF job'[t] = <<>> THEN Idle(t)' ELSE Fits(t)'
      /\ \A u \in Threads \ {t} : job'[u] = job[u] /\ phase'[u] = phase[u]
  BY <1>1, <1>3, <1>4, <1>5, <1>7, FunctionEnds
<1>9. InOrder'
  BY <1>6, <1>7, <1>8, Local DEF JInv
<1>10. Jobs' /\ OneDb'
  BY <1>1, <1>2, <1>8, RequestAssumption DEF JInv, Jobs, OneDb
<1>11. Unborn'
  BY <1>1, <1>3 DEF JInv, Unborn, redisVars
<1> QED BY <1>9, <1>10, <1>11 DEF JInv

LEMMA ReleaseCacheOrders == ASSUME JInv, IInv, NEW t \in Threads, ReleaseCache(t) PROVE JInv'
<1>1. Release(t, "cache") /\ dbOwner' = dbOwner /\ Jobs /\ Types
  BY DEF ReleaseCache, JInv, IInv
<1>2. PICK k : k = HeldContext(t)
  OBVIOUS
<1>3. /\ job[t] # <<>> /\ UNCHANGED redisVars /\ HasCache(t)
      /\ \/ /\ Need(t) = VerifyToken
            /\ job' \in {[job EXCEPT ![t] = Tail(job[t])], [job EXCEPT ![t] = <<>>]}
            /\ phase' = [phase EXCEPT ![t] = "lease"]
         \/ Need(t) = Handler /\ job' = job /\ phase' = [phase EXCEPT ![t] = "release"]
  BY <1>1, ReturnIs
<1>4. k \in CacheConns /\ cacheOwner[k] = t
  BY <1>2, <1>3, HeldIs DEF IInv, HasCache, Cache!OwnedBy
<1>5. cacheOwner' = [cacheOwner EXCEPT ![k] = "pool"] /\ closed' = closed
  BY <1>2 DEF ReleaseCache, Cache!Return
<1>6. Fits(t)
  BY <1>3 DEF JInv, InOrder
<1>7. ~HasCache(t)'
  BY <1>1, <1>4, <1>5, RequestAssumption DEF IInv, OneLease, Types, HasCache
<1>8. \A u \in Threads \ {t} : HasCache(u)' <=> HasCache(u)
  BY <1>1, <1>4, <1>5, CacheMoves, RequestAssumption
<1>9. \A u \in Threads : HasDb(u)' <=> HasDb(u)
  BY <1>1 DEF HasDb
<1>10. OneDb' /\ Unborn'
  BY <1>1, <1>3, <1>4, <1>5, RequestAssumption DEF JInv, OneDb, Unborn, redisVars, Types
<1>11. CASE /\ Need(t) = VerifyToken
            /\ job' \in {[job EXCEPT ![t] = Tail(job[t])], [job EXCEPT ![t] = <<>>]}
            /\ phase' = [phase EXCEPT ![t] = "lease"]
  <2>1. ~HasDb(t)'
    BY <1>6, <1>9, <1>11 DEF Fits, Need
  <2>2. /\ job' \in [Threads -> Seq(Functions)]
        /\ IF job'[t] = <<>> THEN Idle(t)' ELSE Fits(t)'
        /\ \A u \in Threads \ {t} : job'[u] = job[u] /\ phase'[u] = phase[u]
    BY <1>1, <1>3, <1>7, <1>11, <2>1, FunctionEnds
  <2>3. InOrder'
    BY <1>8, <1>9, <2>2, Local DEF JInv
  <2> QED BY <1>1, <1>5, <1>10, <2>2, <2>3 DEF JInv, Jobs
<1>12. CASE Need(t) = Handler /\ job' = job /\ phase' = [phase EXCEPT ![t] = "release"]
  <2>1. HasDb(t)
    BY <1>3, <1>6, <1>12 DEF Fits, Need
  <2>2. phase'[t] = "release" /\ job' = job /\ \A u \in Threads \ {t} : phase'[u] = phase[u]
    BY <1>1, <1>12 DEF Types
  <2>3. Fits(t)'
    BY <1>6, <1>7, <1>9, <1>12, <2>1, <2>2, Different DEF Fits, Need
  <2>4. InOrder'
    BY <1>3, <1>8, <1>9, <2>2, <2>3, Local DEF JInv
  <2> QED BY <1>1, <1>5, <1>10, <2>2, <2>4 DEF JInv, Jobs
<1> QED BY <1>3, <1>11, <1>12

LEMMA NextOrders == ASSUME JInv, IInv, [Next]_vars PROVE JInv'
<1>1. Types
  BY DEF IInv
<1>2. CASE \E t \in Threads : Start(t)
  BY <1>1, <1>2, StartKeeps
<1>3. CASE \E t \in Threads : LeaseDb(t) \/ LeaseCache(t) \/ GrowFails(t)
  BY <1>1, <1>3, LeaseDbKeeps, LeaseCacheOrders, GrowFailsKeeps
<1>4. CASE \E t \in Threads : CommandInit(t) \/ Exchange(t)
  BY <1>4, CommandKeeps
<1>5. CASE \E t \in Threads : ReleaseDb(t) \/ ReleaseCache(t)
  BY <1>1, <1>5, ReleaseDbOrders, ReleaseCacheOrders
<1>6. CASE UNCHANGED <<dbOwner, cacheOwner, closed, job, phase>> /\ (UNCHANGED redisVars \/ Redis!ServerStep)
  <2>1. \A j \in CacheConns : (ctx[j] = "none" => ctx'[j] = "none") /\ (recent'[j] => recent[j])
    BY <1>1, <1>6 DEF redisVars, Redis!ServerStep, Redis!ServerStops, Redis!Stop, Redis!ServerStarts,
       Redis!ServerLoaded, Redis!Tick, Types
  <2>2. Unborn' /\ OneDb' /\ Jobs'
    BY <1>6, <2>1 DEF JInv, Unborn, OneDb, Jobs
  <2>3. InOrder'
    BY <1>6 DEF JInv, InOrder, Idle, Fits, HasDb, HasCache
  <2> QED BY <2>2, <2>3 DEF JInv
<1>7. CASE \E t \in Threads : ExchangeDies(t)
  <2>1. UNCHANGED <<dbOwner, cacheOwner, closed, job, phase>> /\ UNCHANGED redisVars
    BY <1>7 DEF ExchangeDies, Redis!Dies, Redis!vars, redisVars
  <2> QED BY <1>6, <2>1
<1>8. CASE RedisStep
  BY <1>6, <1>8 DEF RedisStep, reqVars
<1>9. CASE UNCHANGED vars
  BY <1>6, <1>9 DEF vars, reqVars
<1> QED BY <1>2, <1>3, <1>4, <1>5, <1>7, <1>8, <1>9 DEF Next, Serve

-----------------------------------------------------------------------------
(* A pool of which nobody has a connection serves the next who asks.       *)
LEMMA NoneExists == Db!Cardinality({}) = 0 /\ Cache!Cardinality({}) = 0
<1>1. Db!Cardinality({}) = Cardinality({})
  BY Zenon DEF Db!Cardinality, Cardinality
<1>2. Cache!Cardinality({}) = Cardinality({})
  BY Zenon DEF Cache!Cardinality, Cardinality
<1> QED BY <1>1, <1>2, FS_EmptySet

LEMMA DbServes ==
  ASSUME Jobs, NEW t \in Threads, Turn(t, "db"), \A u \in Threads : ~HasDb(u)
  PROVE  MayTakeDb(t)
<1> SUFFICES \E k \in DbConns : dbOwner[k] = "pool" \/ Db!MayGrow(t, k)
  BY DEF MayTakeDb
<1>1. PICK k \in DbConns : TRUE
  BY RequestAssumption
<1>2. CASE \E j \in DbConns : dbOwner[j] = "pool"
  BY <1>2
<1>3. CASE \A j \in DbConns : dbOwner[j] # "pool"
  <2>1. \A j \in DbConns : dbOwner[j] = "nobody"
    BY <1>3 DEF Jobs, HasDb
  <2>2. Db!Existing = {} /\ Db!OwnedBy(t) = {} /\ Db!OwnedBy("pool") = {}
    BY <1>3, <2>1, RequestAssumption DEF Db!Existing, Db!OwnedBy
  <2>3. Db!Cardinality(Db!Existing) < DbLimit
    BY <2>2, NoneExists, RequestAssumption
  <2> QED BY <2>1, <2>2, <2>3 DEF Db!MayGrow, Jobs
<1> QED BY <1>2, <1>3

LEMMA CacheServes ==
  ASSUME JInv, Types, NEW t \in Threads, Turn(t, "cache"), \A u \in Threads : ~HasCache(u)
  PROVE  MayTakeCache(t)
<1> SUFFICES \E k \in CacheConns :
                \/ cacheOwner[k] = "pool"
                \/ Cache!MayGrow(t, k) /\ (server = "up" => ctx[k] = "none" /\ ~recent[k])
  BY DEF MayTakeCache
<1>1. PICK k \in CacheConns : TRUE
  BY RequestAssumption
<1>2. CASE \E j \in CacheConns : cacheOwner[j] = "pool"
  BY <1>2
<1>3. CASE \A j \in CacheConns : cacheOwner[j] # "pool"
  <2>1. \A j \in CacheConns : cacheOwner[j] = "nobody"
    BY <1>3 DEF Types, HasCache
  <2>2. Cache!Existing = {} /\ Cache!OwnedBy(t) = {} /\ Cache!OwnedBy("pool") = {}
    BY <1>3, <2>1, RequestAssumption DEF Cache!Existing, Cache!OwnedBy
  <2>3. Cache!Cardinality(Cache!Existing) < CacheLimit
    BY <2>2, NoneExists, RequestAssumption
  <2>4. ctx[k] = "none" /\ ~recent[k]
    BY <2>1 DEF JInv, Unborn
  <2> QED BY <2>1, <2>2, <2>3, <2>4 DEF Cache!MayGrow, JInv, Jobs
<1> QED BY <1>2, <1>3

(* Who holds all that a function needs gives the last of it back.          *)
LEMMA Returns ==
  ASSUME JInv, NEW t \in Threads, job[t] # <<>>, HasDb(t) \/ HasCache(t),
         phase[t] = "release" \/ (phase[t] = "lease" /\ HoldsAll(t))
  PROVE  MayReturn(t)
<1> SUFFICES \E i \in DOMAIN Need(t) :
                /\ Uses(t, Need(t)[i])
                /\ \A j \in (i + 1)..Len(Need(t)) : ~Uses(t, Need(t)[j])
  BY DEF MayReturn
<1>1. Fits(t) /\ Need(t) \in Functions
  BY TurnIs DEF JInv, InOrder
<1>2. CASE Need(t) = VerifyToken
  <2>1. DOMAIN Need(t) = {1} /\ Len(Need(t)) = 1 /\ Need(t)[1] = "cache"
    BY <1>2 DEF VerifyToken
  <2>2. HasCache(t)
    BY <1>1, <1>2 DEF Fits, Need
  <2> QED BY <2>1, <2>2, UsesIs
<1>3. CASE Need(t) = ReadsMysql
  <2>1. DOMAIN Need(t) = {1} /\ Len(Need(t)) = 1 /\ Need(t)[1] = "db"
    BY <1>3 DEF ReadsMysql
  <2>2. HasDb(t)
    BY <1>1, <1>3 DEF Fits, Need
  <2> QED BY <2>1, <2>2, UsesIs
<1>4. CASE Need(t) = Handler
  <2>1. DOMAIN Need(t) = {1, 2} /\ Len(Need(t)) = 2 /\ Need(t)[1] = "db" /\ Need(t)[2] = "cache"
    BY <1>4 DEF Handler
  <2>2. HasDb(t)
    BY <1>1, <1>4 DEF Fits, Need
  <2>3. CASE HasCache(t)
    <3>1. 2 \in DOMAIN Need(t) /\ Uses(t, Need(t)[2]) /\ (2 + 1)..Len(Need(t)) = {}
      BY <2>1, <2>3, UsesIs
    <3> QED BY <3>1
  <2>4. CASE ~HasCache(t)
    <3>1. 1 \in DOMAIN Need(t) /\ Uses(t, Need(t)[1]) /\ (1 + 1)..Len(Need(t)) = {2} /\ ~Uses(t, Need(t)[2])
      BY <2>1, <2>2, <2>4, UsesIs
    <3> QED BY <3>1
  <2> QED BY <2>3, <2>4
<1> QED BY <1>1, <1>2, <1>3, <1>4 DEF Functions

LEMMA CacheHolderGoesOn ==
  ASSUME JInv, IInv, NEW t \in Threads, HasCache(t)
  PROVE  GoesOn(t)
<1>1. job[t] # <<>> /\ Fits(t) /\ Jobs
  BY DEF JInv, InOrder, Idle
<1>2. HoldsAll(t)
  BY <1>1, TurnIs DEF Fits, Need, Functions
<1>3. phase[t] \in {"lease", "ready", "release"}
  BY DEF IInv, Types
<1>4. CASE phase[t] = "ready"
  BY <1>1, <1>4 DEF GoesOn, MayTalk, IInv, ContextOwned, Cache!OwnedBy, HasCache
<1>5. CASE phase[t] \in {"lease", "release"}
  BY <1>1, <1>2, <1>5, Returns DEF GoesOn
<1> QED BY <1>3, <1>4, <1>5

LEMMA SomebodyGoesOn == JInv /\ IInv => NoCircle
<1> SUFFICES ASSUME JInv, IInv, alive, NEW t \in Threads, job[t] # <<>>
             PROVE  \E u \in Threads : GoesOn(u)
  BY DEF NoCircle
<1>1. Jobs /\ Types /\ \A u \in Threads : phase[u] \in {"lease", "ready", "release"}
  BY DEF JInv, IInv, Types
<1>2. CASE \E u \in Threads : HasCache(u)
  BY <1>2, CacheHolderGoesOn
<1>3. CASE /\ \A u \in Threads : ~HasCache(u)
           /\ \E u \in Threads : HasDb(u)
  <2>1. PICK u \in Threads : HasDb(u)
    BY <1>3
  <2>2. job[u] # <<>> /\ Fits(u) /\ phase[u] \in {"lease", "release"}
    BY <1>1, <1>3, <2>1 DEF JInv, InOrder, Idle, Fits
  <2>3. Need(u) \in Functions /\ Need(u) # VerifyToken
    BY <1>1, <2>1, <2>2, TurnIs DEF Fits, Need
  <2>4. CASE phase[u] = "release" \/ HoldsAll(u)
    BY <2>1, <2>2, <2>4, Returns DEF GoesOn
  <2>5. CASE phase[u] = "lease" /\ ~HoldsAll(u)
    <3>1. Turn(u, "cache")
      BY <1>1, <1>3, <2>1, <2>2, <2>3, <2>5, TurnIs DEF Functions
    <3> QED BY <1>1, <1>3, <2>2, <3>1, CacheServes DEF GoesOn
  <2> QED BY <2>2, <2>4, <2>5
<1>4. CASE \A u \in Threads : ~HasCache(u) /\ ~HasDb(u)
  <2>1. Fits(t) /\ phase[t] = "lease"
    BY <1>1, <1>4 DEF JInv, InOrder, Fits
  <2>2. Turn(t, "db") \/ Turn(t, "cache")
    BY <1>1, <1>4, <2>1, TurnIs DEF Functions
  <2> QED BY <1>1, <1>4, <2>2, DbServes, CacheServes DEF GoesOn
<1> QED BY <1>2, <1>3, <1>4

(* No group of threads waits for each other: as long as a request is       *)
(* served, one of the threads that serve requests can take its next step,  *)
(* for any numbers of threads and connections (also one of each kind) and  *)
(* whatever Redis does.  It holds because every function takes its MySQL   *)
(* connection first.                                                       *)
THEOREM NobodyWaitsInACircle == Spec => []NoCircle
<1>1. Init => JInv
  BY InitJInv
<1>2. IInv /\ JInv /\ [Next]_vars => JInv'
  BY NextOrders
<1> QED BY <1>1, <1>2, SomebodyGoesOn, Inductive, PTL DEF Spec, Safety
=============================================================================
