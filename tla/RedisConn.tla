----------------------------- MODULE RedisConn -----------------------------
(***************************************************************************)
(* The Redis connections of the pool (CacheConn, redis/CachePool.cpp): how *)
(* a connection notices that Redis went away and how it comes back.        *)
(*                                                                         *)
(* Every command begins with Init(), which connects again when there is no *)
(* context, at most once a second, and then exchanges one command with     *)
(* Redis.  Redis may stop between the two.  What a command does when no    *)
(* answer comes differs: most free the context, one keeps it, and the      *)
(* commands on sorted sets use the missing answer.                         *)
(*                                                                         *)
(* AUTH is left out, because CacheManager passes an empty password.        *)
(***************************************************************************)
EXTENDS Integers

CONSTANTS CacheConns,  \* CacheConn objects
          MaxStops     \* bound: how often Redis stops

VARIABLES server,   \* Redis: "up", "loading" (answers errors) or "down"
          ctx,      \* m_pContext: "none", "live", or "dead" (its peer is gone)
          recent,   \* m_last_connect_time lies within the current second
          stops,    \* how often Redis has stopped
          calm,     \* Redis is up and a second has passed since (history)
          strikes   \* commands a connection failed since then (history)

vars == <<server, ctx, recent, stops, calm, strikes>>

(* Commands that free the context when there is no answer.                 *)
StringCommands  == {"get", "set", "setex", "mget"}
KeyCommands     == {"isExists", "del"}
FieldCommands   == {"hdel", "hget"}
HashCommands    == {"hgetAll", "hset", "hincrBy", "incrBy"}
FieldsCommands  == {"hmset", "hmget"}
CounterCommands == {"incr", "decr"}
ListCommands    == {"lpush", "rpush", "llen", "lrange"}
flushdb         == {"flushdb"}

Dropping == StringCommands \cup KeyCommands \cup FieldCommands \cup HashCommands
              \cup FieldsCommands \cup CounterCommands \cup ListCommands \cup flushdb

(* The variant of hget that fills a buffer reports the failure and keeps   *)
(* the context, in which hiredis refuses all further commands.             *)
Keeping == {"hget into a buffer"}

(* The commands on sorted sets read the type of an answer that is NULL.    *)
ZsetUpdates == {"ZsetExit", "ZsetAdd", "ZsetZrem", "ZsetIncr"}
ZsetReads   == {"ZsetZcard", "ZsetZrevrange", "ZsetGetScore"}
Dying       == ZsetUpdates \cup ZsetReads

Commands == Dropping \cup Keeping \cup Dying

-----------------------------------------------------------------------------
(* The pool has connected the conns of its minimum.                        *)
Init(conns) ==
  /\ server = "up"
  /\ ctx = [k \in CacheConns |-> IF k \in conns THEN "live" ELSE "none"]
  /\ recent = [k \in CacheConns |-> k \in conns]
  /\ stops = 0
  /\ calm = FALSE
  /\ strikes = [k \in CacheConns |-> 0]

(* A command on k reports a failure.                                       *)
Strike(k) ==
  strikes' = IF calm /\ strikes[k] < 2 THEN [strikes EXCEPT ![k] = @ + 1] ELSE strikes

(* Redis stops; the connections in contexts are broken by it.              *)
Stop(contexts) ==
  /\ stops < MaxStops
  /\ server # "down"
  /\ server' = "down"
  /\ ctx' = [k \in CacheConns |-> IF contexts[k] = "live" THEN "dead" ELSE contexts[k]]
  /\ stops' = stops + 1
  /\ calm' = FALSE
  /\ strikes' = [k \in CacheConns |-> 0]

-----------------------------------------------------------------------------
(* CacheConn::Init returns 0: there is a context, or a new one was made.   *)
InitKept(k) == ctx[k] # "none" /\ UNCHANGED vars

InitConnects(k) ==
  /\ ctx[k] = "none" /\ ~recent[k]
  /\ server = "up"
  /\ ctx' = [ctx EXCEPT ![k] = "live"]
  /\ recent' = [recent EXCEPT ![k] = TRUE]
  /\ UNCHANGED <<server, stops, calm, strikes>>

(* CacheConn::Init returns another value: the last attempt is less than a  *)
(* second old,                                                             *)
InitTooSoon(k) ==
  /\ ctx[k] = "none" /\ recent[k]
  /\ Strike(k)
  /\ UNCHANGED <<server, ctx, recent, stops, calm>>

(* nobody listens,                                                         *)
InitRefused(k) ==
  /\ ctx[k] = "none" /\ ~recent[k]
  /\ server = "down"
  /\ recent' = [recent EXCEPT ![k] = TRUE]
  /\ Strike(k)
  /\ UNCHANGED <<server, ctx, stops, calm>>

(* or SELECT is answered with an error or not at all: the new context is   *)
(* kept, and the next command takes it for a good one.                     *)
InitSelectFails(k) ==
  /\ ctx[k] = "none" /\ ~recent[k]
  /\ server = "loading"
  /\ ctx' = [ctx EXCEPT ![k] = "live"]
  /\ recent' = [recent EXCEPT ![k] = TRUE]
  /\ Strike(k)
  /\ UNCHANGED <<server, stops, calm>>

InitSelectLost(k) ==
  /\ ctx[k] = "none" /\ ~recent[k]
  /\ Stop([ctx EXCEPT ![k] = "live"])
  /\ recent' = [recent EXCEPT ![k] = TRUE]

(* Mutant: Init returns 0 although it may not connect yet.                 *)
InitOkTooSoon(k) ==
  \/ InitKept(k) \/ InitConnects(k)
  \/ ctx[k] = "none" /\ recent[k] /\ UNCHANGED vars

InitOk(k)    == InitKept(k) \/ InitConnects(k)
InitFails(k) == InitTooSoon(k) \/ InitRefused(k) \/ InitSelectFails(k) \/ InitSelectLost(k)

(* A connection that the growing pool has just made.                       *)
Created(k) == InitConnects(k)

-----------------------------------------------------------------------------
(* Redis answers, with an error while it loads its data.                   *)
Answered(k) == ctx[k] = "live" /\ UNCHANGED vars

(* Mutant: m_pContext is not reset, as in the hget that fills a buffer.    *)
DroppedKeepsIt(k, cmd) ==
  /\ cmd \in Dropping
  /\ ctx[k] = "dead"
  /\ Strike(k)
  /\ UNCHANGED <<server, ctx, recent, stops, calm>>

(* No answer, because the peer is gone: free the context ...               *)
Dropped(k, cmd) ==
  /\ cmd \in Dropping
  /\ ctx[k] = "dead"
  /\ ctx' = [ctx EXCEPT ![k] = "none"]
  /\ Strike(k)
  /\ UNCHANGED <<server, recent, stops, calm>>

(* ... or keep it ...                                                      *)
Kept(k, cmd) ==
  /\ cmd \in Keeping
  /\ ctx[k] = "dead"
  /\ UNCHANGED vars

(* ... or read through the NULL pointer.                                   *)
Dies(k, cmd) ==
  /\ cmd \in Dying
  /\ ctx[k] = "dead"
  /\ UNCHANGED vars

-----------------------------------------------------------------------------
ServerStops == Stop(ctx) /\ UNCHANGED recent

ServerStarts ==
  /\ server = "down"
  /\ server' = "loading"
  /\ UNCHANGED <<ctx, recent, stops, calm, strikes>>

ServerLoaded ==
  /\ server = "loading"
  /\ server' = "up"
  /\ UNCHANGED <<ctx, recent, stops, calm, strikes>>

(* time() moves on to the next second.                                     *)
Tick ==
  /\ recent' = [k \in CacheConns |-> FALSE]
  /\ calm' = (server = "up")
  /\ UNCHANGED <<server, ctx, stops, strikes>>

ServerStep == ServerStops \/ ServerStarts \/ ServerLoaded \/ Tick

-----------------------------------------------------------------------------
TypeOK ==
  /\ server \in {"up", "loading", "down"}
  /\ ctx \in [CacheConns -> {"none", "live", "dead"}]
  /\ recent \in [CacheConns -> BOOLEAN]
  /\ stops \in 0..MaxStops
  /\ calm \in BOOLEAN
  /\ strikes \in [CacheConns -> 0..2]
=============================================================================
