------------------------------ MODULE ConnLease ------------------------------
(***************************************************************************)
(* What the callers of a connection pool rely on, without lists, counters  *)
(* or waiting: every connection has one owner at a time - nobody yet, the  *)
(* pool, or one client - a client owns at most one, at most Limit exist,   *)
(* and a connection leaves its owner only by being returned.  ConnPool     *)
(* implements this specification.                                          *)
(***************************************************************************)
EXTENDS Integers, FiniteSets

CONSTANTS Clients, Conns, Limit, MayClose

(* Owners that are not clients, and differ from each other and from every  *)
(* client: the connection does not exist, or is free.                      *)
CONSTANTS Nobody, Pool

VARIABLES owner, closed

vars == <<owner, closed>>

Existing    == {k \in Conns : owner[k] # Nobody}
OwnedBy(c)  == {k \in Conns : owner[k] = c}

Init ==
  /\ owner \in [Conns -> {Nobody, Pool}]
  /\ Cardinality(Existing) <= Limit
  /\ closed = FALSE

(* A new connection is made only when none is free and the limit allows.   *)
MayGrow(c, k) ==
  /\ ~closed
  /\ OwnedBy(c) = {}
  /\ owner[k] = Nobody
  /\ Cardinality(Existing) < Limit
  /\ OwnedBy(Pool) = {}

Grow(c, k) ==
  /\ MayGrow(c, k)
  /\ owner' = [owner EXCEPT ![k] = c]
  /\ UNCHANGED closed

Lease(c, k) ==
  /\ ~closed
  /\ OwnedBy(c) = {}
  /\ owner[k] = Pool
  /\ owner' = [owner EXCEPT ![k] = c]
  /\ UNCHANGED closed

Return(k) ==
  /\ owner[k] \in Clients
  /\ owner' = [owner EXCEPT ![k] = Pool]
  /\ UNCHANGED closed

Close ==
  /\ MayClose
  /\ ~closed
  /\ closed' = TRUE
  /\ owner' = [k \in Conns |-> IF owner[k] = Pool THEN Nobody ELSE owner[k]]

Next ==
  \/ \E c \in Clients, k \in Conns : Grow(c, k) \/ Lease(c, k)
  \/ \E k \in Conns : Return(k)
  \/ Close

Spec == Init /\ [][Next]_vars
=============================================================================
