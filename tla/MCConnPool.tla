----------------------------- MODULE MCConnPool -----------------------------
(***************************************************************************)
(* Instances of ConnPool for TLC, and the mapping that shows that the pool *)
(* implements ConnLease.                                                   *)
(***************************************************************************)
EXTENDS ConnPool

(* The names of owners that are no threads.                                *)
ASSUME OwnersDiffer == "nobody" \notin Clients /\ "pool" \notin Clients

OwnerOf(k) ==
  IF k \in FreeConns THEN "pool"
  ELSE IF k \in HeldConns THEN CHOOSE c \in Clients : held[c] = k
  ELSE "nobody"

Leases == INSTANCE ConnLease
  WITH owner <- [k \in Conns |-> OwnerOf(k)], closed <- abortRequest,
       MayClose <- MayAbort, Nobody <- "nobody", Pool <- "pool"

(* The pool is a correct lease manager for its callers: every step of      *)
(* GetDBConn, RelDBConn and ~CDBPool moves at most one connection between  *)
(* the pool and one client, the list, the counter and the waits included.  *)
PoolImplementsLeases == Leases!Spec
=============================================================================
