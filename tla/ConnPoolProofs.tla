--------------------------- MODULE ConnPoolProofs ---------------------------
(***************************************************************************)
(* Proofs about the connection pool, for every set of threads, every       *)
(* minimum and every maximum of connections: its safety properties, and    *)
(* that it implements ConnLease, the manager of leases its callers see.    *)
(***************************************************************************)
EXTENDS MCConnPool, FiniteSetTheorems, TLAPS

(* A thread is past GetDBConn exactly while it holds a connection.         *)
HolderIsUsing == \A c \in Clients : pc[c] = "using" <=> held[c] # NoConn

(* The inductive invariant: exclusivity needs to know who holds what, and  *)
(* the wake-up accounting needs that nobody sleeps on an aborting pool.    *)
IInv ==
  /\ TypeOK
  /\ HolderIsUsing
  /\ ExclusiveConn
  /\ ConnsAccounted
  /\ NoLostWakeup
  /\ abortRequest => Asleep = {}

-----------------------------------------------------------------------------
(* Pushing at the back adds one element to the list's contents.            *)
LEMMA ElemsAppend ==
  ASSUME NEW S, NEW s \in Seq(S), NEW x \in S
  PROVE  /\ Append(s, x) \in Seq(S)
         /\ Elems(Append(s, x)) = Elems(s) \cup {x}
<1>1. /\ Append(s, x) \in Seq(S)
      /\ Len(Append(s, x)) = Len(s) + 1
      /\ Append(s, x)[Len(s) + 1] = x
      /\ \A i \in 1..Len(s) : Append(s, x)[i] = s[i]
      /\ Len(s) \in Nat
  OBVIOUS
<1>2. Elems(Append(s, x)) \subseteq Elems(s) \cup {x}
  BY <1>1 DEF Elems
<1>3. Elems(s) \cup {x} \subseteq Elems(Append(s, x))
  BY <1>1 DEF Elems
<1> QED BY <1>1, <1>2, <1>3

(* Popping the front removes the head, which occurs nowhere else in a list *)
(* without duplicates.                                                     *)
LEMMA ElemsTail ==
  ASSUME NEW S, NEW s \in Seq(S), s # <<>>
  PROVE  /\ Head(s) \in S
         /\ Head(s) \in Elems(s)
         /\ Tail(s) \in Seq(S)
         /\ Elems(s) = Elems(Tail(s)) \cup {Head(s)}
<1>1. /\ Len(s) \in Nat \ {0}
      /\ Head(s) = s[1]
      /\ Tail(s) \in Seq(S)
      /\ Len(Tail(s)) = Len(s) - 1
      /\ \A i \in 1..(Len(s) - 1) : Tail(s)[i] = s[i + 1]
  OBVIOUS
<1>2. Elems(s) \subseteq Elems(Tail(s)) \cup {Head(s)}
  <2> SUFFICES ASSUME NEW i \in 1..Len(s)
               PROVE  s[i] \in Elems(Tail(s)) \cup {Head(s)}
    BY DEF Elems
  <2>1. CASE i = 1
    BY <2>1, <1>1
  <2>2. CASE i # 1
    <3>1. i - 1 \in 1..(Len(s) - 1) /\ Tail(s)[i - 1] = s[i]
      BY <2>2, <1>1
    <3> QED BY <3>1, <1>1 DEF Elems
  <2> QED BY <2>1, <2>2
<1>3. Elems(Tail(s)) \cup {Head(s)} \subseteq Elems(s)
  BY <1>1 DEF Elems
<1> QED BY <1>1, <1>2, <1>3 DEF Elems

(* The connections that exist form a finite set.                           *)
LEMMA LiveFinite ==
  ASSUME TypeOK
  PROVE  Live \subseteq Conns /\ IsFiniteSet(Live) /\ Cardinality(Live) \in Nat
<1>1. FreeConns \subseteq Conns
  BY DEF TypeOK, FreeConns, Elems
<1>2. HeldConns \subseteq Conns
  BY DEF TypeOK, HeldConns
<1>3. Live \subseteq Conns
  BY <1>1, <1>2 DEF Live
<1>4. IsFiniteSet(Live)
  BY <1>3, PoolAssumption, FS_Subset
<1> QED BY <1>3, <1>4, FS_CardinalityType

(* Sets of threads are finite, so that waiting threads can be counted.     *)
LEMMA ThreadsFinite ==
  ASSUME NEW T \in SUBSET Clients
  PROVE  IsFiniteSet(T) /\ Cardinality(T) \in Nat
BY PoolAssumption, FS_Subset, FS_CardinalityType

LEMMA WokenFinite == IsFiniteSet(Woken) /\ Cardinality(Woken) \in Nat
<1>1. Woken \in SUBSET Clients
  BY DEF Woken
<1> QED BY <1>1, ThreadsFinite

-----------------------------------------------------------------------------
(* CDBPool::Init establishes the invariant: its minimum of distinct        *)
(* connections is what the counter starts with.                            *)
LEMMA InitIInv == Init => IInv
<1> SUFFICES ASSUME Init PROVE IInv
  OBVIOUS
<1> USE PoolAssumption
<1>1. PICK s \in [1..MinConn -> Conns] :
        /\ \A i, j \in 1..MinConn : i # j => s[i] # s[j]
        /\ freeList = s
  BY DEF Init
<1>2. /\ freeList \in Seq(Conns)
      /\ Len(freeList) = MinConn
  BY <1>1
<1>3. TypeOK
  BY <1>2 DEF Init, TypeOK
<1>4. HolderIsUsing
  BY DEF Init, HolderIsUsing
<1>5. HeldConns = {}
  BY DEF Init, HeldConns
<1>6. ExclusiveConn
  <2>1. FreeConns \subseteq Conns
    BY <1>2 DEF FreeConns, Elems
  <2>2. NoDuplicates
    BY <1>1, <1>2 DEF NoDuplicates
  <2>3. FreeNotHeld
    BY <2>1 DEF Init, FreeNotHeld
  <2>4. OneHolder
    BY DEF Init, OneHolder
  <2> QED BY <2>2, <2>3, <2>4 DEF ExclusiveConn
<1>7. Cardinality(Live) = MinConn
  <2>1. Live = Elems(freeList)
    BY <1>5 DEF Live, FreeConns
  <2>2. freeList \in Bijection(1..MinConn, Live)
    <3>1. freeList \in [1..MinConn -> Live]
      BY <1>1, <1>2, <2>1 DEF Elems
    <3>2. \A i, j \in 1..MinConn : freeList[i] = freeList[j] => i = j
      BY <1>1
    <3>3. \A k \in Live : \E i \in 1..MinConn : freeList[i] = k
      BY <1>2, <2>1 DEF Elems
    <3> QED BY <3>1, <3>2, <3>3 DEF Bijection, Injection, Surjection, IsInjective
  <2>3. ExistsBijection(1..MinConn, Live)
    BY <2>2 DEF ExistsBijection
  <2> QED BY <2>3, FS_CountingElements
<1>8. ConnsAccounted
  BY <1>7 DEF Init, ConnsAccounted, Limit
<1>9. Asleep = {}
  BY DEF Init, Asleep
<1> QED BY <1>3, <1>4, <1>6, <1>8, <1>9 DEF IInv, NoLostWakeup

-----------------------------------------------------------------------------
(* Popping the front hands exactly one connection from the list to the     *)
(* caller: nothing is created, lost or shared.                             *)
LEMMA TakeFrontKeepsConns ==
  ASSUME IInv, NEW c \in Clients, held[c] = NoConn, TakeFront(c)
  PROVE  /\ freeList' \in Seq(Conns)
         /\ held' \in [Clients -> Conns \cup {NoConn}]
         /\ held'[c] # NoConn
         /\ \A d \in Clients \ {c} : held'[d] = held[d]
         /\ Live' = Live
         /\ ExclusiveConn'
         /\ Len(freeList') = Len(freeList) - 1
<1> USE PoolAssumption DEF IInv
<1>1. freeList \in Seq(Conns) /\ freeList # <<>>
  BY DEF TypeOK, TakeFront
<1> DEFINE k == Head(freeList)
<1>2. /\ k \in Conns
      /\ freeList' = Tail(freeList)
      /\ freeList' \in Seq(Conns)
      /\ FreeConns = FreeConns' \cup {k}
  BY <1>1, ElemsTail DEF TakeFront, FreeConns
<1>3. /\ Len(freeList) \in Nat \ {0}
      /\ Len(freeList') = Len(freeList) - 1
      /\ \A i \in 1..Len(freeList') : freeList'[i] = freeList[i + 1]
      /\ k = freeList[1]
  BY <1>1, <1>2
<1>4. k \notin FreeConns'
  <2>1. \A i \in 1..Len(freeList') : freeList[i + 1] # freeList[1]
    BY <1>3 DEF ExclusiveConn, NoDuplicates
  <2> QED BY <2>1, <1>3 DEF FreeConns, Elems
<1>5. NoDuplicates'
  BY <1>3 DEF ExclusiveConn, NoDuplicates
<1>6. /\ held' = [held EXCEPT ![c] = k]
      /\ held \in [Clients -> Conns \cup {NoConn}]
  BY DEF TakeFront, TypeOK
<1>7. /\ held' \in [Clients -> Conns \cup {NoConn}]
      /\ held'[c] = k
      /\ \A d \in Clients \ {c} : held'[d] = held[d]
  BY <1>2, <1>6
<1>8. FreeNotHeld'
  <2>1. \A d \in Clients \ {c} : held'[d] \notin FreeConns'
    BY <1>2, <1>7 DEF ExclusiveConn, FreeNotHeld
  <2> QED BY <2>1, <1>4, <1>7 DEF FreeNotHeld
<1>9. OneHolder'
  <2>1. \A d \in Clients : held[d] # k
    BY <1>2 DEF ExclusiveConn, FreeNotHeld
  <2> QED BY <2>1, <1>7 DEF ExclusiveConn, OneHolder
<1>10. HeldConns' = HeldConns \cup {k}
  <2>1. k # NoConn
    BY <1>2
  <2> QED BY <2>1, <1>7 DEF HeldConns
<1>11. Live' = Live
  BY <1>2, <1>10 DEF Live
<1>12. k # NoConn
  BY <1>2
<1> QED
  BY <1>2, <1>3, <1>5, <1>7, <1>8, <1>9, <1>11, <1>12 DEF ExclusiveConn

(* GetDBConn with a free connection.                                       *)
LEMMA GetFreeKeeps ==
  ASSUME IInv, NEW c \in Clients, GetFree(c)
  PROVE  IInv'
<1> USE PoolAssumption DEF IInv
<1>1. held[c] = NoConn
  BY DEF GetFree, HolderIsUsing
<1>2. TakeFront(c)
  BY DEF GetFree
<1>3. /\ freeList' \in Seq(Conns)
      /\ held' \in [Clients -> Conns \cup {NoConn}]
      /\ held'[c] # NoConn
      /\ \A d \in Clients \ {c} : held'[d] = held[d]
      /\ Live' = Live
      /\ ExclusiveConn'
      /\ Len(freeList') = Len(freeList) - 1
  BY <1>1, <1>2, TakeFrontKeepsConns
<1>4. /\ pc \in [Clients -> {"idle", "asleep", "woken", "expired", "using"}]
      /\ pc' = [pc EXCEPT ![c] = "using"]
      /\ pc[c] = "idle"
      /\ UNCHANGED <<curConnCnt, abortRequest, timed>>
  BY DEF GetFree, TakeFront, TypeOK
<1>5. TypeOK'
  BY <1>3, <1>4 DEF TypeOK
<1>6. HolderIsUsing'
  BY <1>3, <1>4 DEF HolderIsUsing
<1>7. ConnsAccounted'
  BY <1>3, <1>4 DEF ConnsAccounted
<1>8. Asleep' = Asleep /\ Woken' = Woken
  BY <1>4 DEF Asleep, Woken
<1>9. NoLostWakeup'
  <2>1. Len(freeList) \in Nat
    BY DEF TypeOK
  <2> QED BY <2>1, <1>3, <1>8, WokenFinite DEF NoLostWakeup
<1> QED BY <1>3, <1>4, <1>5, <1>6, <1>7, <1>8, <1>9

(* GetDBConn growing the pool: the new connection was nowhere before.      *)
LEMMA GetNewKeeps ==
  ASSUME IInv, NEW c \in Clients, GetNew(c)
  PROVE  IInv'
<1> USE PoolAssumption DEF IInv
<1>1. PICK k \in Conns \ Live : held' = [held EXCEPT ![c] = k]
  BY DEF GetNew
<1>2. /\ held \in [Clients -> Conns \cup {NoConn}]
      /\ pc \in [Clients -> {"idle", "asleep", "woken", "expired", "using"}]
      /\ pc' = [pc EXCEPT ![c] = "using"]
      /\ pc[c] = "idle"
      /\ freeList = <<>>
      /\ curConnCnt < MaxConn
      /\ curConnCnt' = curConnCnt + 1
      /\ ~abortRequest
      /\ UNCHANGED <<freeList, abortRequest, timed>>
      /\ held[c] = NoConn
  BY DEF GetNew, TypeOK, HolderIsUsing
<1>3. /\ held' \in [Clients -> Conns \cup {NoConn}]
      /\ held'[c] = k /\ k # NoConn
      /\ \A d \in Clients \ {c} : held'[d] = held[d]
  BY <1>1, <1>2
<1>4. k \notin FreeConns /\ k \notin HeldConns
  BY DEF Live
<1>5. TypeOK'
  <2>1. /\ pc' \in [Clients -> {"idle", "asleep", "woken", "expired", "using"}]
        /\ UNCHANGED <<freeList, abortRequest, timed>>
    BY <1>2
  <2>2. curConnCnt' \in Nat
    BY <1>2 DEF TypeOK
  <2> QED BY <2>1, <2>2, <1>3 DEF TypeOK
<1>6. HolderIsUsing'
  BY <1>2, <1>3 DEF HolderIsUsing
<1>7. ExclusiveConn'
  <2>1. FreeConns' = FreeConns
    BY <1>2 DEF FreeConns
  <2>2. FreeNotHeld'
    BY <2>1, <1>3, <1>4 DEF ExclusiveConn, FreeNotHeld
  <2>3. \A d \in Clients : held[d] # k
    BY <1>3, <1>4 DEF HeldConns
  <2>4. OneHolder'
    BY <2>3, <1>3 DEF ExclusiveConn, OneHolder
  <2>5. NoDuplicates'
    BY <1>2 DEF ExclusiveConn, NoDuplicates
  <2> QED BY <2>2, <2>4, <2>5 DEF ExclusiveConn
<1>8. ConnsAccounted'
  <2>1. HeldConns' = HeldConns \cup {k}
    BY <1>2, <1>3 DEF HeldConns
  <2>2. Live' = Live \cup {k}
    BY <2>1, <1>2 DEF Live, FreeConns
  <2>3. Cardinality(Live') = Cardinality(Live) + 1
    BY <2>2, LiveFinite, FS_AddElement
  <2>4. curConnCnt \in Nat
    BY DEF TypeOK
  <2> QED BY <2>3, <2>4, <1>2, LiveFinite DEF ConnsAccounted, Limit
<1>9. Asleep' = Asleep /\ Woken' = Woken
  BY <1>2 DEF Asleep, Woken
<1>10. NoLostWakeup'
  BY <1>2, <1>9 DEF NoLostWakeup
<1> QED BY <1>2, <1>5, <1>6, <1>7, <1>8, <1>9, <1>10

(* Steps that move a thread between waiting states and leave connections   *)
(* alone keep everything but, possibly, the wake-up accounting.            *)
LEMMA WaitingStepsKeepConns ==
  ASSUME IInv, NEW c \in Clients, pc[c] # "using",
         NEW p \in {"idle", "asleep", "woken", "expired"}, NEW t \in BOOLEAN,
         pc' = [pc EXCEPT ![c] = p],
         timed' = [timed EXCEPT ![c] = t] \/ timed' = timed,
         UNCHANGED <<freeList, curConnCnt, abortRequest, held>>
  PROVE  TypeOK' /\ HolderIsUsing' /\ ExclusiveConn' /\ ConnsAccounted'
<1> USE DEF IInv
<1>1. TypeOK'
  BY DEF TypeOK
<1>2. HolderIsUsing'
  BY DEF HolderIsUsing, TypeOK
<1>3. FreeConns' = FreeConns /\ HeldConns' = HeldConns /\ Live' = Live
  BY DEF FreeConns, HeldConns, Live
<1>4. ExclusiveConn'
  BY <1>3 DEF ExclusiveConn, NoDuplicates, FreeNotHeld, OneHolder
<1>5. ConnsAccounted'
  BY <1>3 DEF ConnsAccounted
<1> QED BY <1>1, <1>2, <1>4, <1>5

(* GetDBConn going to sleep: it does so only with nothing in the list.     *)
LEMMA GetWaitKeeps ==
  ASSUME IInv, NEW c \in Clients, NEW t \in BOOLEAN, GetWait(c, t)
  PROVE  IInv'
<1> USE DEF IInv
<1>1. /\ pc[c] = "idle"
      /\ pc' = [pc EXCEPT ![c] = "asleep"]
      /\ timed' = [timed EXCEPT ![c] = t]
      /\ UNCHANGED <<freeList, curConnCnt, abortRequest, held>>
      /\ freeList = <<>> /\ ~abortRequest
  BY DEF GetWait
<1>2. TypeOK' /\ HolderIsUsing' /\ ExclusiveConn' /\ ConnsAccounted'
  BY <1>1, WaitingStepsKeepConns
<1>3. NoLostWakeup'
  <2>1. Woken' = Woken
    BY <1>1 DEF Woken, TypeOK
  <2> QED BY <2>1, <1>1, WokenFinite DEF NoLostWakeup
<1> QED BY <1>1, <1>2, <1>3

(* A wake-up nobody asked for adds a thread on its way to the list.        *)
LEMMA SpuriousWakeupKeeps ==
  ASSUME IInv, NEW c \in Clients, SpuriousWakeup(c)
  PROVE  IInv'
<1> USE DEF IInv
<1>1. /\ pc[c] = "asleep"
      /\ pc' = [pc EXCEPT ![c] = "woken"]
      /\ UNCHANGED <<freeList, curConnCnt, abortRequest, held, timed>>
  BY DEF SpuriousWakeup
<1>2. TypeOK' /\ HolderIsUsing' /\ ExclusiveConn' /\ ConnsAccounted'
  BY <1>1, WaitingStepsKeepConns
<1>3. Woken' = Woken \cup {c} /\ c \notin Woken /\ Asleep' = Asleep \ {c}
  BY <1>1 DEF Woken, Asleep, TypeOK
<1>4. Cardinality(Woken') = Cardinality(Woken) + 1
  BY <1>3, WokenFinite, FS_AddElement
<1>5. NoLostWakeup'
  <2>1. Len(freeList) \in Nat
    BY DEF TypeOK
  <2> QED BY <2>1, <1>1, <1>3, <1>4, WokenFinite DEF NoLostWakeup
<1> QED BY <1>1, <1>2, <1>3, <1>5

(* A deadline that passes takes a sleeper away.                            *)
LEMMA TimeoutKeeps ==
  ASSUME IInv, NEW c \in Clients, Timeout(c)
  PROVE  IInv'
<1> USE DEF IInv
<1>1. /\ pc[c] = "asleep"
      /\ pc' = [pc EXCEPT ![c] = "expired"]
      /\ UNCHANGED <<freeList, curConnCnt, abortRequest, held, timed>>
  BY DEF Timeout
<1>2. TypeOK' /\ HolderIsUsing' /\ ExclusiveConn' /\ ConnsAccounted'
  BY <1>1, WaitingStepsKeepConns
<1>3. Woken' = Woken /\ Asleep' = Asleep \ {c}
  BY <1>1 DEF Woken, Asleep, TypeOK
<1> QED BY <1>1, <1>2, <1>3 DEF NoLostWakeup

(* A woken or expired thread takes a connection: the list and the threads  *)
(* on their way to it shrink together.                                     *)
LEMMA ResumeTakeKeeps ==
  ASSUME IInv, NEW c \in Clients, ResumeTake(c)
  PROVE  IInv'
<1> USE DEF IInv
<1>1. held[c] = NoConn
  BY DEF ResumeTake, HolderIsUsing
<1>2. TakeFront(c)
  BY DEF ResumeTake
<1>3. /\ freeList' \in Seq(Conns)
      /\ held' \in [Clients -> Conns \cup {NoConn}]
      /\ held'[c] # NoConn
      /\ \A d \in Clients \ {c} : held'[d] = held[d]
      /\ Live' = Live
      /\ ExclusiveConn'
      /\ Len(freeList') = Len(freeList) - 1
  BY <1>1, <1>2, TakeFrontKeepsConns
<1>4. /\ pc \in [Clients -> {"idle", "asleep", "woken", "expired", "using"}]
      /\ pc' = [pc EXCEPT ![c] = "using"]
      /\ pc[c] \in {"woken", "expired"}
      /\ timed' = [timed EXCEPT ![c] = FALSE]
      /\ UNCHANGED <<curConnCnt, abortRequest>>
  BY DEF ResumeTake, TakeFront, TypeOK
<1>5. TypeOK'
  BY <1>3, <1>4 DEF TypeOK
<1>6. HolderIsUsing'
  BY <1>3, <1>4 DEF HolderIsUsing
<1>7. ConnsAccounted'
  BY <1>3, <1>4 DEF ConnsAccounted
<1>8. Asleep' = Asleep /\ Woken' = Woken \ {c}
  BY <1>4 DEF Asleep, Woken
<1>9. Cardinality(Woken') >= Cardinality(Woken) - 1
  <2>1. Cardinality(Woken \ {c}) =
          IF c \in Woken THEN Cardinality(Woken) - 1 ELSE Cardinality(Woken)
    BY WokenFinite, FS_RemoveElement
  <2> QED BY <2>1, <1>8, WokenFinite
<1>10. NoLostWakeup'
  <2>1. Len(freeList) \in Nat
    BY DEF TypeOK
  <2>2. Cardinality(Woken') \in Nat
    BY <1>8, WokenFinite, FS_RemoveElement, FS_CardinalityType
  <2> QED BY <2>1, <2>2, <1>3, <1>8, <1>9, WokenFinite DEF NoLostWakeup
<1> QED BY <1>3, <1>4, <1>5, <1>6, <1>7, <1>8, <1>10

(* A waiting call that returns NULL: the pool is aborting and nobody       *)
(* sleeps, or the deadline passed and there was nothing to take.           *)
LEMMA ResumeNullKeeps ==
  ASSUME IInv, NEW c \in Clients, ResumeNull(c)
  PROVE  IInv'
<1> USE DEF IInv
<1>1. /\ pc[c] \in {"woken", "expired"}
      /\ pc' = [pc EXCEPT ![c] = "idle"]
      /\ timed' = [timed EXCEPT ![c] = FALSE]
      /\ UNCHANGED <<freeList, curConnCnt, abortRequest, held>>
      /\ abortRequest \/ freeList = <<>>
  BY DEF ResumeNull
<1>2. TypeOK' /\ HolderIsUsing' /\ ExclusiveConn' /\ ConnsAccounted'
  BY <1>1, WaitingStepsKeepConns
<1>3. Asleep' = Asleep /\ Woken' = Woken \ {c}
  BY <1>1 DEF Asleep, Woken, TypeOK
<1>4. NoLostWakeup'
  <2>1. Cardinality(Woken') \in Nat
    BY <1>3, WokenFinite, FS_RemoveElement, FS_CardinalityType
  <2> QED BY <2>1, <1>1, <1>3 DEF NoLostWakeup
<1> QED BY <1>1, <1>2, <1>3, <1>4

(* A woken thread finds the list empty and sleeps again.                   *)
LEMMA ResumeSleepKeeps ==
  ASSUME IInv, NEW c \in Clients, ResumeSleep(c)
  PROVE  IInv'
<1> USE DEF IInv
<1>1. /\ pc[c] = "woken"
      /\ pc' = [pc EXCEPT ![c] = "asleep"]
      /\ UNCHANGED <<freeList, curConnCnt, abortRequest, held, timed>>
      /\ freeList = <<>> /\ ~abortRequest
  BY DEF ResumeSleep
<1>2. TypeOK' /\ HolderIsUsing' /\ ExclusiveConn' /\ ConnsAccounted'
  BY <1>1, WaitingStepsKeepConns
<1>3. Woken' = Woken \ {c}
  BY <1>1 DEF Woken, TypeOK
<1>4. NoLostWakeup'
  <2>1. Cardinality(Woken') \in Nat
    BY <1>3, WokenFinite, FS_RemoveElement, FS_CardinalityType
  <2> QED BY <2>1, <1>1 DEF NoLostWakeup
<1> QED BY <1>1, <1>2, <1>4

(* RelDBConn: the connection moves from its only holder to the back of the *)
(* list, and one sleeper, if there is one, is notified for it.             *)
LEMMA RelKeeps ==
  ASSUME IInv, NEW c \in Clients, Rel(c)
  PROVE  IInv'
<1> USE PoolAssumption DEF IInv
<1> DEFINE k == held[c]
<1>1. /\ held \in [Clients -> Conns \cup {NoConn}]
      /\ pc \in [Clients -> {"idle", "asleep", "woken", "expired", "using"}]
      /\ pc[c] = "using"
      /\ k \in Conns /\ k # NoConn
      /\ k \notin FreeConns
      /\ freeList \in Seq(Conns)
  BY DEF Rel, TypeOK, HolderIsUsing, ExclusiveConn, FreeNotHeld
<1>2. /\ freeList' = Append(freeList, k)
      /\ NotifyOne(c)
      /\ held' = [held EXCEPT ![c] = NoConn]
      /\ UNCHANGED <<curConnCnt, abortRequest, timed>>
  BY <1>1 DEF Rel
<1>3. /\ freeList' \in Seq(Conns)
      /\ FreeConns' = FreeConns \cup {k}
  BY <1>1, <1>2, ElemsAppend DEF FreeConns
<1>4. /\ held' \in [Clients -> Conns \cup {NoConn}]
      /\ held'[c] = NoConn
      /\ \A d \in Clients \ {c} : held'[d] = held[d] /\ held[d] # k
  BY <1>1, <1>2 DEF ExclusiveConn, OneHolder
<1>5. /\ TypeOK' /\ HolderIsUsing' /\ NoLostWakeup'
      /\ abortRequest' => Asleep' = {}
  <2>1. CASE Asleep = {}
    <3>1. pc' = [pc EXCEPT ![c] = "idle"]
      BY <1>2, <2>1 DEF NotifyOne
    <3>2. TypeOK'
      BY <1>1, <1>2, <1>3, <1>4, <3>1 DEF TypeOK
    <3>3. HolderIsUsing'
      BY <1>1, <1>4, <3>1 DEF HolderIsUsing
    <3>4. Asleep' = {}
      BY <1>1, <2>1, <3>1 DEF Asleep
    <3> QED BY <3>2, <3>3, <3>4 DEF NoLostWakeup
  <2>2. CASE Asleep # {}
    <3>1. PICK w \in Asleep : pc' = [pc EXCEPT ![c] = "idle", ![w] = "woken"]
      BY <1>2, <2>2 DEF NotifyOne
    <3>2. w \in Clients /\ pc[w] = "asleep" /\ w # c
      BY <1>1 DEF Asleep
    <3>3. /\ pc'[c] = "idle" /\ pc'[w] = "woken"
          /\ \A d \in Clients \ {c, w} : pc'[d] = pc[d]
          /\ pc' \in [Clients -> {"idle", "asleep", "woken", "expired", "using"}]
      BY <1>1, <3>1, <3>2
    <3>4. TypeOK'
      BY <1>2, <1>3, <1>4, <3>3 DEF TypeOK
    <3>5. HolderIsUsing'
      BY <1>1, <1>4, <3>2, <3>3 DEF HolderIsUsing
    <3>6. Woken' = Woken \cup {w} /\ w \notin Woken
      BY <1>1, <3>2, <3>3 DEF Woken
    <3>7. Cardinality(Woken') = Cardinality(Woken) + 1
      BY <3>6, WokenFinite, FS_AddElement
    <3>8. Len(freeList) \in Nat /\ Len(freeList') = Len(freeList) + 1
      BY <1>1, <1>2
    <3>9. NoLostWakeup'
      BY <2>2, <3>7, <3>8, WokenFinite DEF NoLostWakeup
    <3>10. ~abortRequest'
      BY <1>2, <2>2
    <3> QED BY <3>4, <3>5, <3>9, <3>10
  <2> QED BY <2>1, <2>2
<1>7. ExclusiveConn'
  <2>1. NoDuplicates'
    <3>1. /\ Len(freeList) \in Nat
          /\ Len(freeList') = Len(freeList) + 1
          /\ freeList'[Len(freeList) + 1] = k
          /\ \A i \in 1..Len(freeList) : freeList'[i] = freeList[i]
      BY <1>1, <1>2
    <3>2. \A i \in 1..Len(freeList) : freeList[i] # k
      BY <1>1 DEF FreeConns, Elems
    <3> QED BY <3>1, <3>2 DEF ExclusiveConn, NoDuplicates
  <2>2. FreeNotHeld'
    <3>1. NoConn \notin FreeConns'
      BY <1>1, <1>3 DEF FreeConns, Elems
    <3> QED BY <1>3, <1>4, <3>1 DEF ExclusiveConn, FreeNotHeld
  <2>3. OneHolder'
    BY <1>4 DEF ExclusiveConn, OneHolder
  <2> QED BY <2>1, <2>2, <2>3 DEF ExclusiveConn
<1>8. ConnsAccounted'
  <2>1. HeldConns = HeldConns' \cup {k}
    BY <1>1, <1>4 DEF HeldConns
  <2>2. Live' = Live
    BY <1>3, <2>1 DEF Live
  <2> QED BY <1>2, <2>2 DEF ConnsAccounted
<1> QED BY <1>5, <1>7, <1>8

(* The destructor wakes every sleeper, so nobody is left to be notified.   *)
LEMMA AbortKeeps ==
  ASSUME IInv, Abort
  PROVE  IInv'
<1> USE PoolAssumption DEF IInv
<1>1. /\ abortRequest' = TRUE
      /\ freeList' = <<>>
      /\ pc' = [c \in Clients |-> IF pc[c] = "asleep" THEN "woken" ELSE pc[c]]
      /\ curConnCnt' = curConnCnt
      /\ held' = held
      /\ timed' = timed
  BY DEF Abort
<1>2. TypeOK'
  <2>1. pc' \in [Clients -> {"idle", "asleep", "woken", "expired", "using"}]
    BY <1>1 DEF TypeOK
  <2>2. freeList' \in Seq(Conns)
    BY <1>1
  <2> QED BY <1>1, <2>1, <2>2 DEF TypeOK
<1>3. HolderIsUsing'
  BY <1>1 DEF HolderIsUsing
<1>4. FreeConns' = {}
  BY <1>1 DEF FreeConns, Elems
<1>5. ExclusiveConn'
  <2>1. NoDuplicates'
    BY <1>1 DEF NoDuplicates
  <2> QED BY <1>1, <1>4, <2>1 DEF ExclusiveConn, FreeNotHeld, OneHolder
<1>6. ConnsAccounted'
  <2>1. Live' \subseteq Live
    BY <1>1, <1>4 DEF Live, HeldConns
  <2>2. Cardinality(Live') <= Cardinality(Live) /\ Cardinality(Live') \in Nat
    BY <2>1, LiveFinite, FS_Subset, FS_CardinalityType
  <2>3. curConnCnt \in Nat
    BY DEF TypeOK
  <2> QED BY <1>1, <2>2, <2>3, LiveFinite DEF ConnsAccounted
<1>7. Asleep' = {}
  BY <1>1 DEF Asleep
<1> QED BY <1>2, <1>3, <1>5, <1>6, <1>7 DEF NoLostWakeup

(* Every step of the pool keeps the invariant.                             *)
LEMMA NextIInv == IInv /\ [Next]_vars => IInv'
<1> SUFFICES ASSUME IInv, [Next]_vars PROVE IInv'
  OBVIOUS
<1>1. ASSUME NEW c \in Clients, GetFree(c) PROVE IInv'
  BY <1>1, GetFreeKeeps
<1>2. ASSUME NEW c \in Clients, GetNew(c) PROVE IInv'
  BY <1>2, GetNewKeeps
<1>3. ASSUME NEW c \in Clients, NEW t \in BOOLEAN, GetWait(c, t) PROVE IInv'
  BY <1>3, GetWaitKeeps
<1>4. ASSUME NEW c \in Clients, SpuriousWakeup(c) PROVE IInv'
  BY <1>4, SpuriousWakeupKeeps
<1>5. ASSUME NEW c \in Clients, Timeout(c) PROVE IInv'
  BY <1>5, TimeoutKeeps
<1>6. ASSUME NEW c \in Clients, ResumeTake(c) PROVE IInv'
  BY <1>6, ResumeTakeKeeps
<1>7. ASSUME NEW c \in Clients, ResumeNull(c) PROVE IInv'
  BY <1>7, ResumeNullKeeps
<1>8. ASSUME NEW c \in Clients, ResumeSleep(c) PROVE IInv'
  BY <1>8, ResumeSleepKeeps
<1>9. ASSUME NEW c \in Clients, Rel(c) PROVE IInv'
  BY <1>9, RelKeeps
<1>10. CASE Abort
  BY <1>10, AbortKeeps
<1>11. CASE UNCHANGED vars
  BY <1>11 DEF vars, IInv, TypeOK, HolderIsUsing, ExclusiveConn, NoDuplicates,
     FreeNotHeld, OneHolder, ConnsAccounted, NoLostWakeup, Live, FreeConns,
     HeldConns, Asleep, Woken
<1> QED
  BY <1>1, <1>2, <1>3, <1>4, <1>5, <1>6, <1>7, <1>8, <1>9, <1>10, <1>11
  DEF Next

LEMMA SafetyIInv == Safety => []IInv
<1>1. Init => IInv
  BY InitIInv
<1>2. IInv /\ [Next]_vars => IInv'
  BY NextIInv
<1> QED BY <1>1, <1>2, PTL DEF Safety

-----------------------------------------------------------------------------
(* Type correctness.                                                       *)
THEOREM TypeCorrect == Spec => []TypeOK
<1>1. IInv => TypeOK
  BY DEF IInv
<1> QED BY <1>1, SafetyIInv, PTL DEF Spec

(* GetDBConn and RelDBConn never let two threads use one connection, and   *)
(* never hand out a connection that is still in the free list.             *)
THEOREM Exclusive == Spec => []ExclusiveConn
<1>1. IInv => ExclusiveConn
  BY DEF IInv
<1> QED BY <1>1, SafetyIInv, PTL DEF Spec

(* m_db_cur_conn_cnt counts the connections that exist, and stays within   *)
(* the configured maximum (or the built-in minimum).                       *)
THEOREM Accounted == Spec => []ConnsAccounted
<1>1. IInv => ConnsAccounted
  BY DEF IInv
<1> QED BY <1>1, SafetyIInv, PTL DEF Spec

(* notify_one in RelDBConn is enough: no free connection is left to a      *)
(* sleeper that nobody wakes.                                              *)
THEOREM WakeupsNotLost == Spec => []NoLostWakeup
<1>1. IInv => NoLostWakeup
  BY DEF IInv
<1> QED BY <1>1, SafetyIInv, PTL DEF Spec

(* Whoever sleeps in GetDBConn is waiting for a connection that another    *)
(* thread holds, or that a notified thread is about to take: the wait ends *)
(* with a RelDBConn to come, never with everybody asleep.                  *)
THEOREM SleepersNotAlone == Spec => []SleepersHaveReleaser
<1>1. IInv => SleepersHaveReleaser
  <2> SUFFICES ASSUME IInv, Asleep # {}
               PROVE  \E c \in Clients :
                        \/ pc[c] = "using"
                        \/ pc[c] = "woken" /\ freeList # <<>>
    BY DEF SleepersHaveReleaser
  <2> USE PoolAssumption DEF IInv
  <2>1. CASE freeList = <<>>
    <3>1. FreeConns = {}
      BY <2>1 DEF FreeConns, Elems
    <3>2. curConnCnt = Cardinality(Live)
      BY DEF ConnsAccounted
    <3>3. Live = HeldConns
      BY <3>1 DEF Live
    <3>4. HeldConns # {}
      <4>1. curConnCnt # 0
        BY DEF ConnsAccounted, TypeOK
      <4> QED BY <4>1, <3>2, <3>3, FS_EmptySet
    <3>5. PICK c \in Clients : held[c] # NoConn
      BY <3>4 DEF HeldConns
    <3> QED BY <3>5 DEF HolderIsUsing
  <2>2. CASE freeList # <<>>
    <3>1. Len(freeList) \in Nat \ {0}
      BY <2>2 DEF TypeOK
    <3>2. Woken # {}
      BY <3>1, WokenFinite, FS_EmptySet DEF NoLostWakeup
    <3> QED BY <2>2, <3>2 DEF Woken
  <2> QED BY <2>1, <2>2
<1> QED BY <1>1, SafetyIInv, PTL DEF Spec

-----------------------------------------------------------------------------
(* The refinement: each step of the pool is a step of the lease manager,   *)
(* or changes no owner.                                                    *)

(* The mapping's CHOOSE names the one thread that holds the connection.    *)
OwnerSays(k) ==
  /\ OwnerOf(k) = "pool" <=> k \in FreeConns
  /\ \A c \in Clients : OwnerOf(k) = c <=> held[c] = k
  /\ OwnerOf(k) = "nobody" <=> k \notin Live
  /\ OwnerOf(k) \in Clients \cup {"pool", "nobody"}

OwnersSay == \A k \in Conns : OwnerSays(k)

LEMMA OwnersSayIt == IInv => OwnersSay
<1> SUFFICES ASSUME IInv, NEW k \in Conns PROVE OwnerSays(k)
  BY DEF OwnersSay
<1> USE PoolAssumption, OwnersDiffer
<1>1. \A c \in Clients : held[c] = k => k \notin FreeConns
  BY DEF IInv, ExclusiveConn, FreeNotHeld
<1>2. CASE k \in FreeConns
  <2>1. OwnerOf(k) = "pool"
    BY <1>2 DEF OwnerOf
  <2> QED BY <1>1, <1>2, <2>1 DEF OwnerSays, Live
<1>3. CASE \E c \in Clients : held[c] = k
  <2>1. PICK c \in Clients : held[c] = k
    BY <1>3
  <2>2. k \in HeldConns /\ k \notin FreeConns
    BY <1>1, <2>1 DEF HeldConns
  <2>3. OwnerOf(k) = CHOOSE d \in Clients : held[d] = k
    BY <2>2 DEF OwnerOf
  <2>4. \A d \in Clients : held[d] = k <=> d = c
    BY <2>1 DEF IInv, ExclusiveConn, OneHolder
  <2>5. OwnerOf(k) = c
    BY <2>3, <2>4
  <2> QED BY <2>2, <2>4, <2>5 DEF OwnerSays, Live
<1>4. CASE k \notin FreeConns /\ ~\E c \in Clients : held[c] = k
  <2>1. k \notin HeldConns
    BY <1>4 DEF HeldConns
  <2>2. OwnerOf(k) = "nobody"
    BY <1>4, <2>1 DEF OwnerOf
  <2> QED BY <1>4, <2>1, <2>2 DEF OwnerSays, Live
<1> QED BY <1>2, <1>3, <1>4

(* What the lease manager's operators say of the pool.                     *)
LEMMA MappedSets ==
  ASSUME IInv, OwnersSay
  PROVE  /\ Leases!Existing = Live
         /\ Leases!OwnedBy("pool") = FreeConns
         /\ \A c \in Clients : held[c] = NoConn => Leases!OwnedBy(c) = {}
<1> USE PoolAssumption, OwnersDiffer
<1>1. Live \subseteq Conns /\ FreeConns \subseteq Live
  BY LiveFinite DEF IInv, Live
<1> QED BY <1>1 DEF Leases!Existing, Leases!OwnedBy, OwnersSay, OwnerSays

(* A connection whose place does not change keeps its owner.               *)
LEMMA SameOwner ==
  ASSUME OwnersSay, OwnersSay', NEW k \in Conns,
         k \in FreeConns' <=> k \in FreeConns,
         \A c \in Clients : held'[c] = k <=> held[c] = k
  PROVE  OwnerOf(k)' = OwnerOf(k)
<1> USE OwnersDiffer
<1>1. OwnerSays(k) /\ OwnerSays(k)'
  BY DEF OwnersSay
<1>2. CASE k \in FreeConns
  BY <1>1, <1>2 DEF OwnerSays
<1>3. CASE \E c \in Clients : held[c] = k
  BY <1>1, <1>3 DEF OwnerSays
<1>4. CASE k \notin FreeConns /\ ~\E c \in Clients : held[c] = k
  BY <1>1, <1>4 DEF OwnerSays
<1> QED BY <1>2, <1>3, <1>4

-----------------------------------------------------------------------------
(* The lease manager counts as the pool does.                              *)
LEMMA SameCount == ASSUME NEW S PROVE Leases!Cardinality(S) = Cardinality(S)
BY DEF Cardinality, Leases!Cardinality

LEMMA InitMaps == ASSUME Init, IInv, OwnersSay PROVE Leases!Init
<1> USE PoolAssumption, OwnersDiffer
<1>1. \A c \in Clients : held[c] = NoConn
  BY DEF Init
<1>2. \A k \in Conns : OwnerOf(k) \in {"nobody", "pool"}
  BY <1>1 DEF OwnersSay, OwnerSays
<1>3. Cardinality(Leases!Existing) <= Limit
  <2>1. /\ Cardinality(Live) \in Nat /\ curConnCnt \in Nat
        /\ Cardinality(Live) <= curConnCnt /\ curConnCnt <= Limit
    BY LiveFinite DEF IInv, ConnsAccounted, TypeOK
  <2>2. Limit \in Nat
    BY DEF Limit
  <2> QED BY <2>1, <2>2, MappedSets
<1>4. abortRequest = FALSE
  BY DEF Init
<1>5. [k \in Conns |-> OwnerOf(k)] \in [Conns -> {"nobody", "pool"}]
  BY <1>2
<1> QED BY <1>3, <1>4, <1>5, SameCount DEF Leases!Init

(* Taking the front of the list is a lease.                                *)
LEMMA TakeFrontLeases ==
  ASSUME IInv, IInv', OwnersSay, OwnersSay', NEW c \in Clients, held[c] = NoConn,
         TakeFront(c), ~abortRequest, abortRequest' = abortRequest
  PROVE  \E k \in Conns : Leases!Lease(c, k)
<1> USE PoolAssumption, OwnersDiffer
<1>0. PICK k : k = Head(freeList)
  OBVIOUS
<1>1. /\ freeList \in Seq(Conns) /\ freeList # <<>>
      /\ held' = [held EXCEPT ![c] = k] /\ freeList' = Tail(freeList)
      /\ held \in [Clients -> Conns \cup {NoConn}]
  BY <1>0 DEF IInv, TypeOK, TakeFront
<1>2. k \in Conns /\ k \in FreeConns /\ FreeConns = FreeConns' \cup {k}
  BY <1>0, <1>1, ElemsTail DEF FreeConns
<1>3. held'[c] = k /\ \A d \in Clients \ {c} : held'[d] = held[d]
  BY <1>1
<1>4. k \notin FreeConns'
  BY <1>3 DEF IInv, ExclusiveConn, FreeNotHeld
<1>5. OwnerOf(k) = "pool" /\ OwnerOf(k)' = c
  BY <1>2, <1>3 DEF OwnersSay, OwnerSays
<1>6. \A j \in Conns \ {k} : OwnerOf(j)' = OwnerOf(j)
  <2> SUFFICES ASSUME NEW j \in Conns \ {k} PROVE OwnerOf(j)' = OwnerOf(j)
    OBVIOUS
  <2>1. j \in FreeConns' <=> j \in FreeConns
    BY <1>2
  <2>2. \A d \in Clients : held'[d] = j <=> held[d] = j
    BY <1>3
  <2> QED BY <2>1, <2>2, SameOwner
<1>7. Leases!OwnedBy(c) = {}
  BY MappedSets
<1>8. [j \in Conns |-> OwnerOf(j)]' = [[j \in Conns |-> OwnerOf(j)] EXCEPT ![k] = c]
  BY <1>2, <1>5, <1>6
<1>9. Leases!Lease(c, k)
  BY <1>2, <1>5, <1>7, <1>8 DEF Leases!Lease
<1> QED BY <1>2, <1>9

(* A new connection is one that did not exist, within the limit.           *)
LEMMA GetNewGrows ==
  ASSUME IInv, IInv', OwnersSay, OwnersSay', NEW c \in Clients, GetNew(c)
  PROVE  \E k \in Conns : Leases!Grow(c, k)
<1> USE PoolAssumption, OwnersDiffer
<1>1. PICK k \in Conns \ Live : held' = [held EXCEPT ![c] = k]
  BY DEF GetNew
<1>2. /\ pc[c] = "idle" /\ ~abortRequest /\ freeList = <<>> /\ curConnCnt < MaxConn
      /\ UNCHANGED <<freeList, abortRequest>>
      /\ held \in [Clients -> Conns \cup {NoConn}] /\ held[c] = NoConn
  BY DEF GetNew, IInv, TypeOK, HolderIsUsing
<1>3. held'[c] = k /\ \A d \in Clients \ {c} : held'[d] = held[d]
  BY <1>1, <1>2
<1>4. OwnerOf(k) = "nobody" /\ OwnerOf(k)' = c
  BY <1>3 DEF OwnersSay, OwnerSays
<1>5. FreeConns = {} /\ FreeConns' = FreeConns
  BY <1>2 DEF FreeConns, Elems
<1>6. \A j \in Conns \ {k} : OwnerOf(j)' = OwnerOf(j)
  <2> SUFFICES ASSUME NEW j \in Conns \ {k} PROVE OwnerOf(j)' = OwnerOf(j)
    OBVIOUS
  <2>1. \A d \in Clients : held'[d] = j <=> held[d] = j
    BY <1>2, <1>3
  <2> QED BY <1>5, <2>1, SameOwner
<1>7. Cardinality(Live) < Limit
  <2>1. /\ Cardinality(Live) \in Nat /\ curConnCnt \in Nat /\ Cardinality(Live) <= curConnCnt
    BY LiveFinite DEF IInv, ConnsAccounted, TypeOK
  <2>2. Limit \in Nat /\ MaxConn <= Limit
    BY DEF Limit
  <2> QED BY <1>2, <2>1, <2>2
<1>8. Leases!MayGrow(c, k)
  <2>1. /\ Leases!Existing = Live /\ Leases!OwnedBy("pool") = {} /\ Leases!OwnedBy(c) = {}
    BY <1>2, <1>5, MappedSets
  <2>2. Cardinality(Leases!Existing) < Limit
    BY <1>7, <2>1
  <2> QED BY <1>2, <1>4, <2>1, <2>2, SameCount DEF Leases!MayGrow
<1>9. [j \in Conns |-> OwnerOf(j)]' = [[j \in Conns |-> OwnerOf(j)] EXCEPT ![k] = c]
  BY <1>4, <1>6
<1>10. Leases!Grow(c, k)
  BY <1>2, <1>8, <1>9 DEF Leases!Grow
<1> QED BY <1>10

(* RelDBConn returns what the thread holds, also to a pool that is closed. *)
LEMMA RelReturns ==
  ASSUME IInv, IInv', OwnersSay, OwnersSay', NEW c \in Clients, Rel(c)
  PROVE  \E k \in Conns : Leases!Return(k)
<1> USE PoolAssumption, OwnersDiffer
<1>0. PICK k : k = held[c]
  OBVIOUS
<1>1. /\ k \in Conns /\ k \notin FreeConns /\ freeList \in Seq(Conns)
      /\ held \in [Clients -> Conns \cup {NoConn}]
  BY <1>0 DEF Rel, IInv, TypeOK, HolderIsUsing, ExclusiveConn, FreeNotHeld
<1>2. freeList' = Append(freeList, k) /\ held' = [held EXCEPT ![c] = NoConn]
      /\ abortRequest' = abortRequest
  BY <1>0, <1>1 DEF Rel
<1>3. FreeConns' = FreeConns \cup {k}
  BY <1>1, <1>2, ElemsAppend DEF FreeConns
<1>4. held'[c] = NoConn /\ \A d \in Clients \ {c} : held'[d] = held[d]
  BY <1>1, <1>2
<1>5. OwnerOf(k) = c /\ OwnerOf(k)' = "pool"
  BY <1>0, <1>1, <1>3 DEF OwnersSay, OwnerSays
<1>6. \A j \in Conns \ {k} : OwnerOf(j)' = OwnerOf(j)
  <2> SUFFICES ASSUME NEW j \in Conns \ {k} PROVE OwnerOf(j)' = OwnerOf(j)
    OBVIOUS
  <2>1. \A d \in Clients : held'[d] = j <=> held[d] = j
    BY <1>0, <1>4
  <2>2. j \in FreeConns' <=> j \in FreeConns
    BY <1>3
  <2> QED BY <2>1, <2>2, SameOwner
<1>7. [j \in Conns |-> OwnerOf(j)]' = [[j \in Conns |-> OwnerOf(j)] EXCEPT ![k] = "pool"]
  BY <1>1, <1>5, <1>6
<1>8. Leases!Return(k)
  BY <1>1, <1>2, <1>5, <1>7 DEF Leases!Return
<1> QED BY <1>1, <1>8

(* The destructor deletes the connections of the list and no others.       *)
LEMMA AbortCloses ==
  ASSUME IInv, IInv', OwnersSay, OwnersSay', Abort
  PROVE  Leases!Close
<1> USE PoolAssumption, OwnersDiffer
<1>1. MayAbort /\ ~abortRequest /\ abortRequest' = TRUE /\ freeList' = <<>> /\ held' = held
  BY DEF Abort
<1>2. FreeConns' = {}
  BY <1>1 DEF FreeConns, Elems
<1>3. \A k \in Conns : OwnerOf(k)' = IF OwnerOf(k) = "pool" THEN "nobody" ELSE OwnerOf(k)
  <2> SUFFICES ASSUME NEW k \in Conns
               PROVE  OwnerOf(k)' = IF OwnerOf(k) = "pool" THEN "nobody" ELSE OwnerOf(k)
    OBVIOUS
  <2>1. OwnerSays(k) /\ OwnerSays(k)'
    BY DEF OwnersSay
  <2>2. CASE k \in FreeConns
    <3>1. \A c \in Clients : held'[c] # k
      BY <1>1, <2>2 DEF IInv, ExclusiveConn, FreeNotHeld
    <3> QED BY <1>2, <2>1, <2>2, <3>1 DEF OwnerSays
  <2>3. CASE k \notin FreeConns
    BY <1>1, <1>2, <2>1, <2>3, SameOwner DEF OwnerSays
  <2> QED BY <2>2, <2>3
<1> QED BY <1>1, <1>3 DEF Leases!Close

(* Waiting, waking and giving up change no owner.                          *)
LEMMA SameConns ==
  ASSUME UNCHANGED <<freeList, abortRequest, held>>
  PROVE  UNCHANGED Leases!vars
<1>1. \A k : OwnerOf(k)' = OwnerOf(k)
  BY DEF OwnerOf, FreeConns, HeldConns, Elems
<1> QED BY <1>1 DEF Leases!vars

LEMMA StepMaps ==
  ASSUME IInv, IInv', OwnersSay, OwnersSay', [Next]_vars
  PROVE  [Leases!Next]_(Leases!vars)
<1> DEFINE Moved == (\E c \in Clients, k \in Conns : Leases!Grow(c, k) \/ Leases!Lease(c, k))
                    \/ (\E k \in Conns : Leases!Return(k)) \/ Leases!Close
<1>1. ASSUME NEW c \in Clients, GetFree(c) \/ ResumeTake(c) PROVE Moved
  <2>1. held[c] = NoConn /\ TakeFront(c) /\ ~abortRequest /\ abortRequest' = abortRequest
    BY <1>1 DEF GetFree, ResumeTake, IInv, HolderIsUsing
  <2> QED BY <2>1, TakeFrontLeases
<1>2. ASSUME NEW c \in Clients, GetNew(c) PROVE Moved
  BY <1>2, GetNewGrows
<1>3. ASSUME NEW c \in Clients, Rel(c) PROVE Moved
  BY <1>3, RelReturns
<1>4. ASSUME Abort PROVE Moved
  BY <1>4, AbortCloses
<1>5. ASSUME NEW c \in Clients,
             \/ \E t \in BOOLEAN : GetWait(c, t)
             \/ SpuriousWakeup(c) \/ Timeout(c) \/ ResumeNull(c) \/ ResumeSleep(c)
      PROVE  UNCHANGED Leases!vars
  BY <1>5, SameConns DEF GetWait, SpuriousWakeup, Timeout, ResumeNull, ResumeSleep
<1>6. ASSUME UNCHANGED vars PROVE UNCHANGED Leases!vars
  BY <1>6, SameConns DEF vars
<1>7. Moved \/ UNCHANGED Leases!vars
  BY <1>1, <1>2, <1>3, <1>4, <1>5, <1>6 DEF Next
<1> QED BY <1>7 DEF Leases!Next

(* What RequestPools takes the pools to be is what CDBPool and CachePool   *)
(* are: GetDBConn, RelDBConn and the destructor, with their list, counter  *)
(* and waits, move one connection at a time between the pool and a thread. *)
THEOREM Implements == Spec => PoolImplementsLeases
<1>1. Init => Leases!Init
  BY InitIInv, OwnersSayIt, InitMaps
<1>2. IInv /\ IInv' /\ [Next]_vars => [Leases!Next]_(Leases!vars)
  <2>1. IInv => OwnersSay
    BY OwnersSayIt
  <2>2. (IInv => OwnersSay)'
    BY OwnersSayIt, PTL
  <2> QED BY <2>1, <2>2, StepMaps
<1> QED BY <1>1, <1>2, SafetyIInv, PTL DEF Spec, Safety, PoolImplementsLeases, Leases!Spec
=============================================================================
