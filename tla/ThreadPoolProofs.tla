--------------------------- MODULE ThreadPoolProofs ---------------------------
(***************************************************************************)
(* Proofs about the worker pool, for every set of workers, waiters and     *)
(* tasks.                                                                  *)
(***************************************************************************)
EXTENDS ThreadPool, FiniteSetTheorems, TLAPS

InQueue(t) == \E i \in 1..Len(tasks) : tasks[i] = t

(* A task occurs once in the queue, exactly while it is queued.            *)
QueueOnce ==
  /\ \A i, j \in 1..Len(tasks) : tasks[i] = tasks[j] => i = j
  /\ \A t \in Tasks : status[t] = "queued" <=> InQueue(t)

(* A running task is in the hands of one worker.                           *)
HeldOnce ==
  /\ \A t \in Tasks : status[t] = "running" <=> \E w \in Workers : cur[w] = t
  /\ \A w, x \in Workers : cur[w] = cur[x] /\ cur[w] # NoTask => w = x

(* A worker holds a task from get() to the end of the function.            *)
HolderIsBusy == \A w \in Workers : cur[w] # NoTask <=> pc[w] \in {"popped", "running"}

InFunction == {w \in Workers : pc[w] = "running"}

(* atomic_ is the number of workers inside a function.                     *)
RunningCounted == running = Cardinality(InFunction)

(* Once stop() has joined them the workers are gone.                       *)
JoinedAreGone == threads = "none" => \A w \in Workers : pc[w] = "exited"

IInv ==
  /\ TypeOK
  /\ QueueOnce
  /\ HeldOnce
  /\ HolderIsBusy
  /\ RunningCounted
  /\ JoinedAreGone

-----------------------------------------------------------------------------
(* Sets of workers are finite, so that they can be counted.                *)
LEMMA WorkersFinite ==
  ASSUME NEW W \in SUBSET Workers
  PROVE  IsFiniteSet(W) /\ Cardinality(W) \in 0..Cardinality(Workers)
<1>1. IsFiniteSet(Workers) /\ IsFiniteSet(W)
  BY ThreadPoolAssumption, FS_Subset
<1>2. Cardinality(W) <= Cardinality(Workers)
  BY <1>1, FS_Subset
<1>3. Cardinality(W) \in Nat /\ Cardinality(Workers) \in Nat
  BY <1>1, FS_CardinalityType
<1> QED BY <1>1, <1>2, <1>3

(* The positions of all threads after a step that wakes sleepers only.     *)
LEMMA NotifyOneWakes ==
  ASSUME TypeOK, NotifyOne(pc)
  PROVE  /\ pc' \in [Workers \cup Waiters -> PCs]
         /\ \A p \in Workers \cup Waiters :
              pc'[p] = pc[p] \/ (pc[p] = "asleep" /\ pc'[p] = "woken")
<1>1. CASE Sleepers = {}
  BY <1>1 DEF NotifyOne, TypeOK
<1>2. CASE Sleepers # {}
  <2>1. PICK s \in Sleepers : pc' = [pc EXCEPT ![s] = "woken"]
    BY <1>2 DEF NotifyOne
  <2>2. s \in Workers \cup Waiters /\ pc[s] = "asleep"
    BY DEF Sleepers
  <2> QED BY <2>1, <2>2 DEF TypeOK, PCs
<1> QED BY <1>1, <1>2

(* Waking sleepers disturbs nothing that the invariant says of positions.  *)
LEMMA WakingKeeps ==
  ASSUME IInv,
         pc' \in [Workers \cup Waiters -> PCs],
         \A p \in Workers \cup Waiters :
           pc'[p] = pc[p] \/ (pc[p] = "asleep" /\ pc'[p] = "woken"),
         UNCHANGED <<cur, running, threads>>
  PROVE  /\ \A w \in Workers : pc'[w] # "idle"
         /\ \A v \in Waiters : pc'[v] \in {"idle", "asleep", "woken"}
         /\ HolderIsBusy'
         /\ RunningCounted'
         /\ JoinedAreGone'
<1>1. /\ \A w \in Workers : pc'[w] # "idle"
      /\ \A v \in Waiters : pc'[v] \in {"idle", "asleep", "woken"}
  BY DEF IInv, TypeOK
<1>2. HolderIsBusy'
  BY DEF IInv, HolderIsBusy
<1>3. InFunction' = InFunction
  BY DEF InFunction
<1>4. RunningCounted'
  BY <1>3 DEF IInv, RunningCounted
<1>5. JoinedAreGone'
  BY DEF IInv, JoinedAreGone
<1> QED BY <1>1, <1>2, <1>4, <1>5

-----------------------------------------------------------------------------
(* Init establishes the invariant: nothing is queued, nobody works.        *)
LEMMA InitIInv == Init => IInv
<1> SUFFICES ASSUME Init PROVE IInv
  OBVIOUS
<1> USE ThreadPoolAssumption
<1>1. Cardinality(Workers) \in Nat
  BY FS_CardinalityType
<1>2. TypeOK
  <2>1. /\ pc \in [Workers \cup Waiters -> PCs]
        /\ \A w \in Workers : pc[w] # "idle"
        /\ \A v \in Waiters : pc[v] \in {"idle", "asleep", "woken"}
    BY DEF Init, PCs
  <2>2. running \in 0..Cardinality(Workers)
    BY <1>1 DEF Init
  <2>3. /\ awaited \in [Waiters -> SUBSET Tasks]
        /\ timed \in [Waiters -> BOOLEAN]
        /\ result \in [Waiters -> {"none", "true", "false"}]
    BY DEF Init
  <2>4. tasks \in Seq(Tasks)
    BY DEF Init
  <2>5. /\ cur \in [Workers -> Tasks \cup {NoTask}]
        /\ status \in [Tasks -> {"new", "queued", "running", "done", "dropped"}]
    BY DEF Init
  <2>6. terminate \in BOOLEAN /\ threads \in {"up", "joining", "none"}
    BY DEF Init
  <2> QED BY <2>1, <2>2, <2>3, <2>4, <2>5, <2>6 DEF TypeOK
<1>3. QueueOnce
  BY DEF Init, QueueOnce, InQueue
<1>4. HeldOnce
  BY DEF Init, HeldOnce
<1>5. HolderIsBusy
  BY DEF Init, HolderIsBusy
<1>6. RunningCounted
  <2>1. InFunction = {}
    BY DEF Init, InFunction
  <2> QED BY <2>1, FS_EmptySet DEF Init, RunningCounted
<1>7. JoinedAreGone
  BY DEF Init, JoinedAreGone
<1> QED BY <1>2, <1>3, <1>4, <1>5, <1>6, <1>7 DEF IInv

-----------------------------------------------------------------------------
(* exec() queues a new task, which was nowhere before.                     *)
LEMMA ExecKeeps == ASSUME IInv, NEW t \in Tasks, Exec(t) PROVE IInv'
<1> USE DEF IInv
<1>1. /\ pc' \in [Workers \cup Waiters -> PCs]
      /\ \A p \in Workers \cup Waiters :
           pc'[p] = pc[p] \/ (pc[p] = "asleep" /\ pc'[p] = "woken")
  BY NotifyOneWakes DEF Exec
<1>2. /\ \A w \in Workers : pc'[w] # "idle"
      /\ \A v \in Waiters : pc'[v] \in {"idle", "asleep", "woken"}
      /\ HolderIsBusy' /\ RunningCounted' /\ JoinedAreGone'
  BY <1>1, WakingKeeps DEF Exec, poolVars
<1>3. /\ tasks \in Seq(Tasks) /\ tasks' = Append(tasks, t) /\ tasks' \in Seq(Tasks)
      /\ Len(tasks') = Len(tasks) + 1 /\ tasks'[Len(tasks) + 1] = t
      /\ \A i \in 1..Len(tasks) : tasks'[i] = tasks[i]
      /\ Len(tasks) \in Nat
  BY DEF Exec, TypeOK
<1>4. TypeOK'
  BY <1>1, <1>2, <1>3 DEF Exec, TypeOK, poolVars, waiterVars
<1>5. ~InQueue(t)
  BY DEF Exec, QueueOnce
<1>6. \A u : InQueue(u)' <=> InQueue(u) \/ u = t
  BY <1>3 DEF InQueue
<1>7. QueueOnce'
  <2>1. \A i, j \in 1..Len(tasks') : tasks'[i] = tasks'[j] => i = j
    BY <1>3, <1>5 DEF QueueOnce, InQueue
  <2>2. \A u \in Tasks : status'[u] = "queued" <=> status[u] = "queued" \/ u = t
    BY DEF Exec, TypeOK
  <2> QED BY <1>6, <2>1, <2>2 DEF QueueOnce
<1>8. HeldOnce'
  <2>1. \A u \in Tasks : status'[u] = "running" <=> status[u] = "running"
    BY DEF Exec, TypeOK
  <2> QED BY <2>1 DEF Exec, HeldOnce
<1> QED BY <1>2, <1>4, <1>7, <1>8

(* A worker takes the head of the queue into its hands.                    *)
LEMMA GetTaskKeeps == ASSUME IInv, NEW w \in Workers, GetTask(w) PROVE IInv'
<1> USE DEF IInv
<1> DEFINE t == Head(tasks)
<1>1. /\ tasks \in Seq(Tasks) /\ Len(tasks) \in Nat \ {0}
      /\ t = tasks[1] /\ t \in Tasks
      /\ tasks' \in Seq(Tasks) /\ Len(tasks') = Len(tasks) - 1
      /\ \A i \in 1..(Len(tasks) - 1) : tasks'[i] = tasks[i + 1]
  BY DEF GetTask, TypeOK
<1>2. /\ cur' = [cur EXCEPT ![w] = t] /\ status' = [status EXCEPT ![t] = "running"]
      /\ pc' = [pc EXCEPT ![w] = "popped"] /\ pc[w] \in {"get", "woken"}
      /\ UNCHANGED <<running, terminate, threads, timed, awaited, result>>
  BY DEF GetTask, poolVars, waiterVars
<1>3. w \notin Waiters /\ t # NoTask
  BY <1>1, ThreadPoolAssumption
<1>4. TypeOK'
  BY <1>1, <1>2, <1>3 DEF TypeOK, PCs
<1>5. \A u : InQueue(u)' <=> InQueue(u) /\ u # t
  <2> SUFFICES ASSUME NEW u PROVE InQueue(u)' <=> InQueue(u) /\ u # t
    OBVIOUS
  <2>1. ASSUME InQueue(u)' PROVE InQueue(u) /\ u # t
    <3>1. PICK i \in 1..Len(tasks') : tasks'[i] = u
      BY <2>1 DEF InQueue
    <3>2. i + 1 \in 1..Len(tasks) /\ tasks[i + 1] = u /\ i + 1 # 1
      BY <1>1, <3>1
    <3> QED BY <1>1, <3>2 DEF QueueOnce, InQueue
  <2>2. ASSUME InQueue(u), u # t PROVE InQueue(u)'
    <3>1. PICK i \in 1..Len(tasks) : tasks[i] = u
      BY <2>2 DEF InQueue
    <3>2. i # 1
      BY <1>1, <2>2, <3>1
    <3>3. i - 1 \in 1..Len(tasks') /\ tasks'[i - 1] = u
      BY <1>1, <3>1, <3>2
    <3> QED BY <3>3 DEF InQueue
  <2> QED BY <2>1, <2>2
<1>6. QueueOnce'
  <2>1. \A i, j \in 1..Len(tasks') : tasks'[i] = tasks'[j] => i = j
    <3> SUFFICES ASSUME NEW i \in 1..Len(tasks'), NEW j \in 1..Len(tasks'), tasks'[i] = tasks'[j]
                 PROVE  i = j
      OBVIOUS
    <3>1. i + 1 \in 1..Len(tasks) /\ j + 1 \in 1..Len(tasks) /\ tasks[i + 1] = tasks[j + 1]
      BY <1>1
    <3>2. i + 1 = j + 1
      BY <3>1 DEF QueueOnce
    <3> QED BY <1>1, <3>2
  <2>2. \A u \in Tasks : status'[u] = "queued" <=> status[u] = "queued" /\ u # t
    BY <1>1, <1>2 DEF TypeOK
  <2> QED BY <1>5, <2>1, <2>2 DEF QueueOnce
<1>7. cur[w] = NoTask
  BY <1>2 DEF HolderIsBusy
<1>8. status[t] = "queued" /\ \A x \in Workers : cur[x] # t
  BY <1>1 DEF QueueOnce, InQueue, HeldOnce
<1>9. \A x \in Workers : cur'[x] = IF x = w THEN t ELSE cur[x]
  BY <1>2 DEF TypeOK
<1>10. HeldOnce'
  <2>1. \A u \in Tasks : status'[u] = "running" <=> status[u] = "running" \/ u = t
    BY <1>1, <1>2 DEF TypeOK
  <2>2. ASSUME NEW u \in Tasks
        PROVE  (\E x \in Workers : cur'[x] = u) <=> (\E x \in Workers : cur[x] = u) \/ u = t
    BY <1>3, <1>7, <1>9, ThreadPoolAssumption
  <2>3. \A x, y \in Workers : cur'[x] = cur'[y] /\ cur'[x] # NoTask => x = y
    BY <1>8, <1>9 DEF HeldOnce
  <2> QED BY <2>1, <2>2, <2>3 DEF HeldOnce
<1>11. \A x \in Workers : pc'[x] = IF x = w THEN "popped" ELSE pc[x]
  BY <1>2 DEF TypeOK
<1>12. HolderIsBusy'
  BY <1>3, <1>9, <1>11 DEF HolderIsBusy
<1>13. RunningCounted'
  <2>1. InFunction' = InFunction
    BY <1>2, <1>11 DEF InFunction
  <2> QED BY <1>2, <2>1 DEF RunningCounted
<1>14. JoinedAreGone'
  BY <1>2 DEF JoinedAreGone
<1> QED BY <1>4, <1>6, <1>10, <1>12, <1>13, <1>14

(* ++atomic_: one more worker is inside a function.                        *)
LEMMA BeginKeeps == ASSUME IInv, NEW w \in Workers, Begin(w) PROVE IInv'
<1> USE DEF IInv
<1>1. /\ pc[w] = "popped" /\ pc' = [pc EXCEPT ![w] = "running"] /\ running' = running + 1
      /\ UNCHANGED <<tasks, cur, status, terminate, threads, timed, awaited, result>>
  BY DEF Begin, poolVars, waiterVars
<1>2. \A x \in Workers : pc'[x] = IF x = w THEN "running" ELSE pc[x]
  BY <1>1 DEF TypeOK
<1>3. QueueOnce' /\ HeldOnce'
  BY <1>1 DEF QueueOnce, HeldOnce, InQueue
<1>4. HolderIsBusy'
  BY <1>1, <1>2 DEF HolderIsBusy
<1>5. RunningCounted'
  <2>1. w \notin InFunction /\ InFunction' = InFunction \cup {w}
    BY <1>1, <1>2 DEF InFunction
  <2>2. IsFiniteSet(InFunction) /\ Cardinality(InFunction) \in Nat
    BY WorkersFinite DEF InFunction
  <2>3. Cardinality(InFunction') = Cardinality(InFunction) + 1
    BY <2>1, <2>2, FS_AddElement
  <2> QED BY <1>1, <2>3 DEF RunningCounted
<1>6. JoinedAreGone'
  BY <1>1 DEF JoinedAreGone
<1>7. TypeOK'
  <2>1. /\ pc' \in [Workers \cup Waiters -> PCs]
        /\ \A x \in Workers : pc'[x] # "idle"
        /\ \A v \in Waiters : pc'[v] \in {"idle", "asleep", "woken"}
    BY <1>1, ThreadPoolAssumption DEF TypeOK, PCs
  <2>2. InFunction' \in SUBSET Workers
    BY DEF InFunction
  <2>3. running' \in 0..Cardinality(Workers)
    BY <1>5, <2>2, WorkersFinite DEF RunningCounted
  <2> QED BY <1>1, <2>1, <2>3 DEF TypeOK
<1> QED BY <1>3, <1>4, <1>5, <1>6, <1>7

(* The function ends: its worker gives the task up, atomic_ goes down.     *)
LEMMA FinishKeeps == ASSUME IInv, NEW w \in Workers, Finish(w) PROVE IInv'
<1> USE DEF IInv
<1> DEFINE t == cur[w]
<1>1. /\ pc[w] = "running" /\ pc' = [pc EXCEPT ![w] = "notify"]
      /\ running' = running - 1 /\ cur' = [cur EXCEPT ![w] = NoTask]
      /\ UNCHANGED <<tasks, terminate, threads, timed, awaited, result>>
  BY DEF Finish, poolVars, waiterVars
<1>2. PICK end \in {"done", "dropped"} : status' = [status EXCEPT ![t] = end]
  BY DEF Finish
<1>3. t \in Tasks /\ t # NoTask
  BY <1>1, ThreadPoolAssumption DEF HolderIsBusy, TypeOK
<1>4. status[t] = "running"
  BY <1>3 DEF HeldOnce
<1>5. /\ \A x \in Workers : pc'[x] = IF x = w THEN "notify" ELSE pc[x]
      /\ \A x \in Workers : cur'[x] = IF x = w THEN NoTask ELSE cur[x]
      /\ \A u \in Tasks : status'[u] = IF u = t THEN end ELSE status[u]
  BY <1>1, <1>2, <1>3 DEF TypeOK
<1>6. QueueOnce'
  BY <1>1, <1>4, <1>5 DEF QueueOnce, InQueue
<1>7. HeldOnce'
  <2>1. ASSUME NEW u \in Tasks, status'[u] = "running"
        PROVE  \E x \in Workers : cur'[x] = u
    <3>1. u # t /\ status[u] = "running"
      BY <1>5, <2>1
    <3>2. PICK x \in Workers : cur[x] = u
      BY <3>1 DEF HeldOnce
    <3> QED BY <1>5, <3>1, <3>2
  <2>2. ASSUME NEW u \in Tasks, NEW x \in Workers, cur'[x] = u
        PROVE  status'[u] = "running"
    <3>1. x # w /\ cur[x] = u
      BY <1>5, <2>2, ThreadPoolAssumption
    <3>2. u # t
      BY <1>3, <3>1 DEF HeldOnce
    <3> QED BY <1>5, <3>1, <3>2 DEF HeldOnce
  <2>3. \A x, y \in Workers : cur'[x] = cur'[y] /\ cur'[x] # NoTask => x = y
    BY <1>5 DEF HeldOnce
  <2> QED BY <2>1, <2>2, <2>3 DEF HeldOnce
<1>8. HolderIsBusy'
  BY <1>1, <1>5 DEF HolderIsBusy
<1>9. RunningCounted'
  <2>1. w \in InFunction /\ InFunction' = InFunction \ {w}
    BY <1>1, <1>5 DEF InFunction
  <2>2. IsFiniteSet(InFunction) /\ Cardinality(InFunction) \in Nat
    BY WorkersFinite DEF InFunction
  <2>3. Cardinality(InFunction') = Cardinality(InFunction) - 1
    BY <2>1, <2>2, FS_RemoveElement
  <2> QED BY <1>1, <2>3 DEF RunningCounted
<1>10. JoinedAreGone'
  BY <1>1 DEF JoinedAreGone
<1>11. TypeOK'
  <2>1. /\ pc' \in [Workers \cup Waiters -> PCs]
        /\ \A x \in Workers : pc'[x] # "idle"
        /\ \A v \in Waiters : pc'[v] \in {"idle", "asleep", "woken"}
    BY <1>1, ThreadPoolAssumption DEF TypeOK, PCs
  <2>2. InFunction' \in SUBSET Workers
    BY DEF InFunction
  <2>3. running' \in 0..Cardinality(Workers)
    BY <1>9, <2>2, WorkersFinite DEF RunningCounted
  <2>4. /\ cur' \in [Workers -> Tasks \cup {NoTask}]
        /\ status' \in [Tasks -> {"new", "queued", "running", "done", "dropped"}]
    BY <1>1, <1>2 DEF TypeOK
  <2> QED BY <1>1, <2>1, <2>3, <2>4 DEF TypeOK
<1> QED BY <1>6, <1>7, <1>8, <1>9, <1>10, <1>11

(* A worker that goes on, without a task, to a position outside every      *)
(* function.                                                               *)
LEMMA IdleMoveKeeps ==
  ASSUME IInv, NEW w \in Workers, NEW p \in {"get", "asleep", "exited", "loop"},
         pc[w] \notin {"popped", "running"},
         threads = "none" => p = "exited",
         pc' = [pc EXCEPT ![w] = p],
         UNCHANGED <<tasks, running, cur, status, poolVars, waiterVars>>
  PROVE  IInv'
<1> USE DEF IInv, poolVars, waiterVars
<1>1. \A x \in Workers : pc'[x] = IF x = w THEN p ELSE pc[x]
  BY DEF TypeOK
<1>2. TypeOK'
  BY ThreadPoolAssumption DEF TypeOK, PCs
<1>3. QueueOnce' /\ HeldOnce'
  BY DEF QueueOnce, HeldOnce, InQueue
<1>4. HolderIsBusy'
  BY <1>1 DEF HolderIsBusy
<1>5. InFunction' = InFunction
  BY <1>1 DEF InFunction
<1>6. RunningCounted'
  BY <1>5 DEF RunningCounted
<1>7. JoinedAreGone'
  BY <1>1 DEF JoinedAreGone
<1> QED BY <1>2, <1>3, <1>4, <1>6, <1>7

(* Steps that change nothing of the pool but wake sleepers.                *)
LEMMA WakeStepKeeps ==
  ASSUME IInv,
         pc' \in [Workers \cup Waiters -> PCs],
         \A p \in Workers \cup Waiters :
           pc'[p] = pc[p] \/ (pc[p] = "asleep" /\ pc'[p] = "woken"),
         UNCHANGED <<tasks, running, cur, status, waiterVars>>,
         terminate' \in BOOLEAN,
         threads' \in {"up", "joining"} \/ UNCHANGED threads
  PROVE  IInv'
<1> USE DEF IInv, waiterVars
<1>1. /\ \A w \in Workers : pc'[w] # "idle"
      /\ \A v \in Waiters : pc'[v] \in {"idle", "asleep", "woken"}
  BY DEF TypeOK
<1>2. TypeOK'
  BY <1>1 DEF TypeOK
<1>3. QueueOnce' /\ HeldOnce'
  BY DEF QueueOnce, HeldOnce, InQueue
<1>4. HolderIsBusy'
  BY DEF HolderIsBusy
<1>5. InFunction' = InFunction
  BY DEF InFunction
<1>6. RunningCounted'
  BY <1>5 DEF RunningCounted
<1>7. JoinedAreGone'
  BY DEF JoinedAreGone
<1> QED BY <1>2, <1>3, <1>4, <1>6, <1>7

(* The steps of a worker.                                                  *)
LEMMA WorkerKeeps == ASSUME IInv, NEW w \in Workers, WorkerStep(w) PROVE IInv'
<1>0. threads = "none" => pc[w] = "exited"
  BY DEF IInv, JoinedAreGone
<1>1. CASE CheckTerminate(w)
  BY <1>0, <1>1, IdleMoveKeeps DEF CheckTerminate
<1>2. CASE GetSleep(w)
  BY <1>0, <1>2, IdleMoveKeeps DEF GetSleep
<1>3. CASE GetFalse(w)
  BY <1>0, <1>3, IdleMoveKeeps DEF GetFalse
<1>4. CASE GetTask(w)
  BY <1>4, GetTaskKeeps
<1>5. CASE Begin(w)
  BY <1>5, BeginKeeps
<1>6. CASE Finish(w)
  BY <1>6, FinishKeeps
<1>7. CASE NotifyIdle(w)
  <2> DEFINE base == [pc EXCEPT ![w] = "loop"]
  <2>1. /\ pc[w] = "notify" /\ UNCHANGED <<tasks, running, cur, status, poolVars, waiterVars>>
        /\ pc' = IF running = 0 /\ tasks = <<>> THEN WakeAll(base) ELSE base
    BY <1>7 DEF NotifyIdle
  <2>2. CASE pc' = base
    BY <1>0, <2>1, <2>2, IdleMoveKeeps
  <2>3. CASE pc' = WakeAll(base)
    <3> USE DEF IInv, poolVars, waiterVars
    <3>1. /\ pc' \in [Workers \cup Waiters -> PCs]
          /\ \A p \in Workers \cup Waiters :
               pc'[p] = IF p = w THEN "loop" ELSE IF pc[p] = "asleep" THEN "woken" ELSE pc[p]
      BY <2>1, <2>3 DEF WakeAll, TypeOK, PCs
    <3>2. TypeOK'
      BY <2>1, <3>1, ThreadPoolAssumption DEF TypeOK
    <3>3. QueueOnce' /\ HeldOnce'
      BY <2>1 DEF QueueOnce, HeldOnce, InQueue
    <3>4. HolderIsBusy'
      BY <2>1, <3>1 DEF HolderIsBusy
    <3>5. InFunction' = InFunction
      BY <2>1, <3>1 DEF InFunction
    <3>6. RunningCounted'
      BY <2>1, <3>5 DEF RunningCounted
    <3>7. JoinedAreGone'
      BY <1>0, <2>1, <3>1 DEF JoinedAreGone
    <3> QED BY <3>2, <3>3, <3>4, <3>6, <3>7
  <2> QED BY <2>1, <2>2, <2>3
<1> QED BY <1>1, <1>2, <1>3, <1>4, <1>5, <1>6, <1>7 DEF WorkerStep

(* A caller of waitForAllDone changes its own variables only.              *)
LEMMA WaiterKeeps ==
  ASSUME IInv, NEW v \in Waiters, NEW p \in {"idle", "asleep", "woken"},
         pc' = [pc EXCEPT ![v] = p],
         UNCHANGED <<tasks, running, cur, status, poolVars>>,
         timed' \in [Waiters -> BOOLEAN],
         awaited' \in [Waiters -> SUBSET Tasks],
         result' \in [Waiters -> {"none", "true", "false"}]
  PROVE  IInv'
<1> USE DEF IInv, poolVars
<1>1. \A x \in Workers : pc'[x] = pc[x]
  BY ThreadPoolAssumption DEF TypeOK
<1>2. TypeOK'
  BY ThreadPoolAssumption DEF TypeOK, PCs
<1>3. QueueOnce' /\ HeldOnce'
  BY DEF QueueOnce, HeldOnce, InQueue
<1>4. HolderIsBusy'
  BY <1>1 DEF HolderIsBusy
<1>5. InFunction' = InFunction
  BY <1>1 DEF InFunction
<1>6. RunningCounted'
  BY <1>5 DEF RunningCounted
<1>7. JoinedAreGone'
  BY <1>1 DEF JoinedAreGone
<1> QED BY <1>2, <1>3, <1>4, <1>6, <1>7

(* start() finds the workers of the last start gone.                       *)
LEMMA StartKeeps == ASSUME IInv, Start PROVE IInv'
<1> USE DEF IInv, poolVars, waiterVars
<1>1. /\ threads = "none" /\ threads' = "up"
      /\ pc' = [p \in DOMAIN pc |-> IF p \in Workers THEN "loop" ELSE pc[p]]
      /\ UNCHANGED <<tasks, terminate, running, cur, status, waiterVars>>
  BY DEF Start
<1>2. \A x \in Workers : pc[x] = "exited" /\ pc'[x] = "loop"
  BY <1>1 DEF JoinedAreGone, TypeOK
<1>3. TypeOK'
  BY <1>1, ThreadPoolAssumption DEF TypeOK, PCs
<1>4. QueueOnce' /\ HeldOnce'
  BY <1>1 DEF QueueOnce, HeldOnce, InQueue
<1>5. HolderIsBusy'
  BY <1>1, <1>2 DEF HolderIsBusy
<1>6. InFunction' = InFunction
  BY <1>2 DEF InFunction
<1>7. RunningCounted'
  BY <1>1, <1>6 DEF RunningCounted
<1>8. JoinedAreGone'
  BY <1>1 DEF JoinedAreGone
<1> QED BY <1>3, <1>4, <1>5, <1>7, <1>8

-----------------------------------------------------------------------------
(* Every step keeps the invariant.                                         *)
LEMMA StepIInv == IInv /\ [Next]_vars => IInv'
<1> SUFFICES ASSUME IInv, [Next]_vars PROVE IInv'
  OBVIOUS
<1>1. ASSUME NEW t \in Tasks, Exec(t) PROVE IInv'
  BY <1>1, ExecKeeps
<1>2. ASSUME NEW w \in Workers, WorkerStep(w) PROVE IInv'
  BY <1>2, WorkerKeeps
<1>3. ASSUME NEW p \in Workers \cup Waiters, SpuriousWakeup(p) PROVE IInv'
  <2>1. /\ pc' \in [Workers \cup Waiters -> PCs]
        /\ \A q \in Workers \cup Waiters :
             pc'[q] = pc[q] \/ (pc[q] = "asleep" /\ pc'[q] = "woken")
    BY <1>3 DEF SpuriousWakeup, IInv, TypeOK, PCs
  <2> QED BY <1>3, <2>1, WakeStepKeeps DEF SpuriousWakeup, poolVars, IInv, TypeOK
<1>4. ASSUME NEW v \in Waiters, NEW t \in BOOLEAN, WaitCall(v, t) PROVE IInv'
  <2>1. /\ timed' \in [Waiters -> BOOLEAN]
        /\ awaited' \in [Waiters -> SUBSET Tasks]
        /\ result' \in [Waiters -> {"none", "true", "false"}]
    BY <1>4 DEF WaitCall, IInv, TypeOK, Unfinished
  <2>2. pc' = [pc EXCEPT ![v] = "asleep"] \/ pc' = [pc EXCEPT ![v] = "idle"]
    BY <1>4 DEF WaitCall, IInv, TypeOK
  <2> QED BY <1>4, <2>1, <2>2, WaiterKeeps DEF WaitCall
<1>5. ASSUME NEW v \in Waiters, WaitResume(v) PROVE IInv'
  <2>1. /\ timed' \in [Waiters -> BOOLEAN]
        /\ awaited' \in [Waiters -> SUBSET Tasks]
        /\ result' \in [Waiters -> {"none", "true", "false"}]
    BY <1>5 DEF WaitResume, IInv, TypeOK
  <2> QED BY <1>5, <2>1, WaiterKeeps DEF WaitResume
<1>6. ASSUME NEW v \in Waiters, WaitTimeout(v) PROVE IInv'
  <2>1. /\ timed' \in [Waiters -> BOOLEAN]
        /\ awaited' \in [Waiters -> SUBSET Tasks]
        /\ result' \in [Waiters -> {"none", "true", "false"}]
    BY <1>6 DEF WaitTimeout, IInv, TypeOK
  <2> QED BY <1>6, <2>1, WaiterKeeps DEF WaitTimeout
<1>7. CASE Stop
  <2>1. /\ pc' \in [Workers \cup Waiters -> PCs]
        /\ \A q \in Workers \cup Waiters :
             pc'[q] = pc[q] \/ (pc[q] = "asleep" /\ pc'[q] = "woken")
    BY <1>7 DEF Stop, WakeAll, IInv, TypeOK, PCs
  <2> QED BY <1>7, <2>1, WakeStepKeeps DEF Stop
<1>8. CASE StopJoined
  BY <1>8 DEF StopJoined, IInv, TypeOK, QueueOnce, HeldOnce, InQueue, HolderIsBusy,
              RunningCounted, InFunction, JoinedAreGone, waiterVars
<1>9. CASE Start
  BY <1>9, StartKeeps
<1>10. CASE UNCHANGED vars
  BY <1>10 DEF vars, IInv, TypeOK, QueueOnce, HeldOnce, InQueue, HolderIsBusy,
               RunningCounted, InFunction, JoinedAreGone
<1> QED BY <1>1, <1>2, <1>3, <1>4, <1>5, <1>6, <1>7, <1>8, <1>9, <1>10 DEF Next

(* In a state of the invariant every task is in one place.                 *)
LEMMA IInvPlaces == IInv => TaskInOnePlace
<1> SUFFICES ASSUME IInv, NEW t \in Tasks
             PROVE  /\ Cardinality({i \in 1..Len(tasks) : tasks[i] = t}) =
                         IF status[t] = "queued" THEN 1 ELSE 0
                    /\ Cardinality({w \in Workers : cur[w] = t}) =
                         IF status[t] = "running" THEN 1 ELSE 0
  BY DEF TaskInOnePlace
<1> USE DEF IInv
<1> DEFINE Q == {i \in 1..Len(tasks) : tasks[i] = t}
           H == {w \in Workers : cur[w] = t}
<1>1. Cardinality(Q) = IF status[t] = "queued" THEN 1 ELSE 0
  <2>1. CASE status[t] = "queued"
    <3>1. PICK i \in 1..Len(tasks) : tasks[i] = t
      BY <2>1 DEF QueueOnce, InQueue
    <3>2. Q = {i}
      BY <3>1 DEF QueueOnce
    <3> QED BY <2>1, <3>2, FS_Singleton
  <2>2. CASE status[t] # "queued"
    <3>1. Q = {}
      BY <2>2 DEF QueueOnce, InQueue
    <3> QED BY <2>2, <3>1, FS_EmptySet
  <2> QED BY <2>1, <2>2
<1>2. Cardinality(H) = IF status[t] = "running" THEN 1 ELSE 0
  <2>1. CASE status[t] = "running"
    <3>1. PICK w \in Workers : cur[w] = t
      BY <2>1 DEF HeldOnce
    <3>2. H = {w}
      BY <3>1, ThreadPoolAssumption DEF HeldOnce
    <3> QED BY <2>1, <3>2, FS_Singleton
  <2>2. CASE status[t] # "running"
    <3>1. H = {}
      BY <2>2 DEF HeldOnce
    <3> QED BY <2>2, <3>1, FS_EmptySet
  <2> QED BY <2>1, <2>2
<1> QED BY <1>1, <1>2

(* A waiter goes back with "true" only over an empty queue.                *)
LEMMA TrueOverEmptyQueue ==
  ASSUME IInv, [Next]_vars, NEW v \in Waiters,
         pc[v] # "idle", pc'[v] = "idle", result'[v] = "true"
  PROVE  tasks = <<>>
<1> USE DEF IInv
<1>1. ASSUME NEW t \in Tasks, Exec(t) PROVE FALSE
  BY <1>1, NotifyOneWakes DEF Exec
<1>2. ASSUME NEW w \in Workers, WorkerStep(w) PROVE FALSE
  <2>1. w # v
    BY ThreadPoolAssumption
  <2>2. CASE NotifyIdle(w)
    BY <2>1, <2>2 DEF NotifyIdle, WakeAll, TypeOK
  <2>3. CASE ~NotifyIdle(w)
    BY <1>2, <2>1, <2>3 DEF WorkerStep, CheckTerminate, GetSleep, GetFalse, GetTask, Begin, Finish, TypeOK
  <2> QED BY <2>2, <2>3
<1>3. ASSUME NEW p \in Workers \cup Waiters, SpuriousWakeup(p) PROVE FALSE
  BY <1>3 DEF SpuriousWakeup, TypeOK
<1>4. ASSUME NEW x \in Waiters, NEW t \in BOOLEAN, WaitCall(x, t) PROVE FALSE
  BY <1>4 DEF WaitCall, TypeOK
<1>5. ASSUME NEW x \in Waiters, WaitResume(x) PROVE tasks = <<>>
  BY <1>5 DEF WaitResume, TypeOK
<1>6. ASSUME NEW x \in Waiters, WaitTimeout(x) PROVE tasks = <<>>
  BY <1>6 DEF WaitTimeout, TypeOK
<1>7. CASE Stop
  BY <1>7 DEF Stop, WakeAll, TypeOK
<1>8. CASE StopJoined
  BY <1>8 DEF StopJoined
<1>9. CASE Start
  BY <1>9, ThreadPoolAssumption DEF Start, TypeOK
<1>10. CASE UNCHANGED vars
  BY <1>10 DEF vars
<1> QED BY <1>1, <1>2, <1>3, <1>4, <1>5, <1>6, <1>7, <1>8, <1>9, <1>10 DEF Next

-----------------------------------------------------------------------------
(* The invariant holds in every state the pool reaches.                    *)
THEOREM Inductive == Spec => []IInv
<1>1. Init => IInv
  BY InitIInv
<1>2. IInv /\ [Next]_vars => IInv'
  BY StepIInv
<1> QED BY <1>1, <1>2, PTL DEF Spec, Safety

(* tasks_, atomic_, threads_ and the positions of all threads keep their   *)
(* types; the counter never exceeds the number of workers.                 *)
THEOREM TypeCorrect == Spec => []TypeOK
<1>1. IInv => TypeOK
  BY DEF IInv
<1> QED BY <1>1, Inductive, PTL

(* atomic_, changed outside the mutex, counts the workers inside a         *)
(* function exactly.                                                       *)
THEOREM CounterExact == Spec => []RunningCounted
<1>1. IInv => RunningCounted
  BY DEF IInv
<1> QED BY <1>1, Inductive, PTL

(* A submitted function is at one position of the queue or in the hands of *)
(* one worker: none is run twice, and none is lost, by exec() and get().   *)
THEOREM OnePlace == Spec => []TaskInOnePlace
<1> QED BY IInvPlaces, Inductive, PTL

(* When waitForAllDone returns true, every task that was unfinished at the *)
(* call has been taken by a worker.                                        *)
THEOREM TrueIsHonest == Spec => TrueMeansAllTaken
<1> DEFINE Honest == \A v \in Waiters :
             pc[v] # "idle" /\ pc'[v] = "idle" /\ result'[v] = "true"
               => \A t \in awaited[v] : status[t] # "queued"
<1>1. IInv /\ [Next]_vars => [Honest]_vars
  <2> SUFFICES ASSUME IInv, [Next]_vars, NEW v \in Waiters,
                      pc[v] # "idle", pc'[v] = "idle", result'[v] = "true",
                      NEW t \in awaited[v]
               PROVE  status[t] # "queued"
    OBVIOUS
  <2>1. tasks = <<>>
    BY TrueOverEmptyQueue
  <2>2. t \in Tasks
    BY DEF IInv, TypeOK
  <2> QED BY <2>1, <2>2 DEF IInv, QueueOnce, InQueue
<1> QED BY <1>1, Inductive, PTL DEF Spec, Safety, TrueMeansAllTaken

-----------------------------------------------------------------------------
(* Who is awake.  One condition variable serves workers and callers of     *)
(* waitForAllDone, so these invariants say that a wake-up never goes to    *)
(* somebody who lets it lapse while a task or a caller waits for it.       *)

(* Workers on their way to the queue.                                      *)
Coming == {w \in Workers : pc[w] \in {"loop", "get", "woken"}}

(* waitForAllDone has not been called: the server never does.              *)
NeverCalled == \A v \in Waiters : pc[v] = "idle" /\ result[v] = "none"

(* The last worker that finds the queue empty wakes the callers.           *)
CallerHasWorker ==
  \A v \in Waiters : pc[v] = "asleep" /\ tasks = <<>> =>
    \E w \in Workers : pc[w] \in {"popped", "running", "notify"}

QueuedIsSeen == ~terminate /\ tasks # <<>> => \E w \in Workers : pc[w] \notin {"asleep", "exited"}

WorkerPerTask == ~terminate /\ NeverCalled /\ IdleWorkers # {} => Len(tasks) <= Cardinality(Coming)

NobodySleepsInStop == terminate => IdleWorkers = {}

StopOnly == ~terminate => \A w \in Workers : pc[w] # "exited"

Awake == NobodySleepsInStop /\ StopOnly /\ QueuedIsSeen /\ CallerHasWorker

LEMMA InitAwake == Init => Awake /\ WorkerPerTask
BY DEF Init, Awake, NobodySleepsInStop, StopOnly, QueuedIsSeen, CallerHasWorker, WorkerPerTask, IdleWorkers

(* exec() wakes a worker when all of them sleep: nobody else sleeps then.  *)
LEMMA ExecWakes == ASSUME IInv, Awake, NEW t \in Tasks, Exec(t) PROVE Awake'
<1> USE DEF Awake
<1>1. /\ pc' \in [Workers \cup Waiters -> PCs]
      /\ \A p \in Workers \cup Waiters :
           pc'[p] = pc[p] \/ (pc[p] = "asleep" /\ pc'[p] = "woken")
      /\ terminate' = terminate
  BY NotifyOneWakes DEF Exec, poolVars, IInv
<1>2. NobodySleepsInStop' /\ StopOnly'
  BY <1>1 DEF NobodySleepsInStop, StopOnly, IdleWorkers
<1>3. tasks' # <<>>
  BY DEF Exec, IInv, TypeOK
<1>4. CallerHasWorker'
  BY <1>3 DEF CallerHasWorker
<1>5. QueuedIsSeen'
  <2> SUFFICES ASSUME ~terminate PROVE \E w \in Workers : pc'[w] \notin {"asleep", "exited"}
    BY <1>1 DEF QueuedIsSeen
  <2>1. CASE \E w \in Workers : pc[w] # "asleep"
    BY <1>1, <2>1 DEF StopOnly
  <2>2. CASE \A w \in Workers : pc[w] = "asleep"
    <3>1. Sleepers # {}
      BY <2>2, ThreadPoolAssumption DEF Sleepers
    <3>2. PICK s \in Sleepers : pc' = [pc EXCEPT ![s] = "woken"]
      BY <3>1 DEF Exec, NotifyOne
    <3>3. tasks = <<>>
      BY <2>2 DEF QueuedIsSeen
    <3>4. s \in Workers
      BY <2>2, <3>3 DEF CallerHasWorker, Sleepers
    <3> QED BY <3>2, <3>4 DEF IInv, TypeOK
  <2> QED BY <2>1, <2>2
<1> QED BY <1>2, <1>4, <1>5

(* A worker sleeps only over an empty queue, and before it does so after a *)
(* task it has woken the callers or somebody else is going to.             *)
LEMMA WorkerWakes == ASSUME IInv, Awake, NEW w \in Workers, WorkerStep(w) PROVE Awake'
<1> USE DEF Awake
<1>1. terminate' = terminate
  BY DEF WorkerStep, CheckTerminate, GetSleep, GetFalse, GetTask, Begin, Finish, NotifyIdle, poolVars
<1>2. ASSUME NEW p, pc' = [pc EXCEPT ![w] = p]
      PROVE  /\ \A x \in Workers : pc'[x] = IF x = w THEN p ELSE pc[x]
             /\ \A v \in Waiters : pc'[v] = pc[v]
  BY <1>2, ThreadPoolAssumption DEF IInv, TypeOK
<1>3. CASE CheckTerminate(w)
  <2>1. PICK p \in {"get", "exited"} : pc' = [pc EXCEPT ![w] = p] /\ (p = "exited" => terminate)
    BY <1>3 DEF CheckTerminate
  <2>2. tasks' = tasks /\ pc[w] = "loop"
    BY <1>3 DEF CheckTerminate
  <2> QED BY <1>1, <1>2, <2>1, <2>2 DEF NobodySleepsInStop, StopOnly, QueuedIsSeen, CallerHasWorker, IdleWorkers
<1>4. CASE GetSleep(w)
  <2>1. /\ pc[w] \in {"get", "woken"} /\ pc' = [pc EXCEPT ![w] = "asleep"]
        /\ tasks' = tasks /\ tasks = <<>> /\ ~terminate
    BY <1>4 DEF GetSleep
  <2>2. /\ \A x \in Workers : pc'[x] = IF x = w THEN "asleep" ELSE pc[x]
        /\ \A v \in Waiters : pc'[v] = pc[v]
    BY <1>2, <2>1
  <2>3. CallerHasWorker'
    BY <2>1, <2>2 DEF CallerHasWorker
  <2>4. QueuedIsSeen'
    BY <1>1, <2>1, <2>2 DEF QueuedIsSeen
  <2>5. NobodySleepsInStop' /\ StopOnly'
    BY <1>1, <2>1, <2>2 DEF NobodySleepsInStop, StopOnly, IdleWorkers
  <2> QED BY <2>3, <2>4, <2>5
<1>5. CASE GetFalse(w)
  BY <1>1, <1>2, <1>5 DEF GetFalse, NobodySleepsInStop, StopOnly, QueuedIsSeen, CallerHasWorker, IdleWorkers
<1>6. CASE GetTask(w)
  <2>1. /\ pc[w] \in {"get", "woken"} /\ pc' = [pc EXCEPT ![w] = "popped"]
    BY <1>6 DEF GetTask
  <2>2. /\ \A x \in Workers : pc'[x] = IF x = w THEN "popped" ELSE pc[x]
        /\ \A v \in Waiters : pc'[v] = pc[v]
    BY <1>2, <2>1
  <2>3. CallerHasWorker'
    BY <2>1, <2>2 DEF CallerHasWorker
  <2>4. QueuedIsSeen'
    BY <1>1, <2>1, <2>2 DEF QueuedIsSeen
  <2>5. NobodySleepsInStop' /\ StopOnly'
    BY <1>1, <2>1, <2>2 DEF NobodySleepsInStop, StopOnly, IdleWorkers
  <2> QED BY <2>3, <2>4, <2>5
<1>7. CASE Begin(w)
  BY <1>1, <1>2, <1>7 DEF Begin, NobodySleepsInStop, StopOnly, QueuedIsSeen, CallerHasWorker, IdleWorkers
<1>8. CASE Finish(w)
  BY <1>1, <1>2, <1>8 DEF Finish, NobodySleepsInStop, StopOnly, QueuedIsSeen, CallerHasWorker, IdleWorkers
<1>9. CASE NotifyIdle(w)
  <2> DEFINE base == [pc EXCEPT ![w] = "loop"]
  <2>1. pc[w] = "notify" /\ tasks' = tasks
    BY <1>9 DEF NotifyIdle
  <2>2. CASE running = 0 /\ tasks = <<>>
    <3>1. pc' = WakeAll(base)
      BY <1>9, <2>2 DEF NotifyIdle
    <3>2. \A x \in Workers \cup Waiters :
            pc'[x] = IF x = w THEN "loop" ELSE IF pc[x] = "asleep" THEN "woken" ELSE pc[x]
      BY <3>1 DEF WakeAll, IInv, TypeOK
    <3>3. \A x \in Workers \cup Waiters : pc'[x] # "asleep"
      BY <3>2
    <3>4. \A x \in Workers : pc'[x] = "exited" => pc[x] = "exited"
      BY <3>2
    <3> QED BY <1>1, <2>1, <2>2, <3>3, <3>4 DEF NobodySleepsInStop, StopOnly, QueuedIsSeen, CallerHasWorker, IdleWorkers
  <2>3. CASE ~(running = 0 /\ tasks = <<>>)
    <3>1. pc' = [pc EXCEPT ![w] = "loop"]
      BY <1>9, <2>3 DEF NotifyIdle
    <3>2. running # 0 => \E x \in Workers : pc[x] = "running"
      BY FS_EmptySet DEF IInv, RunningCounted, InFunction
    <3> QED BY <1>1, <1>2, <2>1, <2>3, <3>1, <3>2
            DEF NobodySleepsInStop, StopOnly, QueuedIsSeen, CallerHasWorker, IdleWorkers
  <2> QED BY <2>2, <2>3
<1> QED BY <1>3, <1>4, <1>5, <1>6, <1>7, <1>8, <1>9 DEF WorkerStep

LEMMA StepAwake == IInv /\ Awake /\ [Next]_vars => Awake'
<1> SUFFICES ASSUME IInv, Awake, [Next]_vars PROVE Awake'
  OBVIOUS
<1> USE DEF Awake
<1>1. ASSUME NEW t \in Tasks, Exec(t) PROVE Awake'
  BY <1>1, ExecWakes
<1>2. ASSUME NEW w \in Workers, WorkerStep(w) PROVE Awake'
  BY <1>2, WorkerWakes
<1>3. ASSUME NEW p \in Workers \cup Waiters, SpuriousWakeup(p) PROVE Awake'
  <2>1. /\ \A q \in Workers \cup Waiters : pc'[q] = IF q = p THEN "woken" ELSE pc[q]
        /\ pc[p] = "asleep" /\ terminate' = terminate /\ tasks' = tasks
    BY <1>3 DEF SpuriousWakeup, IInv, TypeOK, poolVars
  <2> QED BY <2>1 DEF NobodySleepsInStop, StopOnly, QueuedIsSeen, CallerHasWorker, IdleWorkers
<1>4. ASSUME NEW v \in Waiters, (\E t \in BOOLEAN : WaitCall(v, t)) \/ WaitResume(v) \/ WaitTimeout(v)
      PROVE  Awake'
  <2>1. terminate' = terminate /\ tasks' = tasks
    BY <1>4 DEF WaitCall, WaitResume, WaitTimeout, poolVars
  <2>2. /\ \A x \in (Workers \cup Waiters) \ {v} : pc'[x] = pc[x]
        /\ pc'[v] = "asleep" => tasks # <<>>
    BY <1>4 DEF WaitCall, WaitResume, WaitTimeout, IInv, TypeOK
  <2>3. \A x \in Workers : pc'[x] = pc[x]
    BY <2>2, ThreadPoolAssumption
  <2> QED BY <2>1, <2>2, <2>3 DEF NobodySleepsInStop, StopOnly, QueuedIsSeen, CallerHasWorker, IdleWorkers
<1>5. CASE Stop
  <2>1. /\ \A x \in Workers \cup Waiters : pc'[x] = IF pc[x] = "asleep" THEN "woken" ELSE pc[x]
        /\ terminate' = TRUE
    BY <1>5 DEF Stop, WakeAll, IInv, TypeOK
  <2> QED BY <2>1 DEF NobodySleepsInStop, StopOnly, QueuedIsSeen, CallerHasWorker, IdleWorkers
<1>6. CASE StopJoined
  BY <1>6 DEF StopJoined, NobodySleepsInStop, StopOnly, QueuedIsSeen, CallerHasWorker, IdleWorkers
<1>7. CASE Start
  <2>1. \A x \in Workers : pc[x] = "exited" /\ pc'[x] = "loop"
    BY <1>7 DEF Start, IInv, JoinedAreGone, TypeOK
  <2>2. (\A v \in Waiters : pc'[v] = pc[v]) /\ terminate' = terminate /\ tasks' = tasks
    BY <1>7, ThreadPoolAssumption DEF Start, IInv, TypeOK
  <2> QED BY <2>1, <2>2, ThreadPoolAssumption DEF NobodySleepsInStop, StopOnly, QueuedIsSeen, CallerHasWorker, IdleWorkers
<1>8. CASE UNCHANGED vars
  BY <1>8 DEF vars, NobodySleepsInStop, StopOnly, QueuedIsSeen, CallerHasWorker, IdleWorkers
<1> QED BY <1>1, <1>2, <1>3, <1>4, <1>5, <1>6, <1>7, <1>8 DEF Next

-----------------------------------------------------------------------------
(* Wake-ups are counted.                                                   *)

LEMMA SameOrMoreComing ==
  ASSUME IInv, WorkerPerTask, tasks' = tasks, terminate' = terminate,
         Coming \subseteq Coming', IdleWorkers' \subseteq IdleWorkers, NeverCalled' => NeverCalled
  PROVE  WorkerPerTask'
<1>1. Coming \in SUBSET Workers /\ Coming' \in SUBSET Workers /\ Len(tasks) \in Nat
  BY DEF Coming, IInv, TypeOK
<1>2. IsFiniteSet(Coming') /\ Cardinality(Coming) \in Nat /\ Cardinality(Coming') \in Nat
  BY <1>1, WorkersFinite
<1>3. Cardinality(Coming) <= Cardinality(Coming')
  BY <1>2, FS_Subset
<1>4. Len(tasks) <= Cardinality(Coming) => Len(tasks') <= Cardinality(Coming')
  BY <1>1, <1>2, <1>3
<1> QED BY <1>4 DEF WorkerPerTask

(* Before anybody has called waitForAllDone, exec() wakes a worker.        *)
LEMMA ExecCounts == ASSUME IInv, WorkerPerTask, NEW t \in Tasks, Exec(t) PROVE WorkerPerTask'
<1>1. SUFFICES ASSUME ~terminate, NeverCalled', IdleWorkers' # {}
               PROVE  Len(tasks') <= Cardinality(Coming')
  BY DEF WorkerPerTask, Exec, poolVars
<1>2. /\ \A p \in Workers \cup Waiters :
           pc'[p] = pc[p] \/ (pc[p] = "asleep" /\ pc'[p] = "woken")
      /\ result' = result
  BY NotifyOneWakes DEF Exec, waiterVars, IInv
<1>3. NeverCalled /\ IdleWorkers # {}
  BY <1>1, <1>2 DEF NeverCalled, IdleWorkers
<1>4. Sleepers = IdleWorkers
  BY <1>3 DEF NeverCalled, Sleepers, IdleWorkers
<1>5. PICK s \in IdleWorkers : pc' = [pc EXCEPT ![s] = "woken"]
  BY <1>3, <1>4 DEF Exec, NotifyOne
<1>6. s \in Workers /\ s \notin Coming /\ Coming' = Coming \cup {s}
  BY <1>5 DEF Coming, IdleWorkers, IInv, TypeOK
<1>7. Coming \in SUBSET Workers
  BY DEF Coming
<1>8. IsFiniteSet(Coming) /\ Cardinality(Coming) \in Nat
  BY <1>7, WorkersFinite
<1>9. Cardinality(Coming') = Cardinality(Coming) + 1
  BY <1>6, <1>8, FS_AddElement
<1>10. Len(tasks') = Len(tasks) + 1 /\ Len(tasks) \in Nat
  BY DEF Exec, IInv, TypeOK
<1>11. Len(tasks) <= Cardinality(Coming)
  BY <1>1, <1>3 DEF WorkerPerTask
<1> QED BY <1>8, <1>9, <1>10, <1>11

LEMMA GetTaskCounts == ASSUME IInv, WorkerPerTask, NEW w \in Workers, GetTask(w) PROVE WorkerPerTask'
<1>1. SUFFICES ASSUME ~terminate, NeverCalled', IdleWorkers' # {}
               PROVE  Len(tasks') <= Cardinality(Coming')
  BY DEF WorkerPerTask, GetTask, poolVars
<1>2. /\ \A p \in Workers \cup Waiters : pc'[p] = IF p = w THEN "popped" ELSE pc[p]
      /\ pc[w] \in {"get", "woken"} /\ result' = result /\ w \notin Waiters
  BY ThreadPoolAssumption DEF GetTask, waiterVars, IInv, TypeOK
<1>3. NeverCalled /\ IdleWorkers # {}
  BY <1>1, <1>2 DEF NeverCalled, IdleWorkers
<1>4. w \in Coming /\ Coming' = Coming \ {w}
  BY <1>2 DEF Coming
<1>5. Coming \in SUBSET Workers
  BY DEF Coming
<1>6. IsFiniteSet(Coming) /\ Cardinality(Coming) \in Nat
  BY <1>5, WorkersFinite
<1>7. Cardinality(Coming') = Cardinality(Coming) - 1
  BY <1>4, <1>6, FS_RemoveElement
<1>8. Len(tasks') = Len(tasks) - 1 /\ Len(tasks) \in Nat
  BY DEF GetTask, IInv, TypeOK
<1>9. Len(tasks) <= Cardinality(Coming)
  BY <1>1, <1>3 DEF WorkerPerTask
<1> QED BY <1>6, <1>7, <1>8, <1>9

LEMMA WorkerCounts == ASSUME IInv, WorkerPerTask, NEW w \in Workers, WorkerStep(w) PROVE WorkerPerTask'
<1>1. ASSUME NEW p, pc' = [pc EXCEPT ![w] = p]
      PROVE  /\ \A x \in Workers : pc'[x] = IF x = w THEN p ELSE pc[x]
             /\ \A v \in Waiters : pc'[v] = pc[v]
  BY <1>1, ThreadPoolAssumption DEF IInv, TypeOK
<1>2. CASE CheckTerminate(w) \/ GetFalse(w)
  <2>1. PICK p \in {"get", "exited"} : pc' = [pc EXCEPT ![w] = p] /\ (p = "exited" => terminate)
    BY <1>2 DEF CheckTerminate, GetFalse
  <2>2. /\ pc[w] \in {"loop", "get", "woken"} /\ tasks' = tasks /\ terminate' = terminate /\ result' = result
    BY <1>2 DEF CheckTerminate, GetFalse, poolVars, waiterVars
  <2>3. CASE p = "exited"
    BY <2>1, <2>2, <2>3 DEF WorkerPerTask
  <2>4. CASE p = "get"
    BY <1>1, <2>1, <2>2, <2>4, SameOrMoreComing DEF Coming, IdleWorkers, NeverCalled
  <2> QED BY <2>1, <2>3, <2>4
<1>3. CASE GetSleep(w)
  <2>1. Coming' \in SUBSET Workers /\ Len(tasks') = 0
    BY <1>3 DEF Coming, GetSleep
  <2>2. Cardinality(Coming') \in Nat
    BY <2>1, WorkersFinite
  <2> QED BY <2>1, <2>2 DEF WorkerPerTask
<1>4. CASE GetTask(w)
  BY <1>4, GetTaskCounts
<1>5. CASE Begin(w) \/ Finish(w)
  <2>1. /\ \E p \in {"running", "notify"} : pc' = [pc EXCEPT ![w] = p]
        /\ pc[w] \in {"popped", "running"} /\ tasks' = tasks /\ terminate' = terminate /\ result' = result
    BY <1>5 DEF Begin, Finish, poolVars, waiterVars
  <2> QED BY <1>1, <2>1, SameOrMoreComing DEF Coming, IdleWorkers, NeverCalled
<1>6. CASE NotifyIdle(w)
  <2>1. /\ \A x \in Workers \cup Waiters :
             pc'[x] = (IF x = w THEN "loop" ELSE pc[x]) \/ (x # w /\ pc[x] = "asleep" /\ pc'[x] = "woken")
        /\ pc[w] = "notify" /\ tasks' = tasks /\ terminate' = terminate /\ result' = result
    BY <1>6 DEF NotifyIdle, WakeAll, poolVars, waiterVars, IInv, TypeOK
  <2>2. Coming \subseteq Coming' /\ IdleWorkers' \subseteq IdleWorkers
    BY <2>1 DEF Coming, IdleWorkers
  <2>3. NeverCalled' => NeverCalled
    BY <2>1, ThreadPoolAssumption DEF NeverCalled
  <2> QED BY <2>1, <2>2, <2>3, SameOrMoreComing
<1> QED BY <1>2, <1>3, <1>4, <1>5, <1>6 DEF WorkerStep

LEMMA StepCounts == IInv /\ WorkerPerTask /\ [Next]_vars => WorkerPerTask'
<1> SUFFICES ASSUME IInv, WorkerPerTask, [Next]_vars PROVE WorkerPerTask'
  OBVIOUS
<1>1. ASSUME NEW t \in Tasks, Exec(t) PROVE WorkerPerTask'
  BY <1>1, ExecCounts
<1>2. ASSUME NEW w \in Workers, WorkerStep(w) PROVE WorkerPerTask'
  BY <1>2, WorkerCounts
<1>3. ASSUME NEW p \in Workers \cup Waiters, SpuriousWakeup(p) PROVE WorkerPerTask'
  <2>1. /\ \A q \in Workers \cup Waiters : pc'[q] = IF q = p THEN "woken" ELSE pc[q]
        /\ pc[p] = "asleep" /\ terminate' = terminate /\ tasks' = tasks /\ result' = result
    BY <1>3 DEF SpuriousWakeup, IInv, TypeOK, poolVars, waiterVars
  <2> QED BY <2>1, SameOrMoreComing DEF Coming, IdleWorkers, NeverCalled
<1>4. ASSUME NEW v \in Waiters, (\E t \in BOOLEAN : WaitCall(v, t)) \/ WaitResume(v) \/ WaitTimeout(v)
      PROVE  WorkerPerTask'
  <2>1. pc'[v] # "idle" \/ result'[v] # "none"
    BY <1>4 DEF WaitCall, WaitResume, WaitTimeout, IInv, TypeOK
  <2> QED BY <2>1 DEF WorkerPerTask, NeverCalled
<1>5. CASE Stop
  BY <1>5 DEF Stop, WorkerPerTask
<1>6. CASE Start
  <2>1. IdleWorkers' = {}
    BY <1>6 DEF Start, IInv, TypeOK, IdleWorkers
  <2> QED BY <2>1 DEF WorkerPerTask
<1>7. CASE StopJoined \/ UNCHANGED vars
  BY <1>7 DEF StopJoined, vars, waiterVars, WorkerPerTask, NeverCalled, IdleWorkers, Coming
<1> QED BY <1>1, <1>2, <1>3, <1>4, <1>5, <1>6, <1>7 DEF Next

-----------------------------------------------------------------------------
LEMMA AwakeAlways == Spec => []Awake
<1>1. IInv /\ Awake /\ [Next]_vars => Awake'
  BY StepAwake
<1>2. Init => Awake
  BY InitAwake
<1> QED BY <1>1, <1>2, Inductive, PTL DEF Spec, Safety

(* What EveryTaskRuns rests on: while the pool is not stopped, a queued    *)
(* task is never left to workers that all sleep, although exec() wakes one *)
(* sleeper only and that may be a caller of waitForAllDone.                *)
THEOREM QueueIsSeen == Spec => []QueuedIsSeen
<1>1. Awake => QueuedIsSeen
  BY DEF Awake
<1> QED BY <1>1, AwakeAlways, PTL

(* The same for functions that hang, as long as nobody has called          *)
(* waitForAllDone: if a worker sleeps, there are as many workers on their  *)
(* way to the queue as it has tasks, so no task depends on a worker whose  *)
(* function never returns.                                                 *)
THEOREM WakeupsSuffice == Spec => []WorkerPerTask
<1>1. IInv /\ WorkerPerTask /\ [Next]_vars => WorkerPerTask'
  BY StepCounts
<1>2. Init => WorkerPerTask
  BY InitAwake
<1> QED BY <1>1, <1>2, Inductive, PTL DEF Spec, Safety

(* What WaitReturns rests on: when a caller of waitForAllDone sleeps over  *)
(* an empty queue, a worker is in or behind a task whose end wakes all     *)
(* sleepers, although only the worker that finds atomic_ zero does so.     *)
THEOREM CallersAreWoken == Spec => []CallerHasWorker
<1>1. Awake => CallerHasWorker
  BY DEF Awake
<1> QED BY <1>1, AwakeAlways, PTL

(* What StopReturns rests on: after stop() has set bTerminate_ no worker   *)
(* is asleep or goes to sleep, so the joins wait for functions only; also  *)
(* when start() has been called again, which does not reset bTerminate_.   *)
THEOREM StopFindsThemAwake == Spec => []NobodySleepsInStop
<1>1. Awake => NobodySleepsInStop
  BY DEF Awake
<1> QED BY <1>1, AwakeAlways, PTL
=============================================================================
