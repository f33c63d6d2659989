----------------------------- MODULE ThreadPool -----------------------------
(***************************************************************************)
(* The worker pool of base/ThreadPool.{h,cpp}.  The server submits every   *)
(* login request to it; the class also offers waitForAllDone, stop and a   *)
(* deadline per task.                                                      *)
(*                                                                         *)
(* A critical section of mutex_ is one step.  One condition variable       *)
(* serves two kinds of sleepers, idle workers and callers of               *)
(* waitForAllDone, so notify_one may choose either.  bTerminate_ is also   *)
(* read without the mutex by isTerminate(): that read may be stale.        *)
(***************************************************************************)
EXTENDS Integers, Sequences, FiniteSets

CONSTANTS Workers,    \* the threads created by start()
          Waiters,    \* threads that may call waitForAllDone
          Tasks,      \* functions that may be submitted, each once
          Deadlined,  \* tasks submitted with timeoutMs # 0
          Hanging,    \* tasks whose function may never return
          NoTask,     \* a null TaskFuncPtr
          MayStop,    \* whether stop() may be called
          MayRestart  \* whether start() may be called after stop()

ASSUME ThreadPoolAssumption ==
  /\ IsFiniteSet(Workers) /\ Workers # {}
  /\ Workers \cap Waiters = {}
  /\ Deadlined \subseteq Tasks /\ Hanging \subseteq Tasks
  /\ NoTask \notin Tasks
  /\ MayStop \in BOOLEAN /\ MayRestart \in BOOLEAN

VARIABLES tasks,       \* tasks_, front first
          terminate,   \* bTerminate_
          running,     \* atomic_
          pc,          \* position of every worker and waiter
          cur,         \* the task a worker popped
          status,      \* what became of a task (history)
          threads,     \* "up", "joining" or "none": the contents of threads_
          timed,       \* whether a waitForAllDone call has a time limit
          awaited,     \* tasks unfinished when waitForAllDone was called (history)
          result       \* what waitForAllDone returned last

vars == <<tasks, terminate, running, pc, cur, status, threads, timed, awaited, result>>

poolVars   == <<terminate, threads>>
waiterVars == <<timed, awaited, result>>

Sleepers    == {p \in Workers \cup Waiters : pc[p] = "asleep"}
IdleWorkers == {w \in Workers : pc[w] = "asleep"}
Unfinished  == {t \in Tasks : status[t] \in {"queued", "running"}}

(* pc after notify_one or notify_all; p is the notifying thread's new pc.  *)
NotifyOne(base) ==
  IF Sleepers = {}
  THEN pc' = base
  ELSE \E s \in Sleepers : pc' = [base EXCEPT ![s] = "woken"]

WakeAll(base) == [p \in DOMAIN base |-> IF base[p] = "asleep" THEN "woken" ELSE base[p]]

-----------------------------------------------------------------------------
(* init() and start() have run: main calls them before anything submits.   *)
Init ==
  /\ tasks = <<>>
  /\ terminate = FALSE
  /\ running = 0
  /\ pc = [p \in Workers \cup Waiters |-> IF p \in Workers THEN "loop" ELSE "idle"]
  /\ cur = [w \in Workers |-> NoTask]
  /\ status = [t \in Tasks |-> "new"]
  /\ threads = "up"
  /\ timed = [v \in Waiters |-> FALSE]
  /\ awaited = [v \in Waiters |-> {}]
  /\ result = [v \in Waiters |-> "none"]

(* Mutant: notify_one only when the queue was empty - a "saved" wake-up.   *)
ExecNotifiesOnEmptyOnly(t) ==
  /\ status[t] = "new"
  /\ tasks' = Append(tasks, t)
  /\ status' = [status EXCEPT ![t] = "queued"]
  /\ IF tasks = <<>> THEN NotifyOne(pc) ELSE UNCHANGED pc
  /\ UNCHANGED <<running, cur, poolVars, waiterVars>>

(* exec(): push, then notify_one under the same lock.                      *)
Exec(t) ==
  /\ status[t] = "new"
  /\ tasks' = Append(tasks, t)
  /\ status' = [status EXCEPT ![t] = "queued"]
  /\ NotifyOne(pc)
  /\ UNCHANGED <<running, cur, poolVars, waiterVars>>

(* run(): while (!isTerminate()), an unlocked read that may miss a stop(). *)
CheckTerminate(w) ==
  /\ pc[w] = "loop"
  /\ \/ pc' = [pc EXCEPT ![w] = "get"]
     \/ terminate /\ pc' = [pc EXCEPT ![w] = "exited"]
  /\ UNCHANGED <<tasks, running, cur, status, poolVars, waiterVars>>

(* get(): the three outcomes of the critical section that a worker enters  *)
(* by calling it or by waking up inside it.                                *)
GetSleep(w) ==
  /\ pc[w] \in {"get", "woken"}
  /\ tasks = <<>> /\ ~terminate
  /\ pc' = [pc EXCEPT ![w] = "asleep"]
  /\ UNCHANGED <<tasks, running, cur, status, poolVars, waiterVars>>

(* get() returns false; having held the mutex after stop() released it,    *)
(* the worker's next isTerminate() reads true.                             *)
GetFalse(w) ==
  /\ pc[w] \in {"get", "woken"}
  /\ terminate
  /\ pc' = [pc EXCEPT ![w] = "exited"]
  /\ UNCHANGED <<tasks, running, cur, status, poolVars, waiterVars>>

(* Mutant: pop forgotten.                                                  *)
GetTaskKeepsIt(w) ==
  /\ pc[w] \in {"get", "woken"}
  /\ tasks # <<>> /\ ~terminate
  /\ cur' = [cur EXCEPT ![w] = Head(tasks)]
  /\ status' = [status EXCEPT ![Head(tasks)] = "running"]
  /\ pc' = [pc EXCEPT ![w] = "popped"]
  /\ UNCHANGED <<tasks, running, poolVars, waiterVars>>

GetTask(w) ==
  /\ pc[w] \in {"get", "woken"}
  /\ tasks # <<>> /\ ~terminate
  /\ cur' = [cur EXCEPT ![w] = Head(tasks)]
  /\ tasks' = Tail(tasks)
  /\ status' = [status EXCEPT ![Head(tasks)] = "running"]
  /\ pc' = [pc EXCEPT ![w] = "popped"]
  /\ UNCHANGED <<running, poolVars, waiterVars>>

(* ++atomic_, outside the mutex.                                           *)
Begin(w) ==
  /\ pc[w] = "popped"
  /\ running' = running + 1
  /\ pc' = [pc EXCEPT ![w] = "running"]
  /\ UNCHANGED <<tasks, cur, status, poolVars, waiterVars>>

(* The function returns or throws, or is skipped because its deadline has  *)
(* passed; then --atomic_, before the mutex is taken.                      *)
Finish(w) ==
  /\ pc[w] = "running"
  /\ \/ status' = [status EXCEPT ![cur[w]] = "done"]
     \/ cur[w] \in Deadlined /\ status' = [status EXCEPT ![cur[w]] = "dropped"]
  /\ cur' = [cur EXCEPT ![w] = NoTask]
  /\ running' = running - 1
  /\ pc' = [pc EXCEPT ![w] = "notify"]
  /\ UNCHANGED <<tasks, poolVars, waiterVars>>

(* Mutant: one notify_one in place of notify_all.                          *)
NotifyIdleOne(w) ==
  /\ pc[w] = "notify"
  /\ LET base == [pc EXCEPT ![w] = "loop"]
     IN  IF running = 0 /\ tasks = <<>> THEN NotifyOne(base) ELSE pc' = base
  /\ UNCHANGED <<tasks, running, cur, status, poolVars, waiterVars>>

(* The check after a task that wakes waitForAllDone.                       *)
NotifyIdle(w) ==
  /\ pc[w] = "notify"
  /\ LET base == [pc EXCEPT ![w] = "loop"]
     IN  pc' = IF running = 0 /\ tasks = <<>> THEN WakeAll(base) ELSE base
  /\ UNCHANGED <<tasks, running, cur, status, poolVars, waiterVars>>

SpuriousWakeup(p) ==
  /\ pc[p] = "asleep"
  /\ pc' = [pc EXCEPT ![p] = "woken"]
  /\ UNCHANGED <<tasks, running, cur, status, poolVars, waiterVars>>

-----------------------------------------------------------------------------
(* waitForAllDone(): true at once on an empty queue, else wait for one.    *)
WaitCall(v, t) ==
  /\ pc[v] = "idle"
  /\ timed' = [timed EXCEPT ![v] = t]
  /\ awaited' = [awaited EXCEPT ![v] = Unfinished]
  /\ IF tasks = <<>>
     THEN /\ result' = [result EXCEPT ![v] = "true"]
          /\ UNCHANGED pc
     ELSE /\ result' = [result EXCEPT ![v] = "none"]
          /\ pc' = [pc EXCEPT ![v] = "asleep"]
  /\ UNCHANGED <<tasks, running, cur, status, poolVars>>

(* Mutant: wait() without a predicate.                                     *)
WaitResumeUnchecked(v) ==
  /\ pc[v] = "woken"
  /\ pc' = [pc EXCEPT ![v] = "idle"]
  /\ result' = [result EXCEPT ![v] = "true"]
  /\ UNCHANGED <<tasks, running, cur, status, poolVars, timed, awaited>>

(* The predicate of both waits is tasks_.empty(), and nothing else.        *)
WaitResume(v) ==
  /\ pc[v] = "woken"
  /\ IF tasks = <<>>
     THEN /\ pc' = [pc EXCEPT ![v] = "idle"]
          /\ result' = [result EXCEPT ![v] = "true"]
     ELSE /\ pc' = [pc EXCEPT ![v] = "asleep"]
          /\ UNCHANGED result
  /\ UNCHANGED <<tasks, running, cur, status, poolVars, timed, awaited>>

WaitTimeout(v) ==
  /\ pc[v] = "asleep"
  /\ timed[v]
  /\ pc' = [pc EXCEPT ![v] = "idle"]
  /\ result' = [result EXCEPT ![v] = IF tasks = <<>> THEN "true" ELSE "false"]
  /\ UNCHANGED <<tasks, running, cur, status, poolVars, timed, awaited>>

-----------------------------------------------------------------------------
(* Mutant: notify_one in place of notify_all.                              *)
StopWakesOne ==
  /\ MayStop
  /\ threads = "up"
  /\ terminate' = TRUE
  /\ NotifyOne(pc)
  /\ threads' = "joining"
  /\ UNCHANGED <<tasks, running, cur, status, waiterVars>>

(* stop(): set the flag and wake everybody, join every worker, clear.      *)
Stop ==
  /\ MayStop
  /\ threads = "up"
  /\ terminate' = TRUE
  /\ pc' = WakeAll(pc)
  /\ threads' = "joining"
  /\ UNCHANGED <<tasks, running, cur, status, waiterVars>>

StopJoined ==
  /\ threads = "joining"
  /\ \A w \in Workers : pc[w] = "exited"
  /\ threads' = "none"
  /\ UNCHANGED <<tasks, terminate, running, pc, cur, status, waiterVars>>

(* start() creates the threads again; nothing resets bTerminate_.          *)
Start ==
  /\ MayRestart
  /\ threads = "none"
  /\ threads' = "up"
  /\ pc' = [p \in DOMAIN pc |-> IF p \in Workers THEN "loop" ELSE pc[p]]
  /\ UNCHANGED <<tasks, terminate, running, cur, status, waiterVars>>

WorkerStep(w) ==
  \/ CheckTerminate(w)
  \/ GetSleep(w) \/ GetFalse(w) \/ GetTask(w)
  \/ Begin(w) \/ Finish(w) \/ NotifyIdle(w)

Next ==
  \/ \E t \in Tasks : Exec(t)
  \/ \E w \in Workers : WorkerStep(w)
  \/ \E p \in Workers \cup Waiters : SpuriousWakeup(p)
  \/ \E v \in Waiters :
        \/ \E t \in BOOLEAN : WaitCall(v, t)
        \/ WaitResume(v)
        \/ WaitTimeout(v)
  \/ Stop \/ StopJoined \/ Start

(* Workers and woken waiters are scheduled; functions return, unless they  *)
(* are in Hanging; stop() finishes joining.  Callers owe nothing.          *)
Fairness ==
  /\ \A w \in Workers :
        WF_vars(WorkerStep(w) /\ (pc[w] = "running" => cur[w] \notin Hanging))
  /\ \A v \in Waiters : WF_vars(WaitResume(v))
  /\ WF_vars(StopJoined)

Safety == Init /\ [][Next]_vars
Spec   == Safety /\ Fairness

-----------------------------------------------------------------------------
PCs == {"loop", "get", "asleep", "woken", "popped", "running", "notify", "exited", "idle"}

(* Types, and which positions a worker and a waiter may be at.             *)
TypeOK ==
  /\ tasks \in Seq(Tasks)
  /\ terminate \in BOOLEAN
  /\ running \in 0..Cardinality(Workers)
  /\ pc \in [Workers \cup Waiters -> PCs]
  /\ \A w \in Workers : pc[w] # "idle"
  /\ \A v \in Waiters : pc[v] \in {"idle", "asleep", "woken"}
  /\ cur \in [Workers -> Tasks \cup {NoTask}]
  /\ status \in [Tasks -> {"new", "queued", "running", "done", "dropped"}]
  /\ threads \in {"up", "joining", "none"}
  /\ timed \in [Waiters -> BOOLEAN]
  /\ awaited \in [Waiters -> SUBSET Tasks]
  /\ result \in [Waiters -> {"none", "true", "false"}]

(* A submitted function is in exactly one place, once: at one position of  *)
(* the queue, or in the hands of one worker, until it has run.             *)
TaskInOnePlace ==
  \A t \in Tasks :
    /\ Cardinality({i \in 1..Len(tasks) : tasks[i] = t}) =
         IF status[t] = "queued" THEN 1 ELSE 0
    /\ Cardinality({w \in Workers : cur[w] = t}) =
         IF status[t] = "running" THEN 1 ELSE 0

(* A function that never returns is being run.                             *)
Hung == \E w \in Workers : pc[w] = "running" /\ cur[w] \in Hanging

(* Every submitted task is run or dropped for its deadline, unless the     *)
(* pool is stopped - even when another function never returns, as long as  *)
(* nobody calls waitForAllDone, who could take a worker's wake-up with him *)
(* (the server never does).                                                *)
EveryTaskRuns ==
  \A t \in Tasks :
    status[t] = "queued" ~>
      \/ status[t] # "queued"
      \/ terminate
      \/ Hung /\ \E v \in Waiters : pc[v] # "idle" \/ result[v] # "none"

(* stop() returns: no worker sleeps through it; only a function that never *)
(* returns can hold it up.                                                 *)
StopReturns == threads = "joining" ~> threads = "none" \/ Hung

(* waitForAllDone returns when the pool goes on working.                   *)
WaitReturns ==
  \A v \in Waiters : pc[v] # "idle" ~> (pc[v] = "idle" \/ terminate \/ Hung)

(* When waitForAllDone returns true, every task that was unfinished at the *)
(* time of the call has at least been taken by a worker.                   *)
TrueMeansAllTaken ==
  [][\A v \in Waiters :
       pc[v] # "idle" /\ pc'[v] = "idle" /\ result'[v] = "true"
         => \A t \in awaited[v] : status[t] # "queued"]_vars
=============================================================================
