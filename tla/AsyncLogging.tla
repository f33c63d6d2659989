---------------------------- MODULE AsyncLogging ----------------------------
(***************************************************************************)
(* The asynchronous log (log/AsyncLogging.{h,cc}).  Threads append lines   *)
(* to a buffer under mutex_; a writing thread takes the full buffers, and  *)
(* at least once per flush interval the current one too, and writes them   *)
(* to the file without the mutex.                                          *)
(*                                                                         *)
(* A line is its number in the order of the append calls, a buffer is the  *)
(* sequence of its lines and holds Capacity of them.  An append is one     *)
(* critical section and one step.  The writing thread is split where       *)
(* others can come in between: at its first statement, at the unlocked     *)
(* test of running_, at the lock, between the wait's predicate and its     *)
(* sleep (stop() does not take the mutex), in the sleep, and after the     *)
(* swap, when the file is written.                                         *)
(***************************************************************************)
EXTENDS Integers, Sequences, Functions

CONSTANTS MaxLines,   \* bound: lines appended in a behaviour
          Capacity,   \* lines that fit in a buffer (kLargeBuffer)
          MaxQueued   \* buffers beyond which the writer drops (25 in the code)

ASSUME LogAssumption ==
  /\ MaxLines \in Nat
  /\ Capacity \in Nat \ {0}
  /\ MaxQueued \in Nat \ {0}

VARIABLES lines,        \* how many lines have been appended
          current,      \* *currentBuffer_
          hasNext,      \* nextBuffer_ is not null
          buffers,      \* buffers_
          running,      \* running_
          stop,         \* the call of stop(): "none", "joining" or "joined"
          pc,           \* where the writing thread is; "aborted" ends the process
          has1, has2,   \* newBuffer1 and newBuffer2 are not null
          toWrite,      \* buffersToWrite
          file,         \* the buffers written, in order
          dropped       \* the buffers thrown away by the overflow branch

front == <<lines, current, hasNext, buffers>>   \* guarded by mutex_
back  == <<has1, has2, toWrite, file, dropped>> \* the writing thread's own
vars  == <<front, running, stop, pc, back>>

Init ==
  /\ lines = 0
  /\ current = <<>>
  /\ hasNext = TRUE
  /\ buffers = <<>>
  /\ running = FALSE
  /\ stop = "none"
  /\ pc = "new"
  /\ has1 = TRUE /\ has2 = TRUE
  /\ toWrite = <<>>
  /\ file = <<>>
  /\ dropped = {}

(* start(): the flag is set before the thread exists.                      *)
Start ==
  /\ pc = "new"
  /\ running' = TRUE
  /\ pc' = "first"
  /\ UNCHANGED <<front, stop, back>>

Notify == pc' = IF pc = "asleep" THEN "woken" ELSE pc

-----------------------------------------------------------------------------
(* append() needs the mutex, which the writing thread holds from its       *)
(* predicate until it sleeps, and a process that lives.                    *)
MutexFree == pc \notin {"falling", "aborted"}

AppendFits ==
  /\ MutexFree
  /\ lines < MaxLines
  /\ Len(current) < Capacity
  /\ lines' = lines + 1
  /\ current' = Append(current, lines + 1)
  /\ UNCHANGED <<hasNext, buffers, running, stop, pc, back>>

(* Mutant: the line that did not fit is not appended to the new buffer.    *)
AppendFullForgets ==
  /\ MutexFree
  /\ lines < MaxLines
  /\ Len(current) >= Capacity
  /\ lines' = lines + 1
  /\ buffers' = Append(buffers, current)
  /\ hasNext' = FALSE
  /\ current' = <<>>
  /\ Notify
  /\ UNCHANGED <<running, stop, back>>

(* Mutant: the writing thread is not notified.                             *)
AppendFullSilently ==
  /\ MutexFree
  /\ lines < MaxLines
  /\ Len(current) >= Capacity
  /\ lines' = lines + 1
  /\ buffers' = Append(buffers, current)
  /\ hasNext' = FALSE
  /\ current' = <<lines + 1>>
  /\ UNCHANGED <<running, stop, pc, back>>

(* The line does not fit: the buffer is queued, nextBuffer_ or else a new  *)
(* one takes its place, and the writing thread is notified.                *)
AppendFull ==
  /\ MutexFree
  /\ lines < MaxLines
  /\ Len(current) >= Capacity
  /\ lines' = lines + 1
  /\ buffers' = Append(buffers, current)
  /\ hasNext' = FALSE
  /\ current' = <<lines + 1>>
  /\ Notify
  /\ UNCHANGED <<running, stop, back>>

(* stop(): the flag and the notification, without the mutex; then join().  *)
Stop ==
  /\ running
  /\ stop = "none"
  /\ running' = FALSE
  /\ stop' = "joining"
  /\ Notify
  /\ UNCHANGED <<front, back>>

Joined ==
  /\ stop = "joining"
  /\ pc = "done"
  /\ stop' = "joined"
  /\ UNCHANGED <<front, running, pc, back>>

-----------------------------------------------------------------------------
(* The first statement of the thread, assert(running_ == true), in which   *)
(* the process ends if stop() was faster.                                  *)
Begin ==
  /\ pc = "first"
  /\ pc' = IF running THEN "loop" ELSE "aborted"
  /\ UNCHANGED <<front, running, stop, back>>

(* while (running_), without the mutex.                                    *)
Loop ==
  /\ pc = "loop"
  /\ pc' = IF running THEN "lock" ELSE "done"
  /\ UNCHANGED <<front, running, stop, back>>

(* buffers_ is empty and so is the predicate's other half: the thread will *)
(* sleep, and still holds the mutex.                                       *)
WaitCheck ==
  /\ pc \in {"lock", "woken"}
  /\ buffers = <<>>
  /\ running
  /\ pc' = "falling"
  /\ UNCHANGED <<front, running, stop, back>>

FallAsleep ==
  /\ pc = "falling"
  /\ pc' = "asleep"
  /\ UNCHANGED <<front, running, stop, back>>

SpuriousWakeup ==
  /\ pc = "asleep"
  /\ pc' = "woken"
  /\ UNCHANGED <<front, running, stop, back>>

(* Mutant: wait instead of wait_for.                                       *)
ExpireNever == FALSE /\ UNCHANGED vars

(* The flush interval is over.                                             *)
Expire ==
  /\ pc = "asleep"
  /\ pc' = "expired"
  /\ UNCHANGED <<front, running, stop, back>>

(* Back with the mutex and past the wait.                                  *)
PastWait ==
  \/ pc = "expired"
  \/ pc \in {"lock", "woken"} /\ (buffers # <<>> \/ ~running)

(* Mutant: only the full buffers are taken.                                *)
SwapFullOnly ==
  /\ PastWait
  /\ toWrite' = buffers
  /\ buffers' = <<>>
  /\ hasNext' = TRUE
  /\ has2' = (has2 /\ hasNext)
  /\ has1' = has1
  /\ pc' = "write"
  /\ UNCHANGED <<lines, current, running, stop, file, dropped>>

(* The current buffer, full or not, goes with the queued ones, and the two *)
(* spare buffers take the empty places.                                    *)
Swap ==
  /\ PastWait
  /\ toWrite' = Append(buffers, current)
  /\ buffers' = <<>>
  /\ current' = <<>>
  /\ has1' = FALSE
  /\ hasNext' = TRUE
  /\ has2' = (has2 /\ hasNext)
  /\ pc' = "write"
  /\ UNCHANGED <<lines, running, stop, file, dropped>>

(* Mutant: one buffer survives the overflow.                               *)
KeptOne(s) == IF Len(s) > MaxQueued THEN SubSeq(s, 1, 1) ELSE s

(* Too many buffers: all but the two oldest are dropped.                   *)
Kept(s) == IF Len(s) > MaxQueued THEN SubSeq(s, 1, 2) ELSE s

(* An empty buffer adds nothing to the file; only the last can be empty.   *)
Filled(s) == IF s # <<>> /\ s[Len(s)] = <<>> THEN SubSeq(s, 1, Len(s) - 1) ELSE s

(* Write what is kept, then make the written buffers the two spare ones    *)
(* again: the last of at most two becomes newBuffer1 (null since the       *)
(* swap), the other newBuffer2 unless that is still there.                 *)
Write ==
  /\ pc = "write"
  /\ file' = file \o Filled(Kept(toWrite))
  /\ dropped' = dropped \cup
        ({toWrite[i] : i \in (Len(Kept(toWrite)) + 1)..Len(toWrite)} \ {<<>>})
  /\ has1' = (has1 \/ Kept(toWrite) # <<>>)
  /\ has2' = (has2 \/ Len(Kept(toWrite)) >= 2)
  /\ toWrite' = <<>>
  /\ pc' = "loop"
  /\ UNCHANGED <<front, running, stop>>

WriterStep ==
  Begin \/ Loop \/ WaitCheck \/ FallAsleep \/ Expire \/ Swap \/ Write

Next ==
  \/ Start \/ AppendFits \/ AppendFull \/ Stop \/ Joined
  \/ SpuriousWakeup
  \/ Begin \/ Loop \/ WaitCheck \/ FallAsleep \/ Expire \/ Swap \/ Write

Safety == Init /\ [][Next]_vars

(* The writing thread runs when it can, the flush interval passes, and     *)
(* join() returns when the thread has ended.  A wake-up without cause may  *)
(* send the thread back to sleep before the interval is over, but          *)
(* wait_for keeps its deadline, hence strong fairness for Expire.          *)
Fairness ==
  /\ WF_vars(WriterStep)
  /\ SF_vars(Expire)
  /\ WF_vars(Joined)

Spec == Safety /\ Fairness

-----------------------------------------------------------------------------
PCs == {"new", "first", "aborted", "loop", "lock", "falling", "asleep", "woken",
        "expired", "write", "done"}

Buffer == {b \in Seq(Nat) : Len(b) <= Capacity}

(* The types, and that no buffer holds more than fits.                     *)
TypeOK ==
  /\ lines \in Nat
  /\ current \in Buffer
  /\ hasNext \in BOOLEAN /\ has1 \in BOOLEAN /\ has2 \in BOOLEAN
  /\ buffers \in Seq(Buffer) /\ toWrite \in Seq(Buffer) /\ file \in Seq(Buffer)
  /\ dropped \subseteq Buffer
  /\ running \in BOOLEAN
  /\ stop \in {"none", "joining", "joined"}
  /\ pc \in PCs

(* What holds of the assertions of threadFunc.  The first one fails only   *)
(* when stop() was called before the thread's first statement (line 66);   *)
(* those in the loop never fail: both spare buffers are there and nothing  *)
(* waits to be written when the loop begins (lines 76-78), something is    *)
(* written after the swap (108), and the written buffers that are left     *)
(* suffice for the spare ones that are missing (139, 147).  The second     *)
(* spare buffer is gone only if append() used nextBuffer_, and then the    *)
(* queue held a buffer besides the current one, unless too few were kept.  *)
AssertsHold ==
  /\ pc = "aborted" => stop # "none"
  /\ pc \notin {"write", "done"} => has1 /\ has2 /\ toWrite = <<>>
  /\ pc = "write" =>
        /\ toWrite # <<>>
        /\ ~has1 => Len(Kept(toWrite)) >= 1
        /\ ~has1 /\ ~has2 => Len(Kept(toWrite)) >= 2

(* A queued buffer is never beside a sleeping writer: the predicate and    *)
(* the sleep are one critical section for append(), and append() notifies. *)
QueuedMeansAwake == buffers # <<>> => pc # "asleep"

(* All buffers with lines that were not dropped, oldest first.             *)
Everything == file \o toWrite \o buffers \o <<current>>

(* The lines of a sequence of buffers, one buffer after the other, were    *)
(* appended in that order, none of them twice.                             *)
InOrder(s) ==
  \A p, q \in DOMAIN s : \A i \in DOMAIN s[p], j \in DOMAIN s[q] :
    p < q \/ (p = q /\ i < j) => s[p][i] < s[q][j]

(* Every appended line is in the file, on its way there or in a buffer,    *)
(* once and in the order of the calls, unless the overflow branch threw it *)
(* away, and then it is not in the file: no line is lost, duplicated or    *)
(* overtaken by the hand-over of buffers between the threads.              *)
LinesInOrder ==
  /\ InOrder(Everything)
  /\ UNION {Range(b) : b \in Range(Everything) \cup dropped} = 1..lines
  /\ \A b \in dropped, c \in Range(Everything) : Range(b) \cap Range(c) = {}

(* stop() returns although its notification may come between the           *)
(* predicate and the sleep, where nobody hears it: the sleep is timed.     *)
(* Only a stop() that comes before the first statement of the thread does  *)
(* not return, as the process ends there.                                  *)
StopReturns == stop = "joining" ~> (stop = "joined" \/ pc = "aborted")

(* While the log runs, every line leaves memory within finite time, even   *)
(* when no further line ever fills the buffer.                             *)
LinesLeaveMemory ==
  \A i \in 1..MaxLines :
    (running /\ i <= lines) ~>
      (~running \/ \E b \in Range(file) \cup dropped : i \in Range(b))
=============================================================================
