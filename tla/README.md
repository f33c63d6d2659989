# Formal models of CloudFile_Server

CloudFile_Server is a C++ HTTP server for a file-sharing site.  One thread runs
an edge-triggered epoll loop; it parses requests, runs the handlers of `api/`
and writes the answers.  The handlers keep the lists of files in MySQL,
counters, tokens and the ranking of shared files in Redis, and the contents of
files in FastDFS.  Only a login runs on a worker thread; its answer comes back
to the loop through a list.  A log thread writes the log.

This directory holds TLA+ modules translated from the source, the TLC
configurations that check them on small instances, and proofs checked by TLAPS.
`tlc -config X.cfg M` repeats a run, `tlapm M.tla` a proof.  `PROJECT.json`
lists the runs, the source lines behind every definition (`map`), the hazards
each property is for, a mutated definition that each property detects, the
findings and the theorems.

| To read | Section |
|---|---|
| what the system consists of and what can go wrong | 1 |
| which module models what | 2, 3 |
| what was checked, with which bounds and fairness | 4 |
| what is proved and how | 5 |
| where code and comments disagree, and other observations | 6 |
| what is not modelled, and what comes next | 7, 8 |

## 1. Inventory

### 1.1 Components

| Component | State | Operations | Interacts with |
|---|---|---|---|
| Connection pools `CDBPool`, `CachePool` (`mysql/DBPool.cpp`, `redis/CachePool.cpp`) | free list, connection counter, abort flag; one mutex, one condition variable | `Init`, `GetDBConn(timeout)`, `RelDBConn`, destructor | every handler and every login takes connections from both |
| Connections `CDBConn`, `CacheConn` | client handle, time of the last attempt to connect | queries and commands, automatic reconnection | MySQL and Redis |
| `ThreadPool` (`base/ThreadPool.{h,cpp}`) | task queue, terminate flag, running counter, threads; one condition variable for two kinds of sleepers | `init`, `start`, `exec`, `run`/`get`, `waitForAllDone`, `stop` | the event loop submits logins |
| Event loop (`base/EventDispatch.cpp`, `base/BaseSocket.cpp`, `base/netlib.cpp`) | map of descriptors to sockets, epoll set, lists of timers and loop callbacks | accept, read, write and close events, timers, loop callbacks | calls `CHttpConn` back |
| `CHttpConn` (`HttpConn.cpp`) | input and output buffer, busy flag, maps from handle and from uuid, list of login answers | `OnRead`, `OnWrite`, `OnClose`, `Send`, `Close`, `AddResponseData`, `SendResponseDataList` | parser, handlers, thread pool |
| Request parser (`HttpParserWrapper`, `http_parser`) | parser state of one request, the URL, the body and six headers it keeps | `ParseHttpContent`, `http_parser_execute` and its callbacks | `CHttpConn::OnRead` |
| Redis client library (`redis/hiredis.c`, `net.c`, `read.c`) | socket, output buffer, reader with a stack of nested replies | connecting, formatting, writing, reading a reply, freeing | `CacheConn` |
| JSON (`jsoncpp`) and the `decodeXxxJson` of the handlers | the text, the stack of containers, the values | `Reader::parse`, `FastWriter::write`, conversions of `Value` | every handler |
| File lists (`api/ApiUpload`, `ApiMd5`, `ApiDealfile`, `ApiMyfiles`) | tables `file_info` (reference counts), `user_file_list`; `FILE_USER_COUNT`; contents in FastDFS | upload, instant upload, save, delete, download, count | MySQL, Redis, FastDFS |
| Shared files (`api/ApiDealfile`, `ApiDealsharefile`, `ApiSharefiles`) | table `share_file_list`; `FILE_PUBLIC_ZSET`, `FILE_NAME_HASH`, `FILE_PUBLIC_COUNT` | share, cancel, save, download, count, ranking | MySQL, Redis |
| Shared pictures (`api/ApiSharepicture`) | table `share_picture_list`; `SHARE_PIC_COUNT`; the same reference counts | share, cancel, browse, list | MySQL, Redis, FastDFS |
| Accounts (`api/ApiLogin`, `ApiRegister`, `Common`) | `user_info`; tokens in Redis | login (on a worker), register, `VerifyToken` | MySQL, Redis |
| `AsyncLogging` (`log/AsyncLogging.{h,cc}`) | four buffers, two vectors of buffers, running flag; one mutex, one condition variable | `start`, `append`, `threadFunc`, `stop` | every thread appends, one thread writes |
| `LogFile`, `AppendFile`, log front end (`log/`) | the open file, counters for rolling | `append`, `rollFile`, formatting | `AsyncLogging` |
| Start (`main.cpp`), configuration | pools, thread pool, log, listening socket | `main`, `ApiInit` | everything |
| Utilities (`base/UtilPdu`, `util`, `Lock`), test client | - | - | - |

### 1.2 Threads and what they share

* The **event loop** owns the sockets, the `CHttpConn` objects and their maps,
  and runs all handlers except login.  Handlers therefore never interleave with
  each other, but each is a sequence of statements to three stores without a
  transaction.
* **Workers** run the closures that bind `CHttpConn::_HandleLoginRequest` for logins.  They hold the
  raw `this` of a connection that the loop may delete meanwhile, take connections
  from both pools, and write counters that handlers change at the same time.
* The **log thread** shares the buffers with everybody.

### 1.3 What is hard, and the properties that make each part correct

* **Pools**: a wait splits `GetDBConn`; between a notification and the woken
  thread's turn others take the connection.  Correct means: a connection has
  one user, the counter that limits growth is exact, no wake-up is lost, nobody
  waits while nobody can release, and a free connection reaches a waiter.
* **Both pools, and Redis that goes away**: a request holds a connection of one pool
  while it waits in the other; a `CacheConn` notices only with its next command that
  Redis has gone.  Correct means: requests never wait for each other in a circle,
  a context is used by one thread only, and a connection comes back at the cost
  of one failed command.
* **Thread pool**: idle workers and callers of `waitForAllDone` sleep on the same
  condition variable, `bTerminate_` is read without the mutex and `atomic_` is
  changed outside it.  Correct means: a task runs once, no task waits beside a
  worker that could take it, every waiter is told, and `stop` returns.
* **Event loop and connections**: edge-triggered readiness is reported once;
  descriptors, heap addresses and events outlive the connection they belong to;
  a response may need many writes.  Correct means: events and answers reach
  their connection or nobody, nothing readable or writable is forgotten, a
  complete request ends, and a connection is closed only for a reason.
* **Parser**: a request comes in pieces, the parser starts again with each, and its
  state machine has some sixty states, modular arithmetic on lengths and assertions that
  end the process.  Correct means: what is handed on is what was sent, not before
  it is complete, and no input makes an assertion fail.
* **hiredis**: system calls fail and replies arrive in pieces in the middle of
  anything.  Correct means: Redis executes the command with the arguments the
  caller gave, the caller gets the reply of this command or an error that the
  context remembers, no descriptor is lost, and a command returns.
* **JSON**: numbers have three widths, strings end at a NUL, errors are recovered
  from by skipping.  Correct means: exactly the grammar's values are accepted, what
  is written is read back, and a handler works with what its client sent.
* **File handlers**: a failing statement or a crash in the middle leaves MySQL,
  Redis and FastDFS in between; Redis is a cache that is repaired now and then;
  a login races with handlers.  Correct means: a reference count never
  undercounts, the tables that mirror each other agree, the ranking can be
  displayed, and counters do not count what is gone.
* **Log**: the hand-over of buffers between two threads, a `stop` that notifies
  without the mutex, an overflow that must leave enough buffers to go on.
  Correct means: no line is lost, repeated or reordered, the assertions hold,
  and neither a line nor a caller of `stop` waits for ever.

## 2. The modules

| Module | Models | Depends on |
|---|---|---|
| `ConnPool` | `CDBPool` and `CachePool` | - |
| `ConnLease` | abstract specification: who owns a connection | - |
| `MCConnPool` | instance for TLC; `PoolImplementsLeases`, the refinement mapping | `ConnPool`, `ConnLease` |
| `ConnPoolProofs` | theorems: invariants of `ConnPool`; `ConnPool` implements `ConnLease` | `MCConnPool` |
| `RedisConn` | `CacheConn`: connecting again, answers that do not come, Redis itself | - |
| `RequestPools` | requests that lease from both pools and talk to Redis | `ConnLease` (twice), `RedisConn` |
| `RequestPoolsProofs` | theorems about `RequestPools` | `RequestPools` |
| `ThreadPool`, `ThreadPoolProofs` | the class `ThreadPool`, theorems about it | - |
| `HttpServer` | event loop, sockets, `CHttpConn`, workers as the loop sees them, clients and kernel | - |
| `HttpServerProofs` | theorems about `HttpServer` | `HttpServer` |
| `HttpParser` | `http_parser_execute`, `CHttpParserWrapper`, the reads that feed them | - |
| `MCHttpParser` | requests and altered buffers for TLC | `HttpParser` |
| `HttpParserProofs` | the assertions of the parser, for every buffer | `HttpParser` |
| `RedisCommand` | how hiredis formats a command, and how Redis reads it | - |
| `Hiredis` | connecting, writing, the reply reader, errors, freeing | `RedisCommand` |
| `HiredisReplies` | what a whole reply means: a reader that has all of its bytes at once | `Hiredis` |
| `MCHiredis` | commands and replies for TLC | `HiredisReplies` |
| `HiredisProofs` | theorems about `Hiredis`, and about the length and the reading of a command | `HiredisReplies` |
| `Json` | `Json::Reader`, `FastWriter`, the conversions, the handlers' decode functions | - |
| `MCJson` | numerals, strings and text beginnings for TLC | `Json` |
| `FileStore` | the handlers of `api/` on MySQL, Redis and FastDFS, logins on a worker, failures and restarts | - |
| `MCFileStore` | instance for TLC, symmetry | `FileStore` |
| `FileStoreProofs` | theorems about `FileStore`: tables that agree, counts and the rows they count | `FileStore` |
| `AsyncLogging`, `AsyncLoggingProofs` | the asynchronous log, theorems about it | - |

`FileStore`, `RequestPools` and `Hiredis` see Redis at three depths: what its data
are, whether an answer comes, and how an answer comes.  What `RequestPools` assumes of
the pools is proved of `ConnPool`; what `RedisConn` assumes of a command (it ends, with
an answer or without one and with an error in the context) is checked (`CommandsReturn`)
and proved (`NullMeansError`) of `Hiredis`; what `HttpServer` assumes of the parser (a request is
complete with its last byte and not before) is checked of `HttpParser`
(`RequestReadExactly`).

Operators named as mutants in a comment (`TakeFrontKeepsIt`, `KeptOne`, ...) are
not part of a specification: each is a definition changed the way a plausible bug
would change it, and `PROJECT.json` says which property notices.

## 3. From code to state and actions

### 3.1 `ConnPool`

`freeList`, `curConnCnt` and `abortRequest` are the fields of the class; `pc`,
`held` and `timed` say where each calling thread is.  One critical section of
`m_mutex` is one step.  `GetFree`, `GetNew` and `GetWait` are the three ways
through `GetDBConn` (`GetWait` gives the mutex up); `SpuriousWakeup` and `Timeout`
are the condition variable's; `ResumeTake`, `ResumeNull` and `ResumeSleep` are the
three ways on with the mutex held again; `Rel` is `RelDBConn` with its search of
the free list and its `notify_one`; `Abort` is the destructor.  `CachePool` has the
same statements on its own fields (the two files were compared line by line), so
one module stands for both.

`ConnLease` says what a caller may rely on: a connection belongs to the pool, to
one client or to nobody yet, and moves between them one at a time.  `MCConnPool`
maps the free list and `held` to that owner function.

### 3.2 `ThreadPool`

`tasks`, `terminate`, `running` and `threads` are `tasks_`, `bTerminate_`, `atomic_` and
the state of `threads_`; `pc` and `cur` are the workers, `timed`, `awaited` and `result`
the callers of `waitForAllDone`; `status` is history.  `CheckTerminate` is the
unlocked read in `run`, `GetSleep`, `GetFalse` and `GetTask` are the outcomes of `get`,
`Begin`, `Finish` and `NotifyIdle` run a task and report the idle pool - three steps
because `atomic_` changes outside the mutex.  `awaited` keeps which tasks were
unfinished when `waitForAllDone` was called.

### 3.3 `HttpServer`

One connection is a record of `conn`: the kernel's side (`sent`, `fin`, `rst`,
`delivered`, `drained`, `win`) and the server's side (`inbuf`, `busy`, `out`).  `ready` and `listenEdge` are epoll's edges, `batch` what
`epoll_wait` returned, `mem` says which connection was last constructed at an
address, `jobs` and `work` are the thread pool, `respList` the list of answers.  The
event loop handles one event per step, then the loop callback sends the answers
one per step.  Bytes are counted in units; a request is `RequestLen` of them.
A login's worker reads `m_uuid` through its raw pointer, so it reads the uuid of
whatever connection now lives at that address.

### 3.4 `FileStore`

Every table and every Redis key is a variable (section 1.1; `kept` stands for
FastDFS).  `ApiUpload`, `ApiMd5`, `ApiMyfiles`, `ApiDealfile`, `ApiDealsharefile`, `ApiSharefiles`
and `ApiSharepicture` are the functions of that name: the choice of a command and of its
arguments.  A handler is one step, because the event loop runs it to its end; its
parameter `cut` names the statement before which the handler stops, because that
statement failed or the process died, and `lost` a statement whose failure the
code ignores.  So every prefix of every handler is an outcome; the loop of `Ranking`
over the rows of `share_file_list`, which is one numbered statement, may end after
any `ZADD` or `HSET` (`Reloaded`).  The handlers act on whatever file or digest the
request names, also when its user does not list the file, the file is not
shared, or the digest is gone; `Late` counts such requests.  A login on a
worker is four steps, with handlers in between.  `Crash` ends the process, `Restart`
is `main` with `ApiInit`.  `ZsetExit` is what the code asks Redis with `ZLEXCOUNT`:
it may answer wrongly when scores differ, since Redis defines the command for
equal scores only.  Three variables are history: `short[m]` is how many references the
count of a digest has missed, `unlisted` holds the rows of `share_file_list` whose user did not
list the file, and `stale` the users whose counter may be too high for good.

### 3.5 `AsyncLogging`

`current`, `hasNext` and `buffers` are the front end (`currentBuffer_`, whether
`nextBuffer_` is there, `buffers_`), `has1`, `has2` and `toWrite` the writing thread's own
(`newBuffer1`, `newBuffer2`, `buffersToWrite`).  A line is the number of its append
call; a buffer the sequence of its lines; `file` the buffers written and `dropped`
those thrown away.  `Begin` is the first statement of the writing thread, an assertion
that ends the process (`pc = "aborted"`) when `stop` was faster.  `WaitCheck` (predicate false, mutex held) and `FallAsleep` are
two steps because `stop` does not take the mutex; `append` does, so it is disabled
in between.  `Swap` is the critical section after the wait, `Write` everything after
it, which touches only the thread's own buffers.

### 3.6 `RequestPools` and `RedisConn`

`dbOwner` and `cacheOwner` are the owners in two instances of `ConnLease`; `job` is the
rest of a request, a list of functions, each a list of the pools it takes a
connection from.  `LeaseDb` and `LeaseCache` take them in that order, `ReleaseDb` and
`ReleaseCache` give them back in reverse, as the guards `AUTO_REL_DBCONN` and
`AUTO_REL_CACHECONN` do.  `CommandInit` and `Exchange` are the two halves of a Redis
command, between which Redis may stop; a function issues at most one, which is
enough because a connection keeps its state for the next function.

In `RedisConn`, `ctx` is `m_pContext` (none, live, or dead when its peer is gone), `recent`
whether `m_last_connect_time` lies in the current second (`Tick` ends it), `server` is
Redis, which after a start answers errors while it loads.  The 29 commands fall
into three classes by what they do without an answer: `Dropping` free the context,
`Keeping` leaves it (`hget` into a buffer), `Dying` read through the null pointer, which
ends the process (`alive`).  `calm` and `strikes` are history.  `AUTH` does not occur
because `CacheManager` passes an empty password; MySQL is taken to be reachable.

### 3.7 `HttpParser`

The buffer is a sequence of symbols: characters, and one symbol for each header
name and keyword, so that the letter-by-letter matching (`h_matching_...`) is reduced
to what it decides.  `h` is `m_http_parser` (state, header state, flags, method and
index, `content_length` modulo `MaxUint + 1`, `nread`, error), `mark` the four marks, `w` the
members of the wrapper.  `OnRead` is `CHttpConn::OnRead` up to the parsing: bytes are
appended, a buffer that is too long closes the connection, parser and wrapper are
reset.  Each other action is one turn of the switch and is named after its state;
`Advance` and `reexecute_byte` are the two ends of a turn.  For a well-formed request
the cut positions are free; a buffer that need not be a request comes at once.

### 3.8 `RedisCommand` and `Hiredis`

`RedisCommand` holds the functions: `redisvFormatCommand` with its conversions,
`redisFormatSdsCommandArgv`, the lengths they compute beforehand (`totlen`), and Redis'
own reading of a command.  In `Hiredis`, `c` is `redisContext`, `r` is `redisReader` with its
task stack and objects, `wire` the TCP connection in both directions, `sockets` the
open descriptors, `served` what Redis executed last.  `Resolve`, `Socket`, `Connect`,
`WaitReady` and `Ready` are the loop of `_redisContextConnectTcp` over the addresses;
`StartCommand`, `BufferWrite`, `BufferRead`, `GetReply` and `EndCommand` are a command
between `CacheConn` and the library; `ItemType`, `LineItem`, `BulkItem`, `MultiBulkItem` and
`Emit` are one item of a reply each.  A write or read moves any number of bytes.  Every
system call and allocation may fail, which takes one of `MaxFaults` faults.  `Execute`
(Redis) and `Lost` (the network) are external.

`HiredisReplies` is a reference to compare the reader with: `Steps` takes a type byte or a
whole item off the front of the bytes that are left, without buffer, position, connection or
errors (`[rest, made]` is all its state).  Objects and the task stack are made by the same
operators (`Create`, `Deeper`, `moveToNextTask`) as in `Hiredis`; `RepliesAssumption` says that
reading all bytes of a call's reply in this way ends with the call's `tree`, which is written
down independently in `MCHiredis`, and TLC evaluates it for every reply of the run.

### 3.9 `Json`

`doc` is the text as tokens, which a client chooses one at a time while the reader
asks for them (`open`), or which `FastWriter` produced for a known value (`sent`).  The
recursion of `readValue`, `readArray` and `readObject` is the stack `nodes`; `pc` names the
place where the next token is read, and each action is one such place.
`recoverFromError` skips to the closing token.  Numbers are computed as the code does,
with its thresholds, at reduced widths; a double is an integral number of the smallest
unit a double has, `sscanf` rounds a numeral to `SignificandBits` bits (`NearestDouble`) and
`"%.16g"` prints `PrintedDigits` digits (`realToString`), both to the nearest and ties to
even.  Infinities, which numerals beyond all doubles give, and -0 are left out.  Strings are cut where a C string ends.
When the parse has ended, `Handle` runs one of the twelve decode functions on the
value.

## 4. The runs

### 4.1 Passing runs

| Run | Instance | What it shows |
|---|---|---|
| `conn_pool` | 5 threads, 1 connection at first and 2 at most, with and without time limits, destruction | `ExclusiveConn`, `ConnsAccounted`, `NoLostWakeup`, `SleepersHaveReleaser`; a free connection reaches a waiter or another taker (`FreeConnReachesWaiter`); the pool implements `ConnLease` |
| `request_pools` | the loop and 2 workers with a request each, 1 MySQL connection, 1 to 2 Redis connections, Redis stops once | `ContextOwned`: nobody frees a context that another thread is about to use; `OneFailureAfterRestart`; `RequestsEnd`: no circle of waiting threads |
| `thread_pool` | 2 workers, 1 waiter, 3 tasks, one with a deadline and one that may hang; stop and a second start | `TaskInOnePlace`; `EveryTaskRuns` although a login hangs for ever; `StopReturns`, `WaitReturns`, `TrueMeansAllTaken` |
| `http_reuse` | 2 connections one after the other on 1 descriptor and 1 address, a login and a refused request | `NoStaleEvent`, `AnswerToAsker`, `RequestEnds` |
| `http_concurrent` | 2 connections at once, slow readers | `CloseHasReason`, `NothingForgotten` |
| `http_parser` | requests with every method, URL form, header and body encoding, cut anywhere; 19 symbols put at every place of 18 buffers | `RequestReadExactly`, `ParserAssertions` |
| `hiredis` | 2 or 3 commands on a context, replies of every type, nested and broken, formats with every kind of conversion; up to 3 faults | `ReplyMatchesCommand`, `NullMeansError`, `ReaderAssertions`, `NoSocketLost`, `CommandsReturn` |
| `json` | texts of up to nine tokens, every numeral of up to three digits, decimals with and without an exponent, for every handler every object of its fields | `AcceptsTheGrammar`, `ReadsBackWhatIsWritten`, `HandlersGetWhatIsSent` |
| `file_store` | 2 users, 2 file names with the same contents; 1 late request, failing statement, crash, login or download at any place | what several statements write agrees: `ExactWithoutFaults`, `SharedIsListed`, `OneSharer`, `RankedHaveNames`; what a failure may break: `CountCoversReferences`; what a login may break: `NeverOvercounted` |
| `async_log` | 9 lines, 2 per buffer, overflow beyond 3 buffers, a stop at any time | `AssertsHold`, `QueuedMeansAwake`, `LinesInOrder`, `StopReturns`, `LinesLeaveMemory` |

### 4.2 Runs that end in a counterexample

Each checks one sentence of a comment of the repository against the code
(section 6): `http_peer_close_doc` and `store_listed_doc`.

### 4.3 Bounds

* **Pools**: three threads suffice for a holder, a sleeper and a newcomer that
  overtakes it; five give two holders, two sleepers and a newcomer, so one
  notification may reach the wrong one of two.  Two connections make duplicates
  possible.  The theorems of section 5 hold for all sizes.
* **Requests**: three threads compete for one MySQL connection while the Redis pool
  may grow from one connection to two, so a thread may hold one and wait for the
  other in both directions, grow while Redis is down, and inherit a dead context.
  One stop of Redis suffices: `OneFailureAfterRestart` counts from its return.
* **Thread pool**: two workers and a waiter are the smallest set in which
  `notify_one` can be spent on the wrong kind of sleeper; three tasks, one of them
  hanging, let two queue up behind one worker.  Stop and restart may come at any time.
* **HTTP**: two connections with one descriptor and one address force every reuse;
  a request of two units arrives in two reads, a response of two units needs two
  writes when the window is one; `MaxSent` lets a client send more than a request,
  and more than `BufLimit`.
* **Parser**: `MaxUint = 31` makes lengths of two digits wrap, as twenty digits do at 64
  bits.  `HTTP_MAX_HEADER_SIZE = 60` and `MaxRequest = 80` exchange the order the two have
  in the build (80 KB and 2048 bytes), so that the limit of the parser is met at all.
  Each keyword is one symbol, so no letter of a header name is altered.
* **hiredis**: `MaxDepth = 2` instead of 8 and `DiscardAt = 4` instead of 1024, so that
  nested replies pass the limit and the buffer is cut; `LLONG_MAX = 127`.  Two
  addresses suffice for "this one, then the next".  Three faults let an error come
  during the handling of an error.  The run has 408 839 states.
* **JSON**: the widths are 8 and 4 bits, so that all numerals of three digits include
  every limit, one more and one less, and its tenths.  A double has 5 bits and is written
  with 2 digits; as with 53 and 16, an integer of all written digits fits
  `LargestInt`, and the digits are one too few to name every double (`WidthAssumption`).  `MaxTokens = 5` after a beginning
  of up to four tokens reaches three nested containers.
* **Store**: two users and two names of one digest give up to four rows and a
  picture on one count.  `MaxDisturbances` bounds the disturbances of one behaviour -
  late requests, failing statements, crashes, logins, downloads - to one, with all
  sequences of undisturbed requests before and after it.  Two in one behaviour were not
  explored; the theorems of section 5.7 hold for any number.
* **Log**: nine lines in buffers of two fill four buffers while the file is
  written, one more than the bound of three, so the overflow happens; the code's
  bound is 25.

Deadlock is checked where the system should always go on (thread pool, HTTP).
The pool ends after destruction, the requests when all are served, the log after
`stop`, a parse with its text, a sequence of Redis commands with its last, and the
store when its bounds are used up and every count is settled; those runs say
`CHECK_DEADLOCK FALSE`.

### 4.4 Fairness

| Module | Assumed | Why |
|---|---|---|
| `ConnPool` | a woken thread gets the mutex; a holder returns its connection | the scheduler runs every thread; handlers return and the guard object releases in its destructor.  Nothing is assumed of timeouts, spurious wake-ups or new calls |
| `RequestPools` | a thread that serves a request goes on, and gets a connection when one is there | scheduler, and `FreeConnReachesWaiter` of the pools.  Redis, the clock and the arrival of requests are not obliged to anything |
| `ThreadPool` | workers and woken waiters run; functions end, except those in `Hanging`; `join` returns when the threads have ended | scheduler.  Callers are not obliged to submit, wait or stop |
| `HttpServer` | the loop and the workers run; a client that is still there reads | scheduler; a client that does not read and does not close can hold its connection, so `Drain` is needed for `RequestEnds`.  Clients are never obliged to send, close or reset |
| `AsyncLogging` | the writing thread runs and the flush interval passes (strong fairness for `Expire`, since a wake-up without cause may send the thread back to sleep) | `wait_for` computes its deadline once; appending and stopping are not assumed |
| `Hiredis` | the calling thread runs (`Command`); Redis executes what has come (`Execute`) | scheduler; a Redis that accepts a command and never answers would block the caller for ever, since no read timeout is set (6.2).  A lost connection is not obliged to anything |
| `FileStore`, `HttpParser` | none, only safety is checked | - |
| `Json` | the parse goes on; used by no property | - |

## 5. Proofs

TLAPS checks every step of the eight proof modules.  The theorems hold for every value
of the constants that satisfies the named assumptions.  Each module proves an
inductive invariant `IInv` (`Init => IInv`, one lemma per action for the step) and derives
its theorems from it.  Every safety property of the runs is proved but those of
section 5.10.

### 5.1 `ConnPoolProofs`

Assumption `PoolAssumption`: finitely many threads and connection objects, a
minimum of at least one connection, any maximum (also one below the minimum).

* `TypeCorrect`, `Exclusive`, `Accounted`, `WakeupsNotLost`: `Spec => []TypeOK`,
  `[]ExclusiveConn`, `[]ConnsAccounted`, `[]NoLostWakeup`.
* `SleepersNotAlone`: `Spec => []SleepersHaveReleaser`, which follows from the above.

None of the invariants is inductive alone.  `IInv` joins them with `HolderIsUsing`
(a thread is past `GetDBConn` exactly while it holds a connection: without it a
release could push `NULL` or a connection of somebody else) and with
`abortRequest => Asleep = {}` (without it the destructor would leave the wake-up
accounting meaningless).  `NoLostWakeup` compares the length of the list with the
number of woken threads, so its steps are about cardinalities: every push wakes a
sleeper if there is one, every pop is done by a thread that is woken or when
nobody sleeps.  `SleepersNotAlone` is the counting argument that a full pool with
sleepers has a holder or a woken thread: there are at least `MinConn >= 1`
connections, and each is held or in the list.

### 5.2 `AsyncLoggingProofs`

Assumption `LogAssumption`: a buffer holds at least one line, the overflow bound
is at least one buffer.

* `TypeCorrect`: types, and that no buffer holds more than fits.
* `AssertionsNeverFail`: the six assertions in the loop of `threadFunc` hold; the one before
  the loop (`AsyncLogging.cc:66`) fails only when `stop` was called before the thread's first
  statement, as it may (6.2).
* `QueuedNeverBesideSleeper`: no full buffer is queued beside a sleeping writer.
* `NoLineLost`: `Spec => []LinesInOrder`, the main result: file, `buffersToWrite`,
  `buffers_` and `currentBuffer_`, read one after the other, hold every line once and
  in the order of the append calls, except the lines of dropped buffers, which
  appear nowhere else.

The inductive invariant adds four facts.  `SpareUsedMeansQueued`: `nextBuffer_` is
null only while a buffer is queued - hence, when both spare buffers are used up by
a swap, two buffers are there to replace them, and the overflow branch keeps two.
`SwapTakesSpare`: during writing `newBuffer1` is null, so the last written buffer
replaces it and not `newBuffer2`.  `QueueEmptyInWait`: nothing is queued between the
predicate and the sleep.  `StopClears`: only `stop` clears `running_`.  `NoLineLost` rests on lemmas about sequences of buffers
in order: appending a later line or an empty buffer keeps the order
(`LedgerLine`, `LedgerEmpty`), and so does removing a middle part, whose lines then
occur in no other buffer (`LedgerDrop`, by an order-preserving map of positions).

### 5.3 The refinement, in `ConnPoolProofs`

`Implements`: `Spec => PoolImplementsLeases`, for any number of threads and connections.
The mapping takes the owner of a connection to be "pool" when it is in the free list,
the thread whose `held` it is, or "nobody".  `OwnersSayIt` shows that under `IInv` of
`ConnPoolProofs` the three cases exclude each other and the `CHOOSE` of the mapping
names the only holder; that needs `OwnersDiffer` (no thread is called "pool" or
"nobody").  Then one lemma per action: taking from the list is `Lease`, growing is
`Grow` (the new object goes to its caller directly), `Rel` is `Return`, the destructor
removes what is free (`Close`), and waiting, waking, timing out and finding nothing
change no owner.

### 5.4 `ThreadPoolProofs`

* `TypeCorrect`, and `CounterExact`: `atomic_` is the number of workers inside a function.
* `OnePlace`: `Spec => []TaskInOnePlace`.
* `TrueIsHonest`: `Spec => TrueMeansAllTaken`, an action property.

`IInv` adds that a task occurs once in the queue, exactly while its status is queued
(`QueueOnce`), that a running task is held by one worker (`HeldOnce`), that a worker holds
a task exactly between `get` and the end of the function (`HolderIsBusy`), and that the
workers are gone once `stop` has joined them (`JoinedAreGone`, without which `start` could
reset a worker that holds a task).

Four more theorems are the safety halves of the three liveness properties of the run, the facts
that say that no wake-up is lost.  They need a part of their own, `Awake`.

* `QueueIsSeen`: `Spec => []QueuedIsSeen`.  While a task is queued and the pool is not
  stopping, some worker is awake or notified (behind `EveryTaskRuns`).
* `WakeupsSuffice`: `Spec => []WorkerPerTask`.  As long as nobody has called `waitForAllDone`, which
  shares the condition variable and may take a `notify_one` meant for a worker, an idle
  worker sees no more tasks in the queue than workers on their way to it.
* `CallersAreWoken`: `Spec => []CallerHasWorker`.  A caller of `waitForAllDone` that sleeps over
  an empty queue has a worker that will still notify it (behind `WaitReturns`).
* `StopFindsThemAwake`: `Spec => []NobodySleepsInStop`.  After `terminate` no worker sleeps
  (behind `StopReturns`).

`Awake` adds `StopOnly`: before `terminate` no worker has left its loop, so a queued task always has
somebody who could take it.

### 5.5 `HttpServerProofs`

* `EventsReachTheirConnection`, `ClosedForAReason`, `NoEdgeLost`: `Spec => []NoStaleEvent`,
  `[]CloseHasReason`, `[]NothingForgotten`.
* `AnswersReachTheAsker`: `Spec => AnswerToAsker`, an action property.

`IInv` says what the bytes of a connection add up to (`RecordsOK`: what was delivered and
what is left is the whole response, and a closed connection has its reason), that two open connections
have different descriptors (`FdsDistinct`), that an event of the batch still tells the
truth about an open connection, which has one event in it, and that the batch is empty
outside the event phase (`BatchTrue`, `BatchOnce`, `BatchInPhase`: while a batch is worked
off only a connection's own event closes it, and answers are sent when the batch is
empty, so no descriptor of the batch changes hands before its event), that an unread
byte, a reset or freed space has its edge pending (`EdgesKept`), that the object of a
login was constructed (`LoginsConstructed`), and that an answer computed on a living
connection has its uuid (`AliveMeansOwn`).

### 5.6 `RequestPoolsProofs`

* `ContextsAreOwned`: `Spec => []ContextOwned`.
* `OneFailureOnly`: `Spec => []OneFailureAfterRestart`.
* `NobodyWaitsInACircle`: `Spec => []NoCircle`.  As long as the process lives and a request
  is served, one of the threads that serve requests can take its next step, for any numbers
  of threads and connections, one of each kind included, and whatever Redis does.

`NoCircle` is the safety core of `RequestsEnd`; that the steps are then taken and lead to the
end is fairness and stays with TLC.  A thread can go on when it satisfies `GoesOn`, the
guards of `Serve` written out (`ENABLED` is out of the prover's reach; TLC has compared
`GoesOn(t)` with `ENABLED Serve(t)` in all states of the instance of the run
`request_pools`).  The invariant is `JInv`: every function takes MySQL first, so
who has a Redis connection needs nothing more (`Fits`); a thread without a request has none;
and a connection that does not exist yet has no context, so that a pool nobody has a
connection of always serves the next caller (`DbServes`, `CacheServes`).

For the other two theorems `IInv` adds `OneLease` (a thread leases one Redis connection at a time, so the one its
command uses is determined), `Calm` (once Redis has been up for a second, a connection
that may not connect again within this second has a live context) and `Struck` (the
connection that has failed once has no broken context any more).  All assume
`RequestAssumption`; that there is at least one connection object per pool is needed only
for the third (the code can always allocate one while the pool is below its limit, and the
limit is not zero).

### 5.7 `FileStoreProofs`

* `TablesAgree`, `OneAtATime`, `RankedAreNamed`: `Spec => []SharedIsListed`, `[]OneSharer`,
  `[]RankedHaveNames`, for any numbers of users, files, logins, downloads and faults (the
  properties speak of behaviours without a fault so far).

`IInv` adds `StatusOfRow`: a `shared_status` is set only where there is a row, also after
failures, since both go with one DELETE; without it an upload of a deleted file would
list the new row as shared.  `Undisturbed` says that a request without failures has
executed every statement, so `handleDeleteFile`, which looks at the set or at the
user's row, ends the sharing on both sides even when `ZLEXCOUNT` answers wrongly.

What the module proves of counts is about sums.  A sum over a table is defined as
the number of its numbered rows (`Entries`: row 1 to row n of each key), so that what
happens to a sum when one row comes or goes is a lemma about the size of a finite set
(`EntriesFinite`, `TotalSplits`, `OneKeyChanges`), not an induction.

* `TypesKept`: types of tables, sets, counters and of the answer on its way.
* `CountsCover`: `Spec => []CountCoversReferences`, with any number of failing statements,
  crashes and late requests.  The invariant is `Covered`: types, and that the count of every
  digest, with the references it has missed (`short`), is at least the references there are.
  A lemma per handler shows that no other step lets the count fall behind: the handlers of
  files remove a row before they lower the count and add one after they raised it.
* `CountsExact`, `CountersBounded`: `Spec => []ExactWithoutFaults`, `[]NeverOvercounted`.
  The invariant `Accurate` adds to `IInv`, while nothing has failed, `Accounts`: a share has one
  row (`SingleShares`), the count of a digest that has missed no reference is exact
  (`ExactCounts`) and a user has a row of its files at most once (`SingleRows`), the public
  counter does not exceed the shared rows, and the counters of a user do not exceed that
  user's rows unless a login raced with a delete or a delete removed two rows
  (`OwnBounded`, `stale`).  `SingleRows` fails after a missed reference, since the row of `file_info`
  may then go while the user's row stays, and the next upload gives that user a second one.
  `Flawless` says that without failures every statement of a request was executed.

The properties do not exclude what the code does with late requests and failing
statements; they say by how much the tables may then differ, as the history variables
`short`, `unlisted` and `stale` record it (6.1, 6.2).

### 5.8 `HttpParserProofs`

* `AssertionsHold`: `Spec => []ParserAssertions`, for every request and every altered buffer of any
  length, cut anywhere, and for every width of a length.

Assumptions: `SizesAssumption` (`ULLONG_MAX` is at least 16, so a hexadecimal digit is a
length) and `InputsAssumption` (what a client sends is a sequence).  The properties are not
inductive, since most say what a field is *while* a state lasts.  `IInv` has three further parts.
`ParserOK`: the length is neither 0 nor `ULLONG_MAX` in the states that count it down, it is
not `ULLONG_MAX` in the head of a chunk, and `CHUNKED` stays set through all the states of a
chunk.  `MarksOK`: a mark is set only in the states in which the data of its callback
goes on (`MarkedIn`); these sets are disjoint, hence one mark at most.  `Midway`: the size of a
chunk starts the count of bytes anew with a byte that is looked at for the first time, and
a body whose mark is set has used the buffer up, so `s_message_done` is reached without a
mark.  TLC confirmed `IInv` on the instance of the run before it was proved.

### 5.9 `HiredisProofs`

* `SocketsKept`, `AssertionsHold`: `Spec => []NoSocketLost`, `[]ReaderAssertions`.
* `NullHasAReason`: when a command answers NULL on a living context, the context has an
  error - the half of `NullMeansError` that the comment of `__redisBlockForReply` promises.
* `Fills` (a lemma): `redisFormatCommandArgv` fills exactly the `totlen` bytes that it
  allocated, for any number of arguments of any lengths.
* `CommandUnderstood`: from the bytes of a command Redis reads exactly the arguments it was
  made of, whatever bytes they hold (line ends and `$` included), and from a proper prefix of
  these bytes it reads no command.  It rests on `PrintedReadsBack` (the digits of a length
  are read back as the length) and on an induction over the arguments still to be read
  (`Reads`, `ReadsMore`), each of which takes as many bytes as its line says (`OneMoreFound`,
  `OneMoreMissing`).
* `RepliesMatch`, `NullIsError`: `Spec => []ReplyMatchesCommand`, `[]NullMeansError`.

`IInv` joins types, what is known of the context in each phase, and the shape of the reader's stack:
each level works at a slot of the array one level below, the slots before it are
filled (`LevelAt`), an outer array is older than an inner one (`Rising`, `Linked`), so
freeing what is there frees each object once, and the reply is complete when the stack
is empty (`Complete`).  Assumptions: `BoundsAssumption` (limits of the integer types, a stack of
at least one level), `SymbolsAssumption` (the bytes of a command's frame are bytes) and
`CallsAssumption` (commands and replies consist of bytes).

The last two theorems need a second invariant, `Phase`, which follows the bytes.  As long as a
context has no error, a command is either on its way (`Sending`: Redis' part of the bytes and the
output buffer make up `Protocol(argv)`, and nothing is to be read) or executed (`Receiving`: what the
reader has made, with the bytes in its buffer, those still to be read and those lost with the
connection behind it, is a state of `HiredisReplies`' reader on the whole reply); between two commands
nothing is left anywhere (`Idle`).  After an error no reply is ever completed (`Broken`): the
reader is stuck in front of an incomplete item, or has an error of its own, and
no byte is read any more.  The step that hands Redis a command uses `CommandUnderstood`.  The
steps of the reader rest on lemmas about lines, items and bulk strings that do not change
when more bytes come (`LinesStay`, `BulkItemsStay`, `ItemsStay`, `StepsStay`), and on one lemma for
each of `ItemType`, `LineItem`, `BulkItem` and `MultiBulkItem` that compares the turn of
`processItem`, with its `pos` and its task stack, with `Steps` (`...Outcome`).  TLC confirmed
`Phase` on all states of the run before it was proved.

These two theorems have one more assumption, `RepliesAssumption`: a call's format stands for its
`argv`, and its reply, read at once, stands for its `tree`.  What is proved is therefore that
nothing else matters: pieces, faults, errors, left-overs of an earlier command.  What a text
means as a whole would need an induction over the text, and is checked by TLC (section 3.8).

### 5.10 What is only model-checked

* All liveness properties: the prover does not handle fairness.  For the thread pool the safety facts they rest on are
  theorems (5.4).
* `RequestReadExactly`: it relates the bytes to what they mean, and what a parser computes
  from a whole text can only be shown by induction over that text.  For the same reason the
  meaning of a whole format and of a whole reply is an assumption of `RepliesMatch` (5.9).
* `Json`: the grammar and the conversions are defined by recursion over data.

The parts of `IInv` are not empty claims: the stated properties are invariants of runs with thousands
of reachable states.

## 6. Where the code differs from what it says

### 6.1 Findings shown by a run

| Run | The comment | What the code does |
|---|---|---|
| `http_peer_close_doc` | `EventDispatch.cpp:377`: on peer close `OnClose` is called | `EPOLLRDHUP` is never asked for; after a FIN that shares its edge with an incomplete request the connection stays open for ever, and the timeout that would catch it is never started |
| `store_listed_doc` | `ApiUpload.cpp:212`: the count is one per user that owns the file | a repeated delete lowers it although no row is removed, and then removes a file that another user lists |

### 6.2 Observations without a run

These were met while modelling; the models have the behaviour, and the
properties that pass are stated so that they do not deny it.

* `HttpConn.cpp:515` expects that the lookup of a released connection finds nothing; but
  the worker reads `m_uuid` from the freed object (`HttpConn.cpp:407`), and when a new
  connection lives at the same address it gets the answer.  `AnswerToAsker` is stated
  for connections that were alive when the worker looked.
* `ApiDealfile.cpp:203` asks `ZLEXCOUNT` for a member; after a download the scores differ
  and the answer is undefined, so a deleted file may stay in the ranking.
* `BaseSocket.cpp:322`: when no descriptor is left, `accept` fails and the listening
  socket's edge is used up; clients that wait are accepted only after another one
  connects.
* `ThreadPool.h:35` says that `stop` releases a caller of an unlimited
  `waitForAllDone`; its predicate is `tasks_.empty()` alone (`ThreadPool.cpp:138`), so with
  tasks left in the queue the caller waits for ever.
* `ThreadPool.h:177` says that `true` means all tasks are done; `waitForAllDone` with an
  empty queue returns true while popped tasks still run.  `TrueMeansAllTaken` is
  what does hold.
* `ThreadPool.h:120`: after `stop`, `start` creates threads that leave at once,
  since `bTerminate_` is never reset.
* `ThreadPool.h:167` proposes to notify only when the queue was empty; the mutant
  `ExecNotifiesOnEmptyOnly` shows that a task may then wait for ever.
* Nobody tests the result of `GetDBConn` for NULL, which it returns when growing
  the pool fails: the next statement dereferences it.
* Deleting a file that another user shares removes the ranking entry and lowers
  the public count together (`ApiDealfile.cpp:258`), so the ranking's comparison of the
  two numbers does not see that one is missing.
* `ApiDealfile.cpp:142` is content with an `UPDATE` that changes no row, so a late request shares
  a file that its user does not list, although `ApiDealfile.cpp:160` calls the user of a row of
  `share_file_list` the one to whom the file belongs (history variable `unlisted`).
* `ApiDealfile.cpp:426` writes the user's own download number over the public one in
  `share_file_list` and may lower it.
* `ApiDealfile.cpp:347`: when the `DELETE` of `file_info` fails the contents are removed
  anyway; the next instant upload finds a row without contents.
* `ApiUpload.cpp:248` increments the key that holds the user's token instead of the
  user's file counter; an upload is not counted before the next login.
* `ApiSharepicture.cpp:371` and `:520` order their statements so that a failure in
  between leaves a reference count too low; and the row of `share_picture_list` is inserted
  before `file_info` is looked at, so a late request shares a picture of contents that
  are gone, a row that no count covers when they are uploaded again (history variable
  `short`, in `CountCoversReferences`).
* `ApiDealsharefile.cpp:164` cancels what is not shared, too, and then lowers the public
  count for nothing; the next listing that finds zero loads it again.
* `Common.cpp:280`: a `SELECT` that fails returns NULL, and `handleDeleteFile` reads through
  it: the process dies before the first statement that changes anything.
* The ranking is rebuilt with `DEL`, `ZADD` and `HSET` without a transaction
  (`ApiSharefiles.cpp:251-281`).  A process that dies in between may leave a set of the right
  size with wrong members or without their names, which is not rebuilt while the sizes agree.
* A login writes counts it has read earlier (`ApiLogin.cpp:163`); a deletion in between
  leaves the counter too high until the next login (history variable `stale`).
* `HttpConn.cpp:212` expects one request per connection; bytes that arrive while a
  response is being written are parsed together with the old request, which is
  executed again (`HttpConn.cpp:228`); the bytes of a second request in the same read
  are parsed as well, and the wrapper then holds URL and body of both.
* `http_parser.cpp`: the method string `"M - SEARCH"` has blanks, so `M-SEARCH` is never
  accepted; the test for an overflow of a length (`:1678`) misses some; `Content-Length: 1 2` is 12 to the parser and 1 to the
  wrapper's `atoi`; a folded header line continues the value; a header without a
  colon is taken.  `HTTP_MAX_HEADER_SIZE` is never reached, because `OnRead` closes a
  connection at 2048 bytes.
* `HttpParserWrapper.cpp:57` matches header names by prefix: `Content-Lengthy` counts as
  `Content-Length`.
* hiredis: no read timeout is set on a Redis socket, so a Redis that is there and
  silent blocks the thread.  A conversion of 14 or more characters is copied
  literally.
* `CacheConn::mget` (`CachePool.cpp:225-256`) builds the format from the keys: a blank splits
  a key, a per cent sign reads an argument that is not there.
* jsoncpp: `{"":1,}` is accepted, where a comma is due a comment lets any token pass,
  `[/*c*/]` is refused, text behind the value is ignored, `-` reads as 0 and `1-2` as
  1.0, leading zeros are accepted, and a string is cut at `\u0000`.  `AcceptsTheGrammar`
  speaks of texts without these forms (`Strict`).  An integer above `maxInt` comes back
  with another type than it was written with, so the two are not equal to `operator==`.
  Numbers that `LargestInt` and `LargestUInt` do not hold are rounded to a double, and a
  double is written with 16 digits (`json_writer.cpp:82`) where 17 are needed to read the same
  double back: `ReadsBackWhatIsWritten` promises the number nearest to the written digits.
* The conversions of `Value` throw on a value that does not convert (`json_value.cpp:632`),
  and no handler catches that: the process ends.
* When Redis has been restarted, the first command on a sorted set reads the type
  of an answer that is NULL (`CachePool.cpp:733` and six others): the process dies.
  `CachePool.cpp:61` compares `Init` with `mysql_ping`, but it only tests the pointer.
* `hget` into a buffer (`CachePool.cpp:373`) does not free the context when no answer
  comes; every later command on it fails until another kind of command frees it.
* `CacheConn::Init` keeps the new context when `SELECT` fails (`CachePool.cpp:123`), so
  the next command finds it and goes on; it always selects database 0.
* `set`, `setex` and `incr` report success when Redis answers with an error;
  `ZsetIncr` compares the answer of `ZINCRBY` with "OK" and so reports failure.
* `AsyncLogging.cc:66` asserts `running_` when the writing thread begins, but `start` does not
  wait for the thread: a `stop` right after it clears `running_` first, and the process ends
  in the assertion (`pc = "aborted"`; the build does not define `NDEBUG`).  `InitLog` in
  `test/main.cpp:41` starts a local log, writes a line and destroys it.
* Log lines that are appended while the last buffers are written are lost when
  `stop` comes then: the loop tests `running_` before it takes the buffers
  (`AsyncLogging.cc:74`).  `LinesLeaveMemory` is stated for a log that runs.
* `LogFile::rollFile` opens `<basename>.log` again, in append mode, because the time is
  commented out of the name (`LogFile.cc:94-116`): the log never gets a new file,
  although `main.cpp:37` speaks of rolling at 1 MB.

## 7. What is not modelled

* HTTP parser: parsing of responses, of a message over several calls (the server
  always parses from the start, so the marks never continue), pausing,
  and `http_parser_parse_url`.
* hiredis: Unix sockets, non-blocking contexts (`async.c`, `dict.c`), reconnecting in
  place, the limit on idle buffers, and `sds.c`, whose strings are sequences here.  A format
  that ends inside a conversion is left out, as no caller has one.
* jsoncpp: where comments are kept, the offsets of errors, the layout of `StyledWriter`,
  and classes that the server does not use (`Path`, iterators, internal containers).
* `LogFile` and `AppendFile`: every line passed to them goes to one file that is opened in
  append mode and flushed each round, so rolling (6.2) has no effect to check.
* `CDBConn`: its effect on a handler (a statement succeeds, fails, or its failure is
  ignored) is in `FileStore`; the protocol of the MySQL client is not.
* Timers of the event loop: none is registered by the server
  (`init_http_conn` is never called), so they have no effect on its behaviour.
* Registration beyond its request's fields (one row behind a unique key), the pages of the listings and the
  view counter of pictures: nothing else reads what they write.  Tokens: only that
  `VerifyToken` and `setToken` use a connection (`RequestPools`).
* Formatting in the log front end, configuration, locks' wrappers, the test client.
* Races on memory: `m_uuid` of a freed object is modelled (the one whose value
  matters); other uses of a freed object, such as `OnWrite` clearing `m_busy` after
  `delete this` (`HttpConn.cpp:302`), are not.

`PROJECT.json` lists these parts under `components` with status `partly` or
`not_modelled`, and the hazards that no property covers with a note.

## 8. Plan

Order of work, most important behaviour first.  Done:

1. `ConnPool`, `ConnLease`, `ConnPoolProofs` - the resource every request needs, and
   its refinement.
2. `ThreadPool`, `ThreadPoolProofs`.
3. `HttpServer`, `HttpServerProofs` - life of a connection, the answers of workers.
4. `FileStore`, `FileStoreProofs` - the handlers and the three stores.
5. `AsyncLogging`, `AsyncLoggingProofs`.
6. `RequestPools`, `RequestPoolsProofs`, composing two leases: a request holds a MySQL
   connection while it waits for a Redis one (`ApiLogin.cpp:150-154` and every handler).
7. `RedisConn`: reconnection at most once a second, an answer that does not come.
8. `HttpParser`, `HttpParserProofs`: every request the server reads.
9. `RedisCommand`, `Hiredis`, `HiredisReplies`, `HiredisProofs`: every command it sends, and its
   reply.
10. `Json`: every body it decodes.

Left, in this order:

11. Proofs about `Json`, as far as its definitions can be written without recursion: the
    shape of the reader's stack, the limits of its numbers.
12. Timers and loop callbacks of `CEventDispatch` (lists that change while they are
    walked), handlers that list and browse.
13. `CSimpleBuffer` and other pure functions against reference definitions over bounded
    inputs.
14. Accounts: registration, tokens and their expiry.
15. The child processes of `ApiUpload.cpp`, their pipes and the temporary file.

Runs: one instance per question, within a few minutes each.
