----------------------------- MODULE FileStore -----------------------------
(***************************************************************************)
(* The request handlers of api/: what they keep in MySQL, in Redis and in  *)
(* FastDFS, which no transaction ties together.                            *)
(*                                                                         *)
(* Handlers run to completion on the event loop, one after the other, so a *)
(* handler is one step; only a login works on another thread and has a     *)
(* step per statement.  A handler is a list of numbered statements.  The   *)
(* request is cut short before statement number "cut" when that statement  *)
(* fails and the code stops there, or when the process dies; "lost" is the *)
(* number of a statement whose failure the code ignores.  Statement i had  *)
(* its effect iff i < cut and i # lost.                                    *)
(*                                                                         *)
(* A file is a pair of contents and name, and Digest gives the contents    *)
(* (the md5), so two files may have the same digest.                       *)
(***************************************************************************)
EXTENDS Integers, FiniteSets

CONSTANTS Users, Files, Digests,
          Digest,         \* the md5 of a file
          MaxLate,        \* bound: requests about what is not, or no longer, there
          MaxPictures,    \* bound: shared pictures
          MaxFaults,      \* bound: failing statements and crashes
          MaxLogins,      \* bound: logins
          MaxDownloads,   \* bound: downloads
          MaxDisturbances \* bound: late requests, faults, logins and downloads together

ASSUME FileStoreAssumption ==
  /\ IsFiniteSet(Users) /\ IsFiniteSet(Files) /\ IsFiniteSet(Digests)
  /\ Digest \in [Files -> Digests]
  /\ MaxLate \in Nat /\ MaxFaults \in Nat /\ MaxLogins \in Nat
  /\ MaxPictures \in Nat /\ MaxDownloads \in Nat /\ MaxDisturbances \in Nat

VARIABLES
  refs,      \* file_info: the count of a digest's row, or NoRow
  kept,      \* whether the contents a file_info row points to are in FastDFS
  rows,      \* user_file_list: number of rows of a user for a file
  status,    \*   the shared_status of the first of them
  pv,        \*   its pv
  shared,    \* share_file_list: number of rows of a user for a file
  sharedPv,  \*   their pv
  pics,      \* share_picture_list: number of rows of a user for a digest
  ranked,    \* FILE_PUBLIC_ZSET: the score of every member
  names,     \* FILE_NAME_HASH: the fields
  public,    \* FILE_PUBLIC_COUNT
  own,       \* FILE_USER_COUNT + user
  ownPics,   \* SHARE_PIC_COUNT + user
  login,     \* the login a worker executes for a user
  up,        \* the process is running
  short,     \* how many references the count of a digest has missed (history)
  unlisted,  \* rows of share_file_list of users who did not list the file (history)
  stale,     \* users whose counter may be too high for good (history)
  late, faults, logins, downloads  \* what is bounded

files  == <<refs, kept>>
lists  == <<rows, status, pv>>
shares == <<shared, sharedPv>>
redis  == <<ranked, names, public>>
counts == <<own, ownPics>>
hist   == <<short, unlisted, stale, late>>
vars == <<files, lists, shares, pics, redis, counts, login, logins, up, hist, faults, downloads>>

NoRow == -1
Owned == Users \X Files

(* The rows that a table holds for the keys of a set, numbered per key: T  *)
(* gives how many there are for each key.                                  *)
Entries(T, keys) == UNION {{k} \X (1..T[k]) : k \in keys}
Total(T, keys)   == Cardinality(Entries(T, keys))

RowsOf(u)      == Total(rows, {u} \X Files)
PicsOf(u)      == Total(pics, {u} \X Digests)
ShareRows      == Total(shared, Owned)
Sharers(f)     == {u \in Users : shared[<<u, f>>] > 0}
SharedFiles    == {f \in Files : Sharers(f) # {}}
FilesOf(m)     == {o \in Owned : Digest[o[2]] = m}
References(m)  == Total(rows, FilesOf(m)) + Total(pics, Users \X {m})
Count(m)       == IF refs[m] = NoRow THEN 0 ELSE refs[m]

Idle == [at |-> "idle", n |-> 0]

(* main after ApiInit; every user has logged in and has no files yet.      *)
Init ==
  /\ refs = [m \in Digests |-> NoRow]
  /\ kept = [m \in Digests |-> FALSE]
  /\ rows = [o \in Owned |-> 0]
  /\ status = [o \in Owned |-> FALSE]
  /\ pv = [o \in Owned |-> 0]
  /\ shared = [o \in Owned |-> 0]
  /\ sharedPv = [o \in Owned |-> 0]
  /\ pics = [o \in Users \X Digests |-> 0]
  /\ ranked = << >>
  /\ names = {}
  /\ public = 0
  /\ own = [u \in Users |-> 0]
  /\ ownPics = [u \in Users |-> 0]
  /\ login = [u \in Users |-> Idle]
  /\ up = TRUE
  /\ short = [m \in Digests |-> 0]
  /\ unlisted = {}
  /\ stale = {}
  /\ late = 0 /\ faults = 0 /\ logins = 0 /\ downloads = 0

-----------------------------------------------------------------------------
Done(i, cut, lost) == i < cut /\ i # lost

(* What the bounds still allow.                                            *)
Calm        == late + faults + logins + downloads < MaxDisturbances
MayFail     == Calm /\ faults < MaxFaults
MayLogin    == Calm /\ logins < MaxLogins
MayDownload == Calm /\ downloads < MaxDownloads
MayBeLate   == Calm /\ late < MaxLate

(* What every request does besides its statements: last is the number of   *)
(* its last statement.                                                     *)
Request(last, cut, lost) ==
  LET bad == (IF cut <= last THEN 1 ELSE 0) + (IF lost > 0 THEN 1 ELSE 0)
  IN  /\ up
      /\ cut \in 1..(last + 1) /\ lost < cut
      /\ bad > 0 => MayFail /\ faults + bad <= MaxFaults
      /\ faults' = faults + bad
      /\ up' \in (IF cut <= last THEN BOOLEAN ELSE {TRUE})
      /\ login' = IF up' THEN login ELSE [u \in Users |-> Idle]
      /\ UNCHANGED logins

(* A request that finds missing what it is about is late: it was repeated, *)
(* or sent from a list that another request has made out of date.          *)
Late(missing) ==
  /\ missing => MayBeLate
  /\ late' = IF missing THEN late + 1 ELSE late

(* The count of m is now too low, by one more reference, if "missed".      *)
Missed(m, missed) == short' = IF missed THEN [short EXCEPT ![m] = @ + 1] ELSE short

(* ZLEXCOUNT finds a member reliably only while all scores are equal.      *)
ZsetExit(f) ==
  IF f \notin DOMAIN ranked THEN {FALSE}
  ELSE IF \A g \in DOMAIN ranked : ranked[g] = ranked[f] THEN {TRUE}
  ELSE BOOLEAN

ZsetAdd(f, score) == [g \in DOMAIN ranked \cup {f} |-> IF g = f THEN score ELSE ranked[g]]
ZsetZrem(f)       == [g \in DOMAIN ranked \ {f} |-> ranked[g]]

(* Mutant: the last one is never taken off.                                *)
DecrKeepsOne(n)  == IF n > 1 THEN n - 1 ELSE n

(* CacheDecrCount: DECR, then SET 0 if the result is negative.             *)
Decr(n) == IF n > 0 THEN n - 1 ELSE 0

Lists(u, f) == rows[<<u, f>>] > 0

(* A new user_file_list row of u for f.  Reads go to the oldest row.       *)
InsertRow(u, f) ==
  /\ rows' = [rows EXCEPT ![<<u, f>>] = @ + 1]
  /\ UNCHANGED <<status, pv>>

-----------------------------------------------------------------------------
(* storeFileinfo: 1 INSERT file_info, which fails if the digest has a row,  *)
(* 2 INSERT user_file_list.  The counter of the user stays: the INCR goes  *)
(* to the key that holds the token.                                        *)
StoreFileinfo(u, f, cut) ==
  LET m == Digest[f]
      inserted == Done(1, cut, 0) /\ refs[m] = NoRow
  IN  /\ refs' = IF inserted THEN [refs EXCEPT ![m] = 1] ELSE refs
      /\ kept' = IF inserted THEN [kept EXCEPT ![m] = TRUE] ELSE kept
      /\ IF inserted /\ Done(2, cut, 0) THEN InsertRow(u, f) ELSE UNCHANGED lists

(* ApiUpload: the contents go to FastDFS, then storeFileinfo.  A failure   *)
(* up to there leaves no row, as one of its first statement does; contents *)
(* that no row points to are not seen by anybody.                          *)
Upload(u, f, cut) ==
  /\ Request(2, cut, 0)
  /\ StoreFileinfo(u, f, cut)
  /\ UNCHANGED <<shares, pics, redis, counts, downloads, hist>>

(* handleDealMd5: 1 SELECT the user's row (a failure counts as no row),    *)
(* 2 UPDATE count, 3 INSERT user_file_list, 4 INCR.  When 3 fails the      *)
(* count is written back; a failure of that is like dying before it.       *)
DealMd5(u, f, cut, lost) ==
  LET m == Digest[f]
      known == refs[m] # NoRow /\ ~(Lists(u, f) /\ lost # 1)
      restored == cut = 3 /\ up'
  IN  /\ Request(4, cut, lost)
      /\ refs' = IF known /\ Done(2, cut, lost) /\ ~restored
                 THEN [refs EXCEPT ![m] = @ + 1] ELSE refs
      /\ IF known /\ Done(3, cut, lost) THEN InsertRow(u, f) ELSE UNCHANGED lists
      /\ own' = IF known /\ Done(4, cut, lost) THEN [own EXCEPT ![u] = @ + 1] ELSE own
      /\ UNCHANGED <<kept, shares, pics, redis, ownPics, downloads, hist>>

(* Mutant: the row is inserted before the count is raised.                 *)
SaveFileRowFirst(u, f, cut) ==
  LET m == Digest[f]
      known == refs[m] # NoRow /\ ~Lists(u, f)
  IN  /\ Request(3, cut, 0)
      /\ refs' = IF known /\ Done(2, cut, 0) THEN [refs EXCEPT ![m] = @ + 1] ELSE refs
      /\ IF known /\ Done(1, cut, 0) THEN InsertRow(u, f) ELSE UNCHANGED lists
      /\ own' = IF known /\ Done(3, cut, 0) THEN [own EXCEPT ![u] = @ + 1] ELSE own
      /\ UNCHANGED <<kept, shares, pics, redis, ownPics, downloads, hist>>

(* Mutant: the count is raised before the check for the user's own row.    *)
SaveFileCountsFirst(u, f, cut) ==
  LET m == Digest[f]
      known == refs[m] # NoRow
  IN  /\ Request(3, cut, 0)
      /\ refs' = IF known /\ Done(1, cut, 0) THEN [refs EXCEPT ![m] = @ + 1] ELSE refs
      /\ IF known /\ ~Lists(u, f) /\ Done(2, cut, 0) THEN InsertRow(u, f) ELSE UNCHANGED lists
      /\ own' = IF known /\ ~Lists(u, f) /\ Done(3, cut, 0) THEN [own EXCEPT ![u] = @ + 1] ELSE own
      /\ UNCHANGED <<kept, shares, pics, redis, ownPics, downloads, hist>>

(* handleSaveFile: 1 UPDATE count, 2 INSERT user_file_list, 3 INCR.        *)
SaveFile(u, f, cut) ==
  LET m == Digest[f]
      known == refs[m] # NoRow /\ ~Lists(u, f)
  IN  /\ Request(3, cut, 0)
      /\ refs' = IF known /\ Done(1, cut, 0) THEN [refs EXCEPT ![m] = @ + 1] ELSE refs
      /\ IF known /\ Done(2, cut, 0) THEN InsertRow(u, f) ELSE UNCHANGED lists
      /\ own' = IF known /\ Done(3, cut, 0) THEN [own EXCEPT ![u] = @ + 1] ELSE own
      /\ UNCHANGED <<kept, shares, pics, redis, ownPics, downloads, hist>>

(* Mutant: the Redis set is trusted, MySQL is not asked.                   *)
TrustRedis(f, lost) == FALSE

(* CheckwhetherHaveRecord for a row of share_file_list.                    *)
SharedInMysql(f, lost) == Sharers(f) # {} /\ lost # 1

(* handleShareFile: 1 SELECT share_file_list if the set lacks the file (a  *)
(* failure counts as no row), 2 UPDATE shared_status, 3 INSERT             *)
(* share_file_list, 4 INCR, 5 ZADD, 6 HSET; 5 and 6 also when there is a   *)
(* row that the set lacks.  The user need not list the file: 2 is content  *)
(* with changing no row, and 3 follows.                                    *)
ShareFile(u, f, found, cut, lost) ==
  LET fresh == ~found /\ ~SharedInMysql(f, lost)
  IN  /\ Late(fresh /\ ~Lists(u, f))
      /\ Request(6, cut, lost)
      /\ status' = IF fresh /\ Done(2, cut, lost) /\ Lists(u, f)
                   THEN [status EXCEPT ![<<u, f>>] = TRUE] ELSE status
      /\ shared' = IF fresh /\ Done(3, cut, lost) THEN [shared EXCEPT ![<<u, f>>] = @ + 1] ELSE shared
      /\ sharedPv' = IF fresh /\ Done(3, cut, lost) /\ shared[<<u, f>>] = 0
                     THEN [sharedPv EXCEPT ![<<u, f>>] = 0] ELSE sharedPv
      /\ public' = IF fresh /\ Done(4, cut, lost) THEN public + 1 ELSE public
      /\ ranked' = IF ~found /\ Done(5, cut, lost) THEN ZsetAdd(f, 0) ELSE ranked
      /\ names' = IF ~found /\ Done(6, cut, lost) THEN names \cup {f} ELSE names
      /\ unlisted' = IF fresh /\ Done(3, cut, lost) /\ ~Lists(u, f)
                     THEN unlisted \cup {<<u, f>>} ELSE unlisted
      /\ UNCHANGED <<files, rows, pv, pics, counts, downloads, short, stale>>

(* Mutant: shared_status is left alone.                                    *)
CancelKeepsStatus(u, f, cut) ==
  /\ Request(5, cut, 0)
  /\ public' = IF Done(2, cut, 0) THEN Decr(public) ELSE public
  /\ shared' = IF Done(3, cut, 0) THEN [shared EXCEPT ![<<u, f>>] = 0] ELSE shared
  /\ ranked' = IF Done(4, cut, 0) THEN ZsetZrem(f) ELSE ranked
  /\ names' = IF Done(5, cut, 0) THEN names \ {f} ELSE names
  /\ unlisted' = IF Done(3, cut, 0) THEN unlisted \ {<<u, f>>} ELSE unlisted
  /\ UNCHANGED <<files, lists, sharedPv, pics, counts, downloads, short, stale, late>>

(* Mutant: the name is removed and the ranked file is not.                 *)
CancelKeepsRank(u, f, cut) ==
  /\ Request(5, cut, 0)
  /\ status' = IF Done(1, cut, 0) THEN [status EXCEPT ![<<u, f>>] = FALSE] ELSE status
  /\ public' = IF Done(2, cut, 0) THEN Decr(public) ELSE public
  /\ shared' = IF Done(3, cut, 0) THEN [shared EXCEPT ![<<u, f>>] = 0] ELSE shared
  /\ names' = IF Done(5, cut, 0) THEN names \ {f} ELSE names
  /\ unlisted' = IF Done(3, cut, 0) THEN unlisted \ {<<u, f>>} ELSE unlisted
  /\ UNCHANGED <<files, rows, pv, ranked, sharedPv, pics, counts, downloads, short, stale, late>>

(* handleCancelShareFile, for a file that is shared or not: 1 UPDATE       *)
(* shared_status, 2 DECR, 3 DELETE from share_file_list, 4 ZREM, 5 HDEL.   *)
CancelShareFile(u, f, cut) ==
  /\ Request(5, cut, 0)
  /\ status' = IF Done(1, cut, 0) THEN [status EXCEPT ![<<u, f>>] = FALSE] ELSE status
  /\ public' = IF Done(2, cut, 0) THEN Decr(public) ELSE public
  /\ shared' = IF Done(3, cut, 0) THEN [shared EXCEPT ![<<u, f>>] = 0] ELSE shared
  /\ ranked' = IF Done(4, cut, 0) THEN ZsetZrem(f) ELSE ranked
  /\ names' = IF Done(5, cut, 0) THEN names \ {f} ELSE names
  /\ unlisted' = IF Done(3, cut, 0) THEN unlisted \ {<<u, f>>} ELSE unlisted
  /\ UNCHANGED <<files, rows, pv, sharedPv, pics, counts, downloads, short, stale, late>>

(* handleDeleteFile: 1 DELETE from share_file_list, 2 DECR FILE_PUBLIC_    *)
(* COUNT, 3 ZREM, 4 HDEL, 5 DECR FILE_USER_COUNT, 6 DELETE from            *)
(* user_file_list, 7 UPDATE count, 8 DELETE from file_info, 9 the contents.*)
(* All of them are executed for a file that the user does not list, too.   *)
(* The SELECT of shared_status before 1 is no statement of its own: the    *)
(* NULL result of a failed one is dereferenced (base/Common.cpp:280), so   *)
(* it fails like the process that dies before 1.                           *)
DeleteFile(u, f, found, cut, lost) ==
  LET m == Digest[f]
      isShared == found \/ (Lists(u, f) /\ status[<<u, f>>])
      counted  == refs[m] # NoRow /\ Done(7, cut, lost)
      count    == Decr(refs[m])
      last     == counted /\ count = 0
  IN  /\ Late(~Lists(u, f))
      /\ Request(9, cut, lost)
      /\ shared' = IF isShared /\ Done(1, cut, lost) THEN [shared EXCEPT ![<<u, f>>] = 0] ELSE shared
      /\ public' = IF isShared /\ Done(2, cut, lost) THEN Decr(public) ELSE public
      /\ ranked' = IF found /\ Done(3, cut, lost) THEN ZsetZrem(f) ELSE ranked
      /\ names' = IF found /\ Done(4, cut, lost) THEN names \ {f} ELSE names
      /\ own' = IF Done(5, cut, lost) THEN [own EXCEPT ![u] = Decr(@)] ELSE own
      /\ rows' = IF Done(6, cut, lost) THEN [rows EXCEPT ![<<u, f>>] = 0] ELSE rows
      /\ status' = IF Done(6, cut, lost) THEN [status EXCEPT ![<<u, f>>] = FALSE] ELSE status
      /\ pv' = IF Done(6, cut, lost) THEN [pv EXCEPT ![<<u, f>>] = 0] ELSE pv
      /\ refs' = IF last /\ Done(8, cut, lost) THEN [refs EXCEPT ![m] = NoRow]
                 ELSE IF counted THEN [refs EXCEPT ![m] = count] ELSE refs
      /\ kept' = IF last /\ (Done(8, cut, lost) \/ Done(9, cut, lost))
                 THEN [kept EXCEPT ![m] = FALSE] ELSE kept
      /\ Missed(m, counted /\ refs[m] > 0 /\ ~Lists(u, f))
      /\ unlisted' = IF isShared /\ Done(1, cut, lost) THEN unlisted \ {<<u, f>>} ELSE unlisted
      /\ stale' = IF Done(6, cut, lost) /\ rows[<<u, f>>] > 1 THEN stale \cup {u} ELSE stale
      /\ UNCHANGED <<sharedPv, pics, ownPics, downloads>>

(* handlePvFile of dealfile: a user downloads a file of its list.  1       *)
(* UPDATE user_file_list, 2 UPDATE the user's row of share_file_list with  *)
(* the same number.                                                        *)
UserDownload(u, f, cut) ==
  /\ Lists(u, f)
  /\ MayDownload
  /\ downloads' = downloads + 1
  /\ Request(2, cut, 0)
  /\ pv' = IF Done(1, cut, 0) THEN [pv EXCEPT ![<<u, f>>] = @ + 1] ELSE pv
  /\ sharedPv' = IF status[<<u, f>>] /\ shared[<<u, f>>] > 0 /\ Done(2, cut, 0)
                 THEN [sharedPv EXCEPT ![<<u, f>>] = pv[<<u, f>>] + 1] ELSE sharedPv
  /\ UNCHANGED <<files, rows, status, shared, pics, redis, counts, hist>>

(* handlePvFile of dealsharefile: anybody downloads a shared file.  1      *)
(* UPDATE all its rows of share_file_list, 2 ZINCRBY, or ZADD and 3 HSET   *)
(* if the set seems to lack it.                                            *)
PublicDownload(u, f, found, cut, lost) ==
  LET score == sharedPv[<<u, f>>] + 1
  IN  /\ u \in Sharers(f)
      /\ MayDownload
      /\ downloads' = downloads + 1
      /\ Request(3, cut, lost)
      /\ sharedPv' = IF Done(1, cut, lost)
                     THEN [o \in Owned |-> IF o[2] = f /\ shared[o] > 0 THEN score ELSE sharedPv[o]]
                     ELSE sharedPv
      /\ ranked' = IF ~Done(2, cut, lost) THEN ranked
                   ELSE ZsetAdd(f, IF found THEN ranked[f] + 1 ELSE score)
      /\ names' = IF ~found /\ Done(3, cut, lost) THEN names \cup {f} ELSE names
      /\ UNCHANGED <<files, lists, shared, pics, public, counts, hist>>

-----------------------------------------------------------------------------
(* getShareFilesCount: a count of 0 is loaded from MySQL again.            *)
PublicTotal == IF public = 0 THEN ShareRows ELSE public

CountShared(cut) ==
  /\ Request(1, cut, 0)
  /\ public' = IF Done(1, cut, 0) THEN PublicTotal ELSE public
  /\ UNCHANGED <<files, lists, shares, pics, ranked, names, counts, downloads, hist>>

(* What the loop of ZADD and HSET over the rows of share_file_list writes: *)
(* all, but for one command whose failure is ignored; or, when the process *)
(* dies in it, the files of some rows, the last perhaps without its name.  *)
Reloaded(cut, lost, added, named) ==
  LET unwritten == Cardinality(SharedFiles \ added) + Cardinality(SharedFiles \ named)
  IN  /\ added \subseteq SharedFiles /\ named \subseteq SharedFiles
      /\ cut < 4 => added = {} /\ named = {}
      /\ cut = 4 => named \subseteq added /\ Cardinality(added \ named) <= 1
      /\ cut > 4 => unwritten <= (IF lost = 4 THEN 1 ELSE 0)

(* handleGetRankingFilelist: 1 the count; if ZCARD differs, 2 and 3 DEL    *)
(* the set and the hash, whose failures are ignored, 4 the loop.           *)
Ranking(cut, lost, added, named) ==
  LET reload == Cardinality(DOMAIN ranked) # PublicTotal
      score(f) == CHOOSE n \in {sharedPv[<<u, f>>] : u \in Sharers(f)} :
                    \A u \in Sharers(f) : n <= sharedPv[<<u, f>>]
      old == IF Done(2, cut, lost) THEN {} ELSE DOMAIN ranked
  IN  /\ Request(4, cut, lost)
      /\ Reloaded(cut, lost, added, named)
      /\ cut = 4 /\ up' => added = {}
      /\ public' = IF Done(1, cut, lost) THEN PublicTotal ELSE public
      /\ ranked' = IF reload
                   THEN [f \in old \cup added |-> IF f \in added THEN score(f) ELSE ranked[f]]
                   ELSE ranked
      /\ names' = IF reload
                  THEN (IF Done(3, cut, lost) THEN {} ELSE names) \cup named ELSE names
      /\ UNCHANGED <<files, lists, shares, pics, counts, downloads, hist>>

(* getUserFilesCount: the same rule for a user's own files.                *)
CountOwn(u, cut) ==
  /\ Request(1, cut, 0)
  /\ own' = IF own[u] = 0 /\ Done(1, cut, 0) THEN [own EXCEPT ![u] = RowsOf(u)] ELSE own
  /\ UNCHANGED <<files, lists, shares, pics, redis, ownPics, downloads, hist>>

(* getSharePicturesCount: and for a user's shared pictures.                *)
CountPictures(u, cut) ==
  /\ Request(1, cut, 0)
  /\ ownPics' = IF ownPics[u] = 0 /\ Done(1, cut, 0)
                THEN [ownPics EXCEPT ![u] = PicsOf(u)] ELSE ownPics
  /\ UNCHANGED <<files, lists, shares, pics, redis, own, downloads, hist>>

-----------------------------------------------------------------------------
(* handleSharePicture, of whatever digest is sent: 1 INSERT                *)
(* share_picture_list, 2 UPDATE count, which ends the request if there is  *)
(* no row of file_info, 3 INCR.  A row that 2 does not count stays.        *)
SharePicture(u, m, cut, lost) ==
  LET known == refs[m] # NoRow
  IN  /\ Total(pics, Users \X Digests) < MaxPictures
      /\ Late(~known)
      /\ Request(3, cut, lost)
      /\ pics' = IF Done(1, cut, lost) THEN [pics EXCEPT ![<<u, m>>] = @ + 1] ELSE pics
      /\ refs' = IF known /\ Done(2, cut, lost) THEN [refs EXCEPT ![m] = @ + 1] ELSE refs
      /\ ownPics' = IF known /\ Done(3, cut, lost) THEN [ownPics EXCEPT ![u] = @ + 1] ELSE ownPics
      /\ Missed(m, Done(1, cut, lost) /\ ~(known /\ Done(2, cut, lost)))
      /\ UNCHANGED <<kept, lists, shares, redis, own, downloads, unlisted, stale>>

(* handleCancelSharePicture: 1 UPDATE count, 2 DELETE the picture's row,   *)
(* and for the last reference 3 DELETE from file_info, 4 the contents;     *)
(* 5 DECR.                                                                 *)
CancelPicture(u, m, cut, lost) ==
  LET known == refs[m] # NoRow
      count == Decr(refs[m])
      last == count = 0
  IN  /\ pics[<<u, m>>] > 0
      /\ Request(5, cut, lost)
      /\ IF ~known
         THEN UNCHANGED <<files, pics, ownPics>>
         ELSE /\ refs' = IF last /\ Done(3, cut, lost) THEN [refs EXCEPT ![m] = NoRow]
                         ELSE IF Done(1, cut, lost) THEN [refs EXCEPT ![m] = count] ELSE refs
              /\ pics' = IF Done(2, cut, lost) THEN [pics EXCEPT ![<<u, m>>] = @ - 1] ELSE pics
              /\ kept' = IF last /\ Done(3, cut, lost) THEN [kept EXCEPT ![m] = FALSE] ELSE kept
              /\ ownPics' = IF Done(5, cut, lost) THEN [ownPics EXCEPT ![u] = Decr(@)] ELSE ownPics
      /\ Missed(m, refs[m] > 0 /\ Done(1, cut, lost) /\ ~Done(2, cut, lost))
      /\ UNCHANGED <<lists, shares, redis, own, downloads, unlisted, stale, late>>

-----------------------------------------------------------------------------
(* loadMyfilesCountAndSharepictureCount on a worker thread: two counts are *)
(* read from MySQL and written to Redis, and handlers run in between.      *)
LoginStep(u, at, next) ==
  /\ up
  /\ login[u].at = at
  /\ login' = [login EXCEPT ![u] = next]
  /\ UNCHANGED <<files, lists, shares, pics, redis, up, faults, downloads, short, unlisted, late>>

LoginCountsFiles(u) ==
  /\ MayLogin
  /\ LoginStep(u, "idle", [at |-> "files", n |-> RowsOf(u)])
  /\ logins' = logins + 1
  /\ UNCHANGED <<counts, stale>>

LoginSetsFiles(u) ==
  /\ LoginStep(u, "files", [at |-> "between", n |-> 0])
  /\ own' = [own EXCEPT ![u] = login[u].n]
  /\ stale' = IF login[u].n > RowsOf(u) THEN stale \cup {u} ELSE stale
  /\ UNCHANGED <<ownPics, logins>>

LoginCountsPics(u) ==
  /\ LoginStep(u, "between", [at |-> "pictures", n |-> PicsOf(u)])
  /\ UNCHANGED <<counts, logins, stale>>

LoginSetsPics(u) ==
  /\ LoginStep(u, "pictures", Idle)
  /\ ownPics' = [ownPics EXCEPT ![u] = login[u].n]
  /\ stale' = IF login[u].n > PicsOf(u) THEN stale \cup {u} ELSE stale
  /\ UNCHANGED <<own, logins>>

(* The process dies between two requests, possibly during logins.          *)
Crash ==
  /\ up
  /\ MayFail
  /\ faults' = faults + 1
  /\ up' = FALSE
  /\ login' = [u \in Users |-> Idle]
  /\ UNCHANGED <<files, lists, shares, pics, redis, counts, logins, downloads, hist>>

(* main again: ApiInit loads the number of shared files into Redis.        *)
Restart ==
  /\ ~up
  /\ up' = TRUE
  /\ public' = ShareRows
  /\ UNCHANGED <<files, lists, shares, pics, ranked, names, counts, login, logins, faults, downloads, hist>>

-----------------------------------------------------------------------------
(* The cuts of a request of that many statements, and its lost statements. *)
Cuts(last)  == IF MayFail THEN 1..(last + 1) ELSE {last + 1}
Losses(set) == IF MayFail THEN set \cup {0} ELSE {0}

(* One operator per URL: what its commands may do.  Listings only read     *)
(* after they have looked at the counter.                                  *)
ApiUpload == \E u \in Users, f \in Files, cut \in Cuts(2) : Upload(u, f, cut)

ApiMd5 ==
  \E u \in Users, f \in Files, cut \in Cuts(4), lost \in Losses({1, 4}) : DealMd5(u, f, cut, lost)

ApiMyfiles == \E u \in Users, cut \in Cuts(1) : CountOwn(u, cut)

ApiDealfile ==
  \E u \in Users, f \in Files :
    \/ \E cut \in Cuts(2) : UserDownload(u, f, cut)
    \/ \E found \in ZsetExit(f) :
         \/ \E cut \in Cuts(6), lost \in Losses({1, 5, 6}) : ShareFile(u, f, found, cut, lost)
         \/ \E cut \in Cuts(9), lost \in Losses({3, 4, 8}) : DeleteFile(u, f, found, cut, lost)

ApiDealsharefile ==
  \E u \in Users, f \in Files :
    \/ \E cut \in Cuts(5) : CancelShareFile(u, f, cut)
    \/ \E cut \in Cuts(3) : SaveFile(u, f, cut)
    \/ \E found \in ZsetExit(f), cut \in Cuts(3), lost \in Losses({2, 3}) :
         PublicDownload(u, f, found, cut, lost)

ApiSharefiles ==
  \/ \E cut \in Cuts(1) : CountShared(cut)
  \/ \E cut \in Cuts(4), lost \in Losses({2, 3, 4}), added, named \in SUBSET Files :
       Ranking(cut, lost, added, named)

ApiSharepicture ==
  \E u \in Users :
    \/ \E m \in Digests, cut \in Cuts(3), lost \in Losses({3}) : SharePicture(u, m, cut, lost)
    \/ \E m \in Digests, cut \in Cuts(5), lost \in Losses({5}) : CancelPicture(u, m, cut, lost)
    \/ \E cut \in Cuts(1) : CountPictures(u, cut)

(* A login that a worker executes, statement by statement.                 *)
ApiUserLogin(u) ==
  \/ LoginCountsFiles(u) \/ LoginSetsFiles(u)
  \/ LoginCountsPics(u) \/ LoginSetsPics(u)

Next ==
  \/ ApiUpload \/ ApiMd5 \/ ApiMyfiles \/ ApiDealfile
  \/ ApiDealsharefile \/ ApiSharefiles \/ ApiSharepicture
  \/ \E u \in Users : ApiUserLogin(u)
  \/ Crash
  \/ Restart

Spec == Init /\ [][Next]_vars

-----------------------------------------------------------------------------
TypeOK ==
  /\ refs \in [Digests -> Nat \cup {NoRow}]
  /\ kept \in [Digests -> BOOLEAN]
  /\ rows \in [Owned -> Nat] /\ shared \in [Owned -> Nat]
  /\ status \in [Owned -> BOOLEAN]
  /\ pv \in [Owned -> Nat] /\ sharedPv \in [Owned -> Nat]
  /\ pics \in [Users \X Digests -> Nat]
  /\ \E S \in SUBSET Files : ranked \in [S -> Nat]
  /\ names \subseteq Files
  /\ public \in Nat
  /\ own \in [Users -> Nat] /\ ownPics \in [Users -> Nat]
  /\ login \in [Users -> [at : {"idle", "files", "between", "pictures"}, n : Nat]]
  /\ up \in BOOLEAN
  /\ short \in [Digests -> Nat] /\ unlisted \subseteq Owned /\ stale \subseteq Users
  /\ late \in 0..MaxLate /\ faults \in 0..MaxFaults
  /\ logins \in 0..MaxLogins /\ downloads \in 0..MaxDownloads

(* Whatever statement fails, wherever the process dies and however late    *)
(* requests come, the count of file_info falls behind the references to a  *)
(* digest in three ways only, and by one reference each time: a picture    *)
(* was shared and not counted, a picture was given up in the count and     *)
(* stayed in the table, or a delete lowered the count for a user who had   *)
(* no row.  Without those, the last step of another user's delete never    *)
(* takes a file that somebody lists.                                       *)
CountCoversReferences == \A m \in Digests : References(m) <= Count(m) + short[m]

(* Without failures nothing leaks either: unless a count has missed a      *)
(* reference, a row of file_info exists for exactly the digests in use,    *)
(* counts their references and has contents.                               *)
ExactWithoutFaults ==
  faults = 0 =>
    \A m \in Digests : short[m] = 0 =>
      IF References(m) = 0 THEN refs[m] = NoRow ELSE refs[m] = References(m) /\ kept[m]

(* Without failures, share_file_list and the shared_status of              *)
(* user_file_list, which are written by different statements, agree, but   *)
(* for the rows of users who shared a file they did not list: the handlers *)
(* that cancel and delete take those rows away again or leave them alone.  *)
SharedIsListed ==
  faults = 0 => \A o \in Owned : shared[o] > 0 <=> (rows[o] > 0 /\ status[o]) \/ o \in unlisted

(* Without failures a file is shared by one user at a time, though the     *)
(* Redis set may have lost it.                                             *)
OneSharer ==
  faults = 0 => \A f \in Files : Cardinality(Sharers(f)) <= 1

(* Without failures every ranked file has a name: a ranking request is     *)
(* never answered with an error because HGET finds nothing.                *)
RankedHaveNames == faults = 0 => DOMAIN ranked \subseteq names

(* Without failures the counters never exceed what they count, except      *)
(* after a login that was overtaken by a deletion, and after a delete that *)
(* removed two rows of the user for a file and lowered the counter by one. *)
NeverOvercounted ==
  faults = 0 =>
    /\ public <= ShareRows
    /\ \A u \in Users \ stale : own[u] <= RowsOf(u) /\ ownPics[u] <= PicsOf(u)

(* Refuted: what a user lists is stored (one reference is counted for      *)
(* every user that owns a file).                                           *)
ListedIsStored == \A u \in Users, f \in Files : Lists(u, f) => refs[Digest[f]] # NoRow
=============================================================================
