---------------------------- MODULE FileStoreProofs ----------------------------
(***************************************************************************)
(* Theorems about the lists of files, the shared files and the ranking,    *)
(* for any numbers of users, files and contents: without failures, no      *)
(* order of requests, logins and downloads makes the tables and the Redis  *)
(* set, which different statements write, disagree; and what is counted    *)
(* by statements of its own (the count of file_info, the counters of       *)
(* Redis) agrees with, or bounds, the rows it counts.                      *)
(***************************************************************************)
EXTENDS FileStore, FiniteSetTheorems, FunctionTheorems, WellFoundedInduction, TLAPS

(* The part of the types that the proofs need.                             *)
Types ==
  /\ rows \in [Owned -> Nat] /\ shared \in [Owned -> Nat]
  /\ status \in [Owned -> BOOLEAN]
  /\ faults \in Nat

(* shared_status is a column of a row, so it goes with the row.            *)
StatusOfRow == \A o \in Owned : status[o] => rows[o] > 0

(* Two users never share the same file.                                    *)
SharersAgree == \A u, v \in Users, f \in Files : shared[<<u, f>>] > 0 /\ shared[<<v, f>>] > 0 => u = v

IInv ==
  /\ Types
  /\ StatusOfRow
  /\ faults = 0 => SharersAgree
  /\ SharedIsListed
  /\ RankedHaveNames

-----------------------------------------------------------------------------
(* Indices and updates of tables whose rows belong to a user and a file.   *)
LEMMA Pairs ==
  ASSUME NEW u \in Users, NEW f \in Files
  PROVE  <<u, f>> \in Owned
BY DEF Owned

LEMMA PairsDiffer ==
  ASSUME NEW u, NEW f, NEW v, NEW g
  PROVE  <<v, g>> = <<u, f>> <=> v = u /\ g = f
OBVIOUS

LEMMA StatusUpdate ==
  ASSUME NEW T \in [Owned -> BOOLEAN], NEW o \in Owned, NEW b \in BOOLEAN, NEW U,
         U = [T EXCEPT ![o] = b]
  PROVE  /\ U \in [Owned -> BOOLEAN] /\ U[o] = b
         /\ \A x \in Owned : x # o => U[x] = T[x]
OBVIOUS

LEMMA StatusLowered ==
  ASSUME NEW T \in [Owned -> BOOLEAN], NEW o \in Owned, NEW U,
         U = [T EXCEPT ![o] = FALSE] \/ U = T
  PROVE  U \in [Owned -> BOOLEAN] /\ \A x \in Owned : U[x] => T[x]
<1>1. CASE U = [T EXCEPT ![o] = FALSE]
  <2>1. U \in [Owned -> BOOLEAN] /\ U[o] = FALSE /\ \A x \in Owned : x # o => U[x] = T[x]
    BY <1>1, StatusUpdate
  <2>2. \A x \in Owned : U[x] => T[x]
    BY <2>1, Zenon
  <2> QED BY <2>1, <2>2
<1>2. CASE U = T
  BY <1>2
<1> QED BY <1>1, <1>2

LEMMA SharedUpdate ==
  ASSUME NEW T \in [Owned -> Nat], NEW o \in Owned, NEW n \in Nat, NEW U,
         U = [T EXCEPT ![o] = n]
  PROVE  /\ U \in [Owned -> Nat] /\ U[o] = n
         /\ \A x \in Owned : x # o => U[x] = T[x]
OBVIOUS

(* A request without failures has executed all its statements.             *)
LEMMA Undisturbed ==
  ASSUME Types, NEW last \in Nat, NEW cut \in Nat, NEW lost \in Nat, Request(last, cut, lost)
  PROVE  /\ faults' \in Nat
         /\ faults' = 0 => faults = 0 /\ lost = 0 /\ cut = last + 1
<1> DEFINE bad == (IF cut <= last THEN 1 ELSE 0) + (IF lost > 0 THEN 1 ELSE 0)
<1>1. faults' = faults + bad /\ cut \in 1..(last + 1) /\ lost < cut
  BY DEF Request
<1>2. bad \in Nat /\ (bad = 0 => ~(cut <= last) /\ ~(lost > 0))
  OBVIOUS
<1> QED BY <1>1, <1>2 DEF Types

LEMMA InitIInv == Init => IInv
<1> SUFFICES ASSUME Init PROVE IInv
  OBVIOUS
<1>1. Types /\ StatusOfRow
  BY DEF Init, Types, StatusOfRow
<1>2. SharersAgree
  BY Pairs DEF Init, SharersAgree
<1>3. SharedIsListed
  BY DEF Init, SharedIsListed
<1>4. DOMAIN ranked = {}
  BY DEF Init
<1> QED BY <1>1, <1>2, <1>3, <1>4 DEF IInv, RankedHaveNames

-----------------------------------------------------------------------------
(* Steps that change no list, no share and not the ranking.                *)
LEMMA OthersKeep ==
  ASSUME IInv, UNCHANGED <<rows, status, shared, ranked, names, unlisted>>,
         faults' \in Nat, faults' = 0 => faults = 0
  PROVE  IInv'
BY DEF IInv, Types, StatusOfRow, SharersAgree, SharedIsListed, RankedHaveNames

(* A row more for a user: what is shared stays listed.                     *)
LEMMA InsertKeeps ==
  ASSUME IInv, NEW u \in Users, NEW f \in Files,
         InsertRow(u, f) \/ UNCHANGED lists,
         UNCHANGED <<shared, ranked, names, unlisted>>,
         faults' \in Nat, faults' = 0 => faults = 0
  PROVE  IInv'
<1>1. CASE InsertRow(u, f)
  <2>1. <<u, f>> \in Owned /\ status' = status /\ rows' = [rows EXCEPT ![<<u, f>>] = @ + 1]
    BY <1>1, Pairs DEF InsertRow
  <2>2. Types' /\ \A o \in Owned : rows'[o] = (IF o = <<u, f>> THEN rows[o] + 1 ELSE rows[o])
    BY <2>1 DEF IInv, Types
  <2>3. StatusOfRow'
    BY <2>1, <2>2 DEF IInv, Types, StatusOfRow
  <2>4. (faults = 0 => SharersAgree)'
    BY DEF IInv, SharersAgree
  <2>5. SharedIsListed'
    BY <2>1, <2>2 DEF IInv, Types, StatusOfRow, SharedIsListed
  <2>6. RankedHaveNames'
    BY DEF IInv, RankedHaveNames
  <2> QED BY <2>2, <2>3, <2>4, <2>5, <2>6 DEF IInv
<1>2. CASE UNCHANGED lists
  BY <1>2, OthersKeep DEF lists
<1> QED BY <1>1, <1>2

(* The numbers of statements that the actions choose.                      *)
LEMMA Numbered ==
  ASSUME NEW last \in Nat
  PROVE  Cuts(last) \subseteq Nat
BY DEF Cuts

-----------------------------------------------------------------------------
(* Uploading, saving, and the handlers that only count.                    *)
LEMMA UploadStep ==
  ASSUME IInv, NEW u \in Users, NEW f \in Files, NEW cut \in Nat, Upload(u, f, cut)
  PROVE  IInv'
<1>1. Request(2, cut, 0)
  BY DEF Upload
<1>2. faults' \in Nat /\ (faults' = 0 => faults = 0)
  BY <1>1, Undisturbed DEF IInv
<1>3. InsertRow(u, f) \/ UNCHANGED lists
  BY DEF Upload, StoreFileinfo
<1> QED BY <1>2, <1>3, InsertKeeps DEF Upload, shares, redis, hist

LEMMA DealMd5Step ==
  ASSUME IInv, NEW u \in Users, NEW f \in Files, NEW cut \in Nat, NEW lost \in Nat,
         DealMd5(u, f, cut, lost)
  PROVE  IInv'
<1>1. Request(4, cut, lost)
  BY DEF DealMd5
<1>2. faults' \in Nat /\ (faults' = 0 => faults = 0)
  BY <1>1, Undisturbed DEF IInv
<1>3. InsertRow(u, f) \/ UNCHANGED lists
  BY DEF DealMd5
<1> QED BY <1>2, <1>3, InsertKeeps DEF DealMd5, shares, redis, hist

LEMMA SaveFileStep ==
  ASSUME IInv, NEW u \in Users, NEW f \in Files, NEW cut \in Nat, SaveFile(u, f, cut)
  PROVE  IInv'
<1>1. Request(3, cut, 0)
  BY DEF SaveFile
<1>2. faults' \in Nat /\ (faults' = 0 => faults = 0)
  BY <1>1, Undisturbed DEF IInv
<1>3. InsertRow(u, f) \/ UNCHANGED lists
  BY DEF SaveFile
<1> QED BY <1>2, <1>3, InsertKeeps DEF SaveFile, shares, redis, hist

LEMMA CountingStep ==
  ASSUME IInv, NEW cut \in Nat, NEW u,
         CountShared(cut) \/ CountOwn(u, cut) \/ CountPictures(u, cut)
  PROVE  IInv'
<1>1. Request(1, cut, 0)
  BY DEF CountShared, CountOwn, CountPictures
<1>2. faults' \in Nat /\ (faults' = 0 => faults = 0)
  BY <1>1, Undisturbed DEF IInv
<1>3. UNCHANGED <<rows, status, shared, ranked, names, unlisted>>
  BY DEF CountShared, CountOwn, CountPictures, lists, shares, redis, hist
<1> QED BY <1>2, <1>3, OthersKeep

LEMMA SharePictureStep ==
  ASSUME IInv, NEW u, NEW m, NEW cut \in Nat, NEW lost \in Nat, SharePicture(u, m, cut, lost)
  PROVE  IInv'
<1>1. Request(3, cut, lost)
  BY DEF SharePicture
<1>2. faults' \in Nat /\ (faults' = 0 => faults = 0)
  BY <1>1, Undisturbed DEF IInv
<1> QED BY <1>2, OthersKeep DEF SharePicture, lists, shares, redis, hist

LEMMA CancelPictureStep ==
  ASSUME IInv, NEW u, NEW m, NEW cut \in Nat, NEW lost \in Nat, CancelPicture(u, m, cut, lost)
  PROVE  IInv'
<1>1. Request(5, cut, lost)
  BY DEF CancelPicture
<1>2. faults' \in Nat /\ (faults' = 0 => faults = 0)
  BY <1>1, Undisturbed DEF IInv
<1> QED BY <1>2, OthersKeep DEF CancelPicture, lists, shares, redis, hist

LEMMA UserDownloadStep ==
  ASSUME IInv, NEW u, NEW f, NEW cut \in Nat, UserDownload(u, f, cut)
  PROVE  IInv'
<1>1. Request(2, cut, 0)
  BY DEF UserDownload
<1>2. faults' \in Nat /\ (faults' = 0 => faults = 0)
  BY <1>1, Undisturbed DEF IInv
<1> QED BY <1>2, OthersKeep DEF UserDownload, redis, hist

LEMMA LoginStepKeeps ==
  ASSUME IInv, NEW u, ApiUserLogin(u)
  PROVE  IInv'
<1>1. UNCHANGED <<files, lists, shares, pics, redis, unlisted, faults>>
  BY DEF ApiUserLogin, LoginCountsFiles, LoginSetsFiles, LoginCountsPics, LoginSetsPics, LoginStep
<1> QED BY <1>1, OthersKeep DEF lists, shares, redis, IInv, Types

LEMMA CrashStep ==
  ASSUME IInv, Crash
  PROVE  IInv'
BY OthersKeep DEF Crash, lists, shares, redis, hist, IInv, Types

LEMMA RestartStep ==
  ASSUME IInv, Restart
  PROVE  IInv'
BY OthersKeep DEF Restart, lists, shares, hist, IInv, Types

-----------------------------------------------------------------------------
(* Sharing, and the end of sharing.                                        *)

(* Only a file that nobody shares is shared, also when the set has lost it. *)
LEMMA ShareFileStep ==
  ASSUME IInv, NEW u \in Users, NEW f \in Files, NEW found \in ZsetExit(f),
         NEW cut \in Nat, NEW lost \in Nat, ShareFile(u, f, found, cut, lost)
  PROVE  IInv'
<1> DEFINE fresh == ~found /\ ~SharedInMysql(f, lost)
<1>1. Request(6, cut, lost) /\ rows' = rows
  BY DEF ShareFile
<1>2. /\ faults' \in Nat
      /\ faults' = 0 => faults = 0 /\ lost = 0 /\ cut = 7
  BY <1>1, Undisturbed DEF IInv
<1>3. <<u, f>> \in Owned /\ found \in BOOLEAN
  BY Pairs DEF ZsetExit
<1>4. /\ \/ status' = [status EXCEPT ![<<u, f>>] = TRUE] /\ rows[<<u, f>>] > 0
         \/ status' = status
      /\ shared' = [shared EXCEPT ![<<u, f>>] = @ + 1] \/ shared' = shared
  BY DEF ShareFile, Lists
<1>5. Types'
  <2>1. status' \in [Owned -> BOOLEAN]
    BY <1>3, <1>4 DEF IInv, Types
  <2>2. shared' \in [Owned -> Nat]
    BY <1>3, <1>4 DEF IInv, Types
  <2> QED BY <1>1, <1>2, <2>1, <2>2 DEF IInv, Types
<1>6. StatusOfRow'
  BY <1>1, <1>3, <1>4 DEF IInv, Types, StatusOfRow
<1>7. ASSUME faults' = 0 PROVE SharersAgree' /\ SharedIsListed' /\ RankedHaveNames'
  <2>1. faults = 0 /\ lost = 0 /\ cut = 7
    BY <1>2, <1>7
  <2>2. \A i \in 1..6 : Done(i, cut, lost)
    BY <2>1 DEF Done
  <2>3. fresh => \A v \in Users : shared[<<v, f>>] = 0
    BY <2>1, Pairs DEF SharedInMysql, Sharers, IInv, Types
  <2>4. /\ status' = IF fresh /\ Lists(u, f) THEN [status EXCEPT ![<<u, f>>] = TRUE] ELSE status
        /\ unlisted' = IF fresh /\ ~Lists(u, f) THEN unlisted \cup {<<u, f>>} ELSE unlisted
        /\ shared' = IF fresh THEN [shared EXCEPT ![<<u, f>>] = @ + 1] ELSE shared
        /\ ranked' = IF ~found THEN ZsetAdd(f, 0) ELSE ranked
        /\ names' = IF ~found THEN names \cup {f} ELSE names
    BY <2>2 DEF ShareFile
  <2> HIDE DEF fresh
  <2>5. SharersAgree'
    <3>1. CASE fresh
      <4>1. \A o \in Owned : o # <<u, f>> => shared'[o] = shared[o]
        BY <1>3, <2>4, <3>1, SharedUpdate DEF IInv, Types
      <4>2. ASSUME NEW v \in Users, NEW w \in Users, NEW g \in Files,
                   shared'[<<v, g>>] > 0, shared'[<<w, g>>] > 0
            PROVE  v = w
        <5>1. CASE g = f
          <6>1. ASSUME NEW x \in Users, x # u PROVE shared'[<<x, f>>] = 0
            BY <2>3, <3>1, <4>1, <6>1, Pairs, PairsDiffer
          <6> QED BY <4>2, <5>1, <6>1
        <5>2. CASE g # f
          <6>1. \A x \in Users : shared'[<<x, g>>] = shared[<<x, g>>]
            BY <4>1, <5>2, Pairs, PairsDiffer
          <6> QED BY <2>1, <4>2, <6>1 DEF IInv, SharersAgree
        <5> QED BY <5>1, <5>2
      <4> QED BY <4>2 DEF SharersAgree
    <3>2. CASE ~fresh
      BY <2>1, <2>4, <3>2 DEF IInv, SharersAgree
    <3> QED BY <3>1, <3>2
  <2>6. SharedIsListed'
    <3>1. CASE fresh
      <4>1. /\ shared'[<<u, f>>] = shared[<<u, f>>] + 1
            /\ \A o \in Owned : o # <<u, f>> => shared'[o] = shared[o]
        BY <1>3, <2>4, <3>1, SharedUpdate DEF IInv, Types
      <4>2. \A o \in Owned : o # <<u, f>> => /\ status'[o] = status[o]
                                             /\ o \in unlisted' <=> o \in unlisted
        BY <1>3, <2>4, StatusUpdate DEF IInv, Types
      <4>3. ASSUME NEW o \in Owned
            PROVE  shared'[o] > 0 <=> (rows'[o] > 0 /\ status'[o]) \/ o \in unlisted'
        <5>1. CASE o = <<u, f>>
          <6>1. shared'[o] > 0
            BY <1>3, <4>1, <5>1 DEF IInv, Types
          <6>2. CASE Lists(u, f)
            <7>1. status'[o]
              BY <1>3, <2>4, <3>1, <5>1, <6>2, StatusUpdate DEF IInv, Types
            <7> QED BY <1>1, <5>1, <6>1, <6>2, <7>1 DEF Lists
          <6>3. CASE ~Lists(u, f)
            <7>1. o \in unlisted'
              BY <2>4, <3>1, <5>1, <6>3
            <7> QED BY <6>1, <7>1
          <6> QED BY <6>2, <6>3
        <5>2. CASE o # <<u, f>>
          BY <1>1, <2>1, <4>1, <4>2, <5>2 DEF IInv, SharedIsListed
        <5> QED BY <5>1, <5>2
      <4> QED BY <4>3 DEF SharedIsListed
    <3>2. CASE ~fresh
      BY <1>1, <2>1, <2>4, <3>2 DEF IInv, SharedIsListed
    <3> QED BY <3>1, <3>2
  <2>7. RankedHaveNames'
    BY <2>1, <2>4 DEF IInv, RankedHaveNames, ZsetAdd
  <2> QED BY <2>5, <2>6, <2>7
<1> QED BY <1>5, <1>6, <1>7 DEF IInv, SharedIsListed, RankedHaveNames

(* Who stops to share a file leaves at most the others.                    *)
LEMMA NoneAdded ==
  ASSUME Types, SharersAgree, NEW p,
         shared'[p] = 0, \A o \in Owned : o # p => shared'[o] = shared[o]
  PROVE  SharersAgree'
<1>1. \A o \in Owned : shared'[o] > 0 => shared[o] > 0
  OBVIOUS
<1> QED BY <1>1, Pairs DEF SharersAgree

LEMMA CancelShareFileStep ==
  ASSUME IInv, NEW u \in Users, NEW f \in Files, NEW cut \in Nat, CancelShareFile(u, f, cut)
  PROVE  IInv'
<1>1. Request(5, cut, 0) /\ rows' = rows
  BY DEF CancelShareFile
<1>2. /\ faults' \in Nat
      /\ faults' = 0 => faults = 0 /\ cut = 6
  BY <1>1, Undisturbed DEF IInv
<1>3. <<u, f>> \in Owned
  BY Pairs
<1>4. /\ status' = [status EXCEPT ![<<u, f>>] = FALSE] \/ status' = status
      /\ shared' = [shared EXCEPT ![<<u, f>>] = 0] \/ shared' = shared
  BY DEF CancelShareFile
<1>5. Types' /\ StatusOfRow'
  <2>1. status' \in [Owned -> BOOLEAN] /\ \A o \in Owned : status'[o] => status[o]
    BY <1>3, <1>4, StatusLowered DEF IInv, Types
  <2>2. shared' \in [Owned -> Nat]
    <3>1. CASE shared' = [shared EXCEPT ![<<u, f>>] = 0]
      BY <1>3, <3>1, SharedUpdate DEF IInv, Types
    <3>2. CASE shared' = shared
      BY <3>2 DEF IInv, Types
    <3> QED BY <1>4, <3>1, <3>2
  <2> QED BY <1>1, <1>2, <2>1, <2>2 DEF IInv, Types, StatusOfRow
<1>6. ASSUME faults' = 0 PROVE SharersAgree' /\ SharedIsListed' /\ RankedHaveNames'
  <2>1. faults = 0 /\ \A i \in 1..5 : Done(i, cut, 0)
    BY <1>2, <1>6 DEF Done
  <2>2. /\ status' = [status EXCEPT ![<<u, f>>] = FALSE]
        /\ shared' = [shared EXCEPT ![<<u, f>>] = 0]
        /\ unlisted' = unlisted \ {<<u, f>>}
        /\ ranked' = ZsetZrem(f) /\ names' = names \ {f}
    BY <2>1 DEF CancelShareFile
  <2>3. /\ shared'[<<u, f>>] = 0 /\ \A o \in Owned : o # <<u, f>> => shared'[o] = shared[o]
        /\ status'[<<u, f>>] = FALSE /\ \A o \in Owned : o # <<u, f>> => status'[o] = status[o]
    <3>1. shared'[<<u, f>>] = 0 /\ \A o \in Owned : o # <<u, f>> => shared'[o] = shared[o]
      BY <1>3, <2>2, SharedUpdate DEF IInv, Types
    <3>2. status'[<<u, f>>] = FALSE /\ \A o \in Owned : o # <<u, f>> => status'[o] = status[o]
      BY <1>3, <2>2, StatusUpdate DEF IInv, Types
    <3> QED BY <3>1, <3>2
  <2>4. SharersAgree'
    BY <2>1, <2>3, NoneAdded DEF IInv
  <2>5. SharedIsListed'
    <3>1. ASSUME NEW o \in Owned
          PROVE  shared'[o] > 0 <=> (rows'[o] > 0 /\ status'[o]) \/ o \in unlisted'
      <4>1. CASE o = <<u, f>>
        <5>1. ~(shared'[o] > 0) /\ ~status'[o]
          BY <2>3, <4>1
        <5>2. o \notin unlisted'
          BY <2>2, <4>1
        <5> QED BY <5>1, <5>2
      <4>2. CASE o # <<u, f>>
        <5>1. o \in unlisted' <=> o \in unlisted
          BY <2>2, <4>2
        <5> QED BY <1>1, <2>1, <2>3, <4>2, <5>1 DEF IInv, SharedIsListed
      <4> QED BY <4>1, <4>2
    <3> QED BY <3>1 DEF SharedIsListed
  <2>6. RankedHaveNames'
    BY <2>1, <2>2 DEF IInv, RankedHaveNames, ZsetZrem
  <2> QED BY <2>4, <2>5, <2>6
<1> QED BY <1>5, <1>6 DEF IInv, SharedIsListed, RankedHaveNames

-----------------------------------------------------------------------------
(* Deleting.                                                               *)
LEMMA DeleteFileStep ==
  ASSUME IInv, NEW u \in Users, NEW f \in Files, NEW found \in ZsetExit(f),
         NEW cut \in Nat, NEW lost \in Nat, DeleteFile(u, f, found, cut, lost)
  PROVE  IInv'
<1> DEFINE isShared == found \/ (Lists(u, f) /\ status[<<u, f>>])
<1>1. Request(9, cut, lost)
  BY DEF DeleteFile
<1>2. /\ faults' \in Nat
      /\ faults' = 0 => faults = 0 /\ lost = 0 /\ cut = 10
  BY <1>1, Undisturbed DEF IInv
<1>3. <<u, f>> \in Owned
  BY Pairs
<1>4. \/ /\ rows' = [rows EXCEPT ![<<u, f>>] = 0]
         /\ status' = [status EXCEPT ![<<u, f>>] = FALSE]
      \/ rows' = rows /\ status' = status
  BY DEF DeleteFile
<1>5. shared' = [shared EXCEPT ![<<u, f>>] = 0] \/ shared' = shared
  BY DEF DeleteFile
<1>6. rows' \in [Owned -> Nat] /\ status' \in [Owned -> BOOLEAN] /\ StatusOfRow'
  <2>1. CASE rows' = [rows EXCEPT ![<<u, f>>] = 0] /\ status' = [status EXCEPT ![<<u, f>>] = FALSE]
    <3>1. /\ rows' \in [Owned -> Nat]
          /\ \A o \in Owned : o # <<u, f>> => rows'[o] = rows[o]
      BY <1>3, <2>1, SharedUpdate DEF IInv, Types
    <3>2. /\ status' \in [Owned -> BOOLEAN] /\ status'[<<u, f>>] = FALSE
          /\ \A o \in Owned : o # <<u, f>> => status'[o] = status[o]
      BY <1>3, <2>1, StatusUpdate DEF IInv, Types
    <3>3. ASSUME NEW o \in Owned, status'[o] PROVE rows'[o] > 0
      <4>1. o # <<u, f>> /\ status[o]
        BY <3>2, <3>3
      <4> QED BY <3>1, <4>1 DEF IInv, StatusOfRow
    <3> QED BY <3>1, <3>2, <3>3 DEF StatusOfRow
  <2>2. CASE rows' = rows /\ status' = status
    BY <2>2 DEF IInv, Types, StatusOfRow
  <2> QED BY <1>4, <2>1, <2>2
<1>7. Types'
  <2>1. shared' \in [Owned -> Nat]
    <3>1. CASE shared' = [shared EXCEPT ![<<u, f>>] = 0]
      BY <1>3, <3>1, SharedUpdate DEF IInv, Types
    <3>2. CASE shared' = shared
      BY <3>2 DEF IInv, Types
    <3> QED BY <1>5, <3>1, <3>2
  <2> QED BY <1>2, <1>6, <2>1 DEF Types
<1>8. ASSUME faults' = 0 PROVE SharersAgree' /\ SharedIsListed' /\ RankedHaveNames'
  <2>1. faults = 0 /\ \A i \in 1..9 : Done(i, cut, lost)
    BY <1>2, <1>8 DEF Done
  <2>2. /\ shared' = IF isShared THEN [shared EXCEPT ![<<u, f>>] = 0] ELSE shared
        /\ rows' = [rows EXCEPT ![<<u, f>>] = 0]
        /\ status' = [status EXCEPT ![<<u, f>>] = FALSE]
        /\ ranked' = IF found THEN ZsetZrem(f) ELSE ranked
        /\ names' = IF found THEN names \ {f} ELSE names
        /\ unlisted' = IF isShared THEN unlisted \ {<<u, f>>} ELSE unlisted
    BY <2>1 DEF DeleteFile
  <2>3. /\ \A o \in Owned : o # <<u, f>> => shared'[o] = shared[o]
        /\ shared'[<<u, f>>] = (IF isShared THEN 0 ELSE shared[<<u, f>>])
    BY <1>3, <2>2, SharedUpdate DEF IInv, Types
  <2>4. /\ \A o \in Owned : o # <<u, f>> => rows'[o] = rows[o]
        /\ status'[<<u, f>>] = FALSE /\ \A o \in Owned : o # <<u, f>> => status'[o] = status[o]
    BY <1>3, <2>2, SharedUpdate, StatusUpdate DEF IInv, Types
  <2>5. SharersAgree'
    <3>1. CASE isShared
      BY <2>1, <2>3, <3>1, NoneAdded DEF IInv
    <3>2. CASE ~isShared
      BY <2>1, <2>2, <3>2 DEF IInv, SharersAgree
    <3> QED BY <3>1, <3>2
  <2>6. SharedIsListed'
    <3>1. ASSUME NEW o \in Owned
          PROVE  shared'[o] > 0 <=> (rows'[o] > 0 /\ status'[o]) \/ o \in unlisted'
      <4>1. CASE o = <<u, f>> /\ isShared
        <5>1. shared'[o] = 0 /\ ~status'[o] /\ o \notin unlisted'
          BY <2>2, <2>3, <2>4, <4>1
        <5> QED BY <5>1
      <4>2. CASE o = <<u, f>> /\ ~isShared
        <5>1. shared'[o] = shared[o] /\ ~status'[o] /\ unlisted' = unlisted
          BY <2>2, <2>3, <2>4, <4>2
        <5>2. ~(rows[o] > 0 /\ status[o])
          BY <4>2 DEF Lists
        <5> QED BY <2>1, <5>1, <5>2 DEF IInv, SharedIsListed
      <4>3. CASE o # <<u, f>>
        <5>1. o \in unlisted' <=> o \in unlisted
          BY <2>2, <4>3
        <5> QED BY <2>1, <2>3, <2>4, <4>3, <5>1 DEF IInv, SharedIsListed
      <4> QED BY <4>1, <4>2, <4>3
    <3> QED BY <3>1 DEF SharedIsListed
  <2>7. RankedHaveNames'
    BY <2>1, <2>2 DEF IInv, RankedHaveNames, ZsetZrem
  <2> QED BY <2>5, <2>6, <2>7
<1> QED BY <1>6, <1>7, <1>8 DEF IInv, SharedIsListed, RankedHaveNames

-----------------------------------------------------------------------------
(* Handlers that change the ranking only.                                  *)
LEMMA RankingChanges ==
  ASSUME IInv, UNCHANGED <<rows, status, shared, unlisted>>,
         faults' \in Nat, faults' = 0 => faults = 0 /\ DOMAIN ranked' \subseteq names'
  PROVE  IInv'
BY DEF IInv, Types, StatusOfRow, SharersAgree, SharedIsListed, RankedHaveNames

LEMMA PublicDownloadStep ==
  ASSUME IInv, NEW u \in Users, NEW f \in Files, NEW found \in ZsetExit(f),
         NEW cut \in Nat, NEW lost \in Nat, PublicDownload(u, f, found, cut, lost)
  PROVE  IInv'
<1>1. Request(3, cut, lost) /\ UNCHANGED <<rows, status, shared, unlisted>>
  BY DEF PublicDownload, lists, hist
<1>2. /\ faults' \in Nat
      /\ faults' = 0 => faults = 0 /\ lost = 0 /\ cut = 4
  BY <1>1, Undisturbed DEF IInv
<1>3. ASSUME faults' = 0 PROVE DOMAIN ranked' \subseteq names'
  <2>1. DOMAIN ranked \subseteq names /\ Done(2, cut, lost) /\ Done(3, cut, lost)
    BY <1>2, <1>3 DEF IInv, RankedHaveNames, Done
  <2>2. DOMAIN ranked' = DOMAIN ranked \cup {f}
    BY <2>1 DEF PublicDownload, ZsetAdd
  <2>3. CASE found
    <3>1. f \in DOMAIN ranked
      BY <2>3 DEF ZsetExit
    <3> QED BY <2>1, <2>2, <2>3, <3>1 DEF PublicDownload
  <2>4. CASE ~found
    BY <2>1, <2>2, <2>4 DEF PublicDownload
  <2> QED BY <2>3, <2>4
<1> QED BY <1>1, <1>2, <1>3, RankingChanges

(* When nothing fails every shared file gets its score and its name.       *)
LEMMA AllReloaded ==
  ASSUME NEW cut \in Nat, NEW lost \in Nat, NEW added \in SUBSET Files, NEW named \in SUBSET Files,
         Reloaded(cut, lost, added, named), cut > 4, lost # 4
  PROVE  added = SharedFiles /\ named = SharedFiles
<1> DEFINE A == SharedFiles \ added
           B == SharedFiles \ named
<1>1. A \subseteq Files /\ B \subseteq Files
  BY DEF SharedFiles
<1>2. IsFiniteSet(A) /\ IsFiniteSet(B)
  BY <1>1, FileStoreAssumption, FS_Subset DEF FileStoreAssumption
<1>3. Cardinality(A) \in Nat /\ Cardinality(B) \in Nat
  BY <1>2, FS_CardinalityType
<1>4. Cardinality(A) + Cardinality(B) <= 0 /\ added \subseteq SharedFiles /\ named \subseteq SharedFiles
  BY DEF Reloaded
<1> HIDE DEF A, B
<1>5. Cardinality(A) = 0 /\ Cardinality(B) = 0
  BY <1>3, <1>4
<1>6. A = {} /\ B = {}
  BY <1>2, <1>5, FS_EmptySet
<1> QED BY <1>4, <1>6 DEF A, B

LEMMA RankingStep ==
  ASSUME IInv, NEW cut \in Nat, NEW lost \in Nat,
         NEW added \in SUBSET Files, NEW named \in SUBSET Files, Ranking(cut, lost, added, named)
  PROVE  IInv'
<1> DEFINE reload == Cardinality(DOMAIN ranked) # PublicTotal
<1>1. Request(4, cut, lost) /\ UNCHANGED <<rows, status, shared, unlisted>>
  BY DEF Ranking, lists, shares, hist
<1>2. /\ faults' \in Nat
      /\ faults' = 0 => faults = 0 /\ lost = 0 /\ cut = 5
  BY <1>1, Undisturbed DEF IInv
<1>3. ASSUME faults' = 0 PROVE DOMAIN ranked' \subseteq names'
  <2>1. /\ DOMAIN ranked \subseteq names
        /\ Done(2, cut, lost) /\ Done(3, cut, lost)
        /\ cut > 4 /\ lost # 4
    BY <1>2, <1>3 DEF IInv, RankedHaveNames, Done
  <2>2. CASE reload
    <3>1. DOMAIN ranked' = added /\ names' = named
      BY <2>1, <2>2 DEF Ranking
    <3>2. added \subseteq SharedFiles
      BY DEF Ranking, Reloaded
    <3>3. named = SharedFiles
      BY <2>1, AllReloaded DEF Ranking
    <3> QED BY <3>1, <3>2, <3>3
  <2>3. CASE ~reload
    BY <2>1, <2>3 DEF Ranking
  <2> QED BY <2>2, <2>3
<1> QED BY <1>1, <1>2, <1>3, RankingChanges

-----------------------------------------------------------------------------
(* The statements a request may be cut at, or lose, are natural numbers.   *)
LEMMA NextKeeps ==
  ASSUME IInv, [Next]_vars
  PROVE  IInv'
<1> USE Numbered
<1>1. ASSUME ApiUpload PROVE IInv'
  BY <1>1, UploadStep DEF ApiUpload
<1>2. ASSUME ApiMd5 PROVE IInv'
  BY <1>2, DealMd5Step DEF ApiMd5, Losses
<1>3. ASSUME ApiMyfiles PROVE IInv'
  BY <1>3, CountingStep DEF ApiMyfiles
<1>4. ASSUME ApiDealfile PROVE IInv'
  <2>1. PICK u \in Users, f \in Files :
          \/ \E cut \in Cuts(2) : UserDownload(u, f, cut)
          \/ \E found \in ZsetExit(f) :
               \/ \E cut \in Cuts(6), lost \in Losses({1, 5, 6}) : ShareFile(u, f, found, cut, lost)
               \/ \E cut \in Cuts(9), lost \in Losses({3, 4, 8}) : DeleteFile(u, f, found, cut, lost)
    BY <1>4 DEF ApiDealfile
  <2> QED BY <2>1, UserDownloadStep, ShareFileStep, DeleteFileStep DEF Losses
<1>5. ASSUME ApiDealsharefile PROVE IInv'
  BY <1>5, CancelShareFileStep, SaveFileStep, PublicDownloadStep DEF ApiDealsharefile, Losses
<1>6. ASSUME ApiSharefiles PROVE IInv'
  BY <1>6, CountingStep, RankingStep DEF ApiSharefiles, Losses
<1>7. ASSUME ApiSharepicture PROVE IInv'
  BY <1>7, SharePictureStep, CancelPictureStep, CountingStep DEF ApiSharepicture, Losses
<1>8. ASSUME NEW u \in Users, ApiUserLogin(u) PROVE IInv'
  BY <1>8, LoginStepKeeps
<1>9. ASSUME UNCHANGED vars PROVE IInv'
  BY <1>9, OthersKeep DEF vars, lists, shares, redis, hist, IInv, Types
<1> QED BY <1>1, <1>2, <1>3, <1>4, <1>5, <1>6, <1>7, <1>8, <1>9, CrashStep, RestartStep DEF Next

LEMMA Inductive == Spec => []IInv
BY InitIInv, NextKeeps, PTL DEF Spec

(* While nothing fails, a file is in share_file_list exactly for the users *)
(* whose own row says that they share it, and for those who shared a file  *)
(* that they did not list: the handlers that share, cancel and delete      *)
(* write both tables alike, whatever ZLEXCOUNT answers and whatever file   *)
(* they are asked about.                                                   *)
THEOREM TablesAgree == Spec => []SharedIsListed
<1>1. IInv => SharedIsListed
  BY DEF IInv
<1> QED BY <1>1, Inductive, PTL

(* While nothing fails, handleShareFile never shares a file for a second   *)
(* user, because it asks MySQL when the Redis set seems to lack the file.  *)
THEOREM OneAtATime == Spec => []OneSharer
<1>1. ASSUME IInv PROVE OneSharer
  <2>1. ASSUME faults = 0, NEW f \in Files PROVE Cardinality(Sharers(f)) <= 1
    <3>1. \A u, v \in Sharers(f) : u = v
      BY <1>1, <2>1 DEF IInv, SharersAgree, Sharers
    <3>2. CASE Sharers(f) = {}
      BY <3>2, FS_EmptySet
    <3>3. CASE Sharers(f) # {}
      <4>1. PICK u : Sharers(f) = {u}
        BY <3>1, <3>3
      <4> QED BY <4>1, FS_Singleton
    <3> QED BY <3>2, <3>3
  <2> QED BY <2>1 DEF OneSharer
<1> QED BY <1>1, Inductive, PTL

(* While nothing fails, a ranking request finds a name for every file of   *)
(* the set.                                                                *)
THEOREM RankedAreNamed == Spec => []RankedHaveNames
<1>1. IInv => RankedHaveNames
  BY DEF IInv
<1> QED BY <1>1, Inductive, PTL

-----------------------------------------------------------------------------
(* What is counted: the count of file_info, which five handlers change by  *)
(* statements of their own, against the rows that refer to a digest, and   *)
(* the counters of Redis against the rows they count.  A sum over a table  *)
(* is the number of its numbered rows (Entries), so the first lemmas are   *)
(* about sets and their sizes.                                             *)

(* Tables that count rows: the number of rows of some keys is a number,    *)
(* depends on those keys only, and changes as the rows of one key do.      *)
LEMMA EntriesFinite ==
  ASSUME NEW K, IsFiniteSet(K), NEW T, \A k \in K : T[k] \in Nat
  PROVE  IsFiniteSet(Entries(T, K)) /\ Total(T, K) \in Nat
<1> DEFINE rowsOf == [k \in K |-> {k} \X (1..T[k])]
           Numbered_(S) == {rowsOf[k] : k \in S}
<1>1. rowsOf \in Surjection(K, Numbered_(K))
  BY DEF Surjection
<1>2. IsFiniteSet(Numbered_(K))
  BY <1>1, FS_Surjection
<1>3. ASSUME NEW k \in K PROVE IsFiniteSet(rowsOf[k])
  <2>1. IsFiniteSet({k})
    BY FS_Singleton
  <2>2. T[k] \in Int
    OBVIOUS
  <2>3. IsFiniteSet(1..T[k])
    BY <2>2, FS_Interval
  <2> QED BY <2>1, <2>3, FS_Product
<1>4. IsFiniteSet(UNION Numbered_(K))
  BY <1>2, <1>3, FS_UNION
<1>5. UNION Numbered_(K) = Entries(T, K)
  BY DEF Entries
<1> QED BY <1>4, <1>5, FS_CardinalityType DEF Total

LEMMA TotalAgrees ==
  ASSUME NEW K, NEW T, NEW U, \A k \in K : U[k] = T[k]
  PROVE  Total(U, K) = Total(T, K)
<1>1. Entries(U, K) = Entries(T, K)
  BY DEF Entries
<1> QED BY <1>1 DEF Total

LEMMA TotalSplits ==
  ASSUME NEW K, IsFiniteSet(K), NEW T, \A k \in K : T[k] \in Nat, NEW p \in K
  PROVE  Total(T, K) = Total(T, K \ {p}) + T[p]
<1> DEFINE A == Entries(T, K \ {p})
           B == {p} \X (1..T[p])
<1>1. Entries(T, K) = A \cup B /\ A \cap B = {}
  BY DEF Entries
<1>2. IsFiniteSet(A)
  BY FS_RemoveElement, EntriesFinite
<1>3. IsFiniteSet(B) /\ Cardinality(B) = T[p]
  <2>1. IsFiniteSet({p}) /\ Cardinality({p}) = 1
    BY FS_Singleton
  <2>2. T[p] \in Nat /\ T[p] \in Int
    OBVIOUS
  <2>3. IsFiniteSet(1..T[p]) /\ Cardinality(1..T[p]) = T[p]
    BY <2>2, FS_Interval
  <2>4. IsFiniteSet(B) /\ Cardinality(B) = Cardinality({p}) * Cardinality(1..T[p])
    BY <2>1, <2>3, FS_Product
  <2>5. 1 * T[p] = T[p]
    BY <2>2
  <2> QED BY <2>1, <2>3, <2>4, <2>5, Zenon
<1>4. Cardinality(A \cap B) = 0
  BY <1>1, FS_EmptySet
<1>5. Cardinality(A) \in Nat
  BY <1>2, FS_CardinalityType
<1>6. Cardinality(A \cup B) = Cardinality(A) + Cardinality(B) - Cardinality(A \cap B)
  BY <1>2, <1>3, FS_Union
<1> HIDE DEF A, B
<1>7. Cardinality(A \cup B) = Cardinality(A) + T[p]
  BY <1>3, <1>4, <1>5, <1>6
<1> QED BY <1>1, <1>7 DEF Total, A

LEMMA TotalChanges ==
  ASSUME NEW K, IsFiniteSet(K), NEW p \in K, NEW T, NEW U,
         \A k \in K : T[k] \in Nat /\ U[k] \in Nat,
         \A k \in K : k # p => U[k] = T[k]
  PROVE  Total(U, K) = Total(T, K) - T[p] + U[p]
<1>1. Total(U, K \ {p}) = Total(T, K \ {p})
  BY TotalAgrees
<1>2. Total(T, K \ {p}) \in Nat
  BY FS_RemoveElement, EntriesFinite
<1>3. Total(T, K) = Total(T, K \ {p}) + T[p] /\ Total(U, K) = Total(U, K \ {p}) + U[p]
  BY TotalSplits
<1> QED BY <1>1, <1>2, <1>3

LEMMA TotalAtLeast ==
  ASSUME NEW K, IsFiniteSet(K), NEW T, \A k \in K : T[k] \in Nat, NEW p \in K
  PROVE  T[p] <= Total(T, K)
<1>1. Total(T, K \ {p}) \in Nat
  BY FS_RemoveElement, EntriesFinite
<1> QED BY <1>1, TotalSplits

(* A table in which only the rows of one key have changed.                 *)
LEMMA OneKeyChanges ==
  ASSUME NEW D, NEW T \in [D -> Nat], NEW U \in [D -> Nat], NEW p \in D,
         \A k \in D : k # p => U[k] = T[k],
         NEW K \in SUBSET D, IsFiniteSet(K)
  PROVE  /\ p \in K => Total(U, K) = Total(T, K) - T[p] + U[p] /\ T[p] <= Total(T, K)
         /\ p \notin K => Total(U, K) = Total(T, K)
<1>1. \A k \in K : T[k] \in Nat /\ U[k] \in Nat
  OBVIOUS
<1>2. CASE p \in K
  <2>1. Total(U, K) = Total(T, K) - T[p] + U[p]
    BY <1>1, <1>2, TotalChanges
  <2>2. T[p] <= Total(T, K)
    BY <1>1, <1>2, TotalAtLeast
  <2> QED BY <1>2, <2>1, <2>2
<1>3. CASE p \notin K
  BY <1>3, TotalAgrees
<1> QED BY <1>2, <1>3

LEMMA TotalOfNone ==
  ASSUME NEW K, NEW T, \A k \in K : T[k] = 0
  PROVE  Total(T, K) = 0
<1>1. Entries(T, K) = {}
  BY DEF Entries
<1> QED BY <1>1, FS_EmptySet DEF Total

-----------------------------------------------------------------------------
(* The type invariant in parts, by who writes the variables.               *)
StoredTypes ==
  /\ refs \in [Digests -> Nat \cup {NoRow}] /\ kept \in [Digests -> BOOLEAN]
  /\ rows \in [Owned -> Nat] /\ shared \in [Owned -> Nat]
  /\ status \in [Owned -> BOOLEAN]
  /\ pv \in [Owned -> Nat] /\ sharedPv \in [Owned -> Nat]
  /\ pics \in [Users \X Digests -> Nat]

CachedTypes ==
  /\ \E S \in SUBSET Files : ranked \in [S -> Nat]
  /\ names \subseteq Files
  /\ public \in Nat
  /\ own \in [Users -> Nat] /\ ownPics \in [Users -> Nat]

LoginType == [at : {"idle", "files", "between", "pictures"}, n : Nat]

WorldTypes ==
  /\ login \in [Users -> LoginType]
  /\ up \in BOOLEAN
  /\ faults \in 0..MaxFaults /\ logins \in 0..MaxLogins /\ downloads \in 0..MaxDownloads

HistTypes ==
  /\ short \in [Digests -> Nat] /\ unlisted \subseteq Owned /\ stale \subseteq Users
  /\ late \in 0..MaxLate

LEMMA TypeParts ==
  /\ TypeOK <=> StoredTypes /\ CachedTypes /\ WorldTypes /\ HistTypes
  /\ TypeOK' <=> StoredTypes' /\ CachedTypes' /\ WorldTypes' /\ HistTypes'
BY DEF TypeOK, StoredTypes, CachedTypes, WorldTypes, HistTypes, LoginType

LEMMA DigestOf ==
  ASSUME NEW f \in Files
  PROVE  Digest[f] \in Digests
BY FileStoreAssumption DEF FileStoreAssumption

LEMMA DecrNat ==
  ASSUME NEW n \in Nat
  PROVE  Decr(n) \in Nat
BY DEF Decr

LEMMA RequestTypes ==
  ASSUME TypeOK, NEW last \in Nat, NEW cut \in Nat, NEW lost \in Nat, Request(last, cut, lost),
         downloads' \in 0..MaxDownloads
  PROVE  WorldTypes'
<1>1. faults' \in 0..MaxFaults
  BY FileStoreAssumption, TypeParts DEF Request, WorldTypes, FileStoreAssumption
<1>2. up' \in BOOLEAN
  BY DEF Request
<1>3. login' \in [Users -> LoginType]
  BY TypeParts DEF Request, WorldTypes, LoginType, Idle
<1>4. logins' = logins
  BY DEF Request
<1> QED BY <1>1, <1>2, <1>3, <1>4, TypeParts DEF WorldTypes

LEMMA HistKept ==
  ASSUME TypeOK, UNCHANGED hist
  PROVE  HistTypes'
BY TypeParts DEF hist, HistTypes

LEMMA LateTypes ==
  ASSUME TypeOK, NEW missing, Late(missing)
  PROVE  late' \in 0..MaxLate
BY TypeParts, FileStoreAssumption DEF Late, MayBeLate, HistTypes, FileStoreAssumption

LEMMA MissedTypes ==
  ASSUME TypeOK, NEW m \in Digests, NEW missed, Missed(m, missed)
  PROVE  short' \in [Digests -> Nat]
BY TypeParts DEF Missed, HistTypes

LEMMA InitTypes == Init => TypeOK
<1> SUFFICES ASSUME Init PROVE TypeOK
  OBVIOUS
<1>1. StoredTypes
  BY DEF Init, StoredTypes, NoRow
<1>2. CachedTypes
  <2>1. ranked \in [{} -> Nat]
    BY DEF Init
  <2> QED BY <2>1 DEF Init, CachedTypes
<1>3. WorldTypes
  BY FileStoreAssumption DEF Init, WorldTypes, FileStoreAssumption, LoginType, Idle
<1>4. HistTypes
  BY FileStoreAssumption DEF Init, HistTypes, FileStoreAssumption
<1> QED BY <1>1, <1>2, <1>3, <1>4, TypeParts

LEMMA InsertRowTypes ==
  ASSUME TypeOK, NEW u \in Users, NEW f \in Files, InsertRow(u, f) \/ UNCHANGED lists
  PROVE  /\ rows' \in [Owned -> Nat] /\ status' \in [Owned -> BOOLEAN] /\ pv' \in [Owned -> Nat]
BY TypeParts, Pairs DEF InsertRow, lists, StoredTypes

LEMMA UploadTypes ==
  ASSUME TypeOK, NEW u \in Users, NEW f \in Files, NEW cut \in Nat, Upload(u, f, cut)
  PROVE  TypeOK'
<1> USE TypeParts, DigestOf
<1>1. InsertRow(u, f) \/ UNCHANGED lists
  BY DEF Upload, StoreFileinfo
<1>2. refs' \in [Digests -> Nat \cup {NoRow}] /\ kept' \in [Digests -> BOOLEAN]
  BY DEF Upload, StoreFileinfo, StoredTypes
<1>3. StoredTypes'
  BY <1>1, <1>2, InsertRowTypes DEF Upload, StoredTypes, shares
<1>4. CachedTypes'
  BY DEF Upload, CachedTypes, redis, counts
<1>5. WorldTypes'
  BY RequestTypes DEF Upload, WorldTypes
<1>6. HistTypes'
  BY HistKept DEF Upload
<1> QED BY <1>3, <1>4, <1>5, <1>6

LEMMA DealMd5Types ==
  ASSUME TypeOK, NEW u \in Users, NEW f \in Files, NEW cut \in Nat, NEW lost \in Nat,
         DealMd5(u, f, cut, lost)
  PROVE  TypeOK'
<1> USE TypeParts, DigestOf
<1>1. InsertRow(u, f) \/ UNCHANGED lists
  BY DEF DealMd5
<1>2. refs' \in [Digests -> Nat \cup {NoRow}]
  BY DEF DealMd5, StoredTypes, NoRow
<1>3. StoredTypes'
  BY <1>1, <1>2, InsertRowTypes DEF DealMd5, StoredTypes, shares
<1>4. CachedTypes'
  BY DEF DealMd5, CachedTypes, redis
<1>5. WorldTypes'
  BY RequestTypes DEF DealMd5, WorldTypes
<1>6. HistTypes'
  BY HistKept DEF DealMd5
<1> QED BY <1>3, <1>4, <1>5, <1>6

LEMMA SaveFileTypes ==
  ASSUME TypeOK, NEW u \in Users, NEW f \in Files, NEW cut \in Nat, SaveFile(u, f, cut)
  PROVE  TypeOK'
<1> USE TypeParts, DigestOf
<1>1. InsertRow(u, f) \/ UNCHANGED lists
  BY DEF SaveFile
<1>2. refs' \in [Digests -> Nat \cup {NoRow}]
  BY DEF SaveFile, StoredTypes, NoRow
<1>3. StoredTypes'
  BY <1>1, <1>2, InsertRowTypes DEF SaveFile, StoredTypes, shares
<1>4. CachedTypes'
  BY DEF SaveFile, CachedTypes, redis
<1>5. WorldTypes'
  BY RequestTypes DEF SaveFile, WorldTypes
<1>6. HistTypes'
  BY HistKept DEF SaveFile
<1> QED BY <1>3, <1>4, <1>5, <1>6

(* The set's members are files.                                            *)
LEMMA ZsetTypes ==
  ASSUME CachedTypes, NEW f \in Files
  PROVE  /\ \A n \in Nat : \E S \in SUBSET Files : ZsetAdd(f, n) \in [S -> Nat]
         /\ \E S \in SUBSET Files : ZsetZrem(f) \in [S -> Nat]
<1>1. PICK S \in SUBSET Files : ranked \in [S -> Nat]
  BY DEF CachedTypes
<1>2. \A n \in Nat : ZsetAdd(f, n) \in [S \cup {f} -> Nat]
  BY <1>1 DEF ZsetAdd
<1>3. ZsetZrem(f) \in [S \ {f} -> Nat]
  BY <1>1 DEF ZsetZrem
<1> QED BY <1>1, <1>2, <1>3

LEMMA ShareFileTypes ==
  ASSUME TypeOK, NEW u \in Users, NEW f \in Files, NEW found, NEW cut \in Nat, NEW lost \in Nat,
         ShareFile(u, f, found, cut, lost)
  PROVE  TypeOK'
<1> USE TypeParts
<1>1. <<u, f>> \in Owned
  BY Pairs
<1>2. status' \in [Owned -> BOOLEAN]
  BY <1>1 DEF ShareFile, StoredTypes
<1>3. shared' \in [Owned -> Nat] /\ sharedPv' \in [Owned -> Nat]
  BY <1>1 DEF ShareFile, StoredTypes
<1>4. StoredTypes'
  BY <1>2, <1>3 DEF ShareFile, StoredTypes, files
<1>5. \E S \in SUBSET Files : ranked' \in [S -> Nat]
  BY ZsetTypes DEF ShareFile, CachedTypes
<1>6. CachedTypes'
  BY <1>5 DEF ShareFile, CachedTypes, counts
<1>7. WorldTypes'
  BY RequestTypes DEF ShareFile, WorldTypes
<1>8. HistTypes'
  <2>1. late' \in 0..MaxLate
    BY LateTypes DEF ShareFile
  <2>2. unlisted' \subseteq Owned /\ UNCHANGED <<short, stale>>
    BY <1>1 DEF ShareFile, HistTypes
  <2> QED BY <2>1, <2>2 DEF HistTypes
<1> QED BY <1>4, <1>6, <1>7, <1>8

LEMMA CancelShareFileTypes ==
  ASSUME TypeOK, NEW u \in Users, NEW f \in Files, NEW cut \in Nat, CancelShareFile(u, f, cut)
  PROVE  TypeOK'
<1> USE TypeParts
<1>1. <<u, f>> \in Owned
  BY Pairs
<1>2. status' \in [Owned -> BOOLEAN]
  BY <1>1, StatusLowered DEF CancelShareFile, StoredTypes
<1>3. shared' \in [Owned -> Nat]
  BY <1>1 DEF CancelShareFile, StoredTypes
<1>4. StoredTypes'
  BY <1>2, <1>3 DEF CancelShareFile, StoredTypes, files
<1>5. \E S \in SUBSET Files : ranked' \in [S -> Nat]
  BY ZsetTypes DEF CancelShareFile, CachedTypes
<1>6. CachedTypes'
  BY <1>5, DecrNat DEF CancelShareFile, CachedTypes, counts
<1>7. WorldTypes'
  BY RequestTypes DEF CancelShareFile, WorldTypes
<1>8. HistTypes'
  BY DEF CancelShareFile, HistTypes
<1> QED BY <1>4, <1>6, <1>7, <1>8

LEMMA DeleteFileTypes ==
  ASSUME TypeOK, NEW u \in Users, NEW f \in Files, NEW found, NEW cut \in Nat, NEW lost \in Nat,
         DeleteFile(u, f, found, cut, lost)
  PROVE  TypeOK'
<1> USE TypeParts
<1>1. <<u, f>> \in Owned /\ Digest[f] \in Digests
  BY Pairs, DigestOf
<1>2. status' \in [Owned -> BOOLEAN]
  BY <1>1, StatusLowered DEF DeleteFile, StoredTypes
<1>3. rows' \in [Owned -> Nat] /\ shared' \in [Owned -> Nat] /\ pv' \in [Owned -> Nat]
  BY <1>1 DEF DeleteFile, StoredTypes
<1>4. refs' \in [Digests -> Nat \cup {NoRow}]
  BY <1>1 DEF DeleteFile, StoredTypes, Decr
<1>5. kept' \in [Digests -> BOOLEAN]
  BY <1>1 DEF DeleteFile, StoredTypes
<1>6. StoredTypes'
  BY <1>2, <1>3, <1>4, <1>5 DEF DeleteFile, StoredTypes
<1>7. \E S \in SUBSET Files : ranked' \in [S -> Nat]
  BY ZsetTypes DEF DeleteFile, CachedTypes
<1>8. CachedTypes'
  BY <1>7, DecrNat DEF DeleteFile, CachedTypes
<1>9. WorldTypes'
  BY RequestTypes DEF DeleteFile, WorldTypes
<1>10. HistTypes'
  <2>1. late' \in 0..MaxLate
    BY LateTypes DEF DeleteFile
  <2>2. short' \in [Digests -> Nat]
    BY <1>1, MissedTypes DEF DeleteFile
  <2>3. unlisted' \subseteq Owned /\ stale' \subseteq Users
    BY DEF DeleteFile, HistTypes
  <2> QED BY <2>1, <2>2, <2>3 DEF HistTypes
<1> QED BY <1>6, <1>8, <1>9, <1>10

LEMMA UserDownloadTypes ==
  ASSUME TypeOK, NEW u \in Users, NEW f \in Files, NEW cut \in Nat, UserDownload(u, f, cut)
  PROVE  TypeOK'
<1> USE TypeParts
<1>1. <<u, f>> \in Owned
  BY Pairs
<1>2. pv' \in [Owned -> Nat] /\ sharedPv' \in [Owned -> Nat]
  BY <1>1 DEF UserDownload, StoredTypes
<1>3. StoredTypes'
  BY <1>2 DEF UserDownload, StoredTypes, files
<1>4. CachedTypes'
  BY DEF UserDownload, CachedTypes, redis, counts
<1>5. downloads' \in 0..MaxDownloads
  BY FileStoreAssumption DEF UserDownload, MayDownload, WorldTypes, FileStoreAssumption
<1>6. WorldTypes'
  BY <1>5, RequestTypes DEF UserDownload
<1>7. HistTypes'
  BY HistKept DEF UserDownload
<1> QED BY <1>3, <1>4, <1>6, <1>7

LEMMA PublicDownloadTypes ==
  ASSUME TypeOK, NEW u \in Users, NEW f \in Files, NEW found \in ZsetExit(f),
         NEW cut \in Nat, NEW lost \in Nat, PublicDownload(u, f, found, cut, lost)
  PROVE  TypeOK'
<1> USE TypeParts
<1> DEFINE score == sharedPv[<<u, f>>] + 1
<1>1. score \in Nat
  BY Pairs DEF StoredTypes
<1> HIDE DEF score
<1>2. sharedPv' \in [Owned -> Nat]
  BY <1>1 DEF PublicDownload, StoredTypes, score
<1>3. StoredTypes'
  BY <1>2 DEF PublicDownload, StoredTypes, files, lists
<1>4. found => ranked[f] + 1 \in Nat
  <2>1. found => f \in DOMAIN ranked
    BY DEF ZsetExit
  <2> QED BY <2>1 DEF CachedTypes
<1>5. \E S \in SUBSET Files : ranked' \in [S -> Nat]
  <2>1. CASE Done(2, cut, lost) /\ found
    BY <1>4, <2>1, ZsetTypes DEF PublicDownload
  <2>2. CASE Done(2, cut, lost) /\ ~found
    BY <1>1, <2>2, ZsetTypes DEF PublicDownload, score
  <2>3. CASE ~Done(2, cut, lost)
    BY <2>3 DEF PublicDownload, CachedTypes
  <2> QED BY <2>1, <2>2, <2>3
<1>6. CachedTypes'
  BY <1>5 DEF PublicDownload, CachedTypes, counts
<1>7. downloads' \in 0..MaxDownloads
  BY FileStoreAssumption DEF PublicDownload, MayDownload, WorldTypes, FileStoreAssumption
<1>8. WorldTypes'
  BY <1>7, RequestTypes DEF PublicDownload
<1>9. HistTypes'
  BY HistKept DEF PublicDownload
<1> QED BY <1>3, <1>6, <1>8, <1>9

(* The counters of the tables are numbers.                                 *)
LEMMA CountedRows ==
  ASSUME StoredTypes
  PROVE  /\ ShareRows \in Nat
         /\ \A u \in Users : RowsOf(u) \in Nat /\ PicsOf(u) \in Nat
<1>1. IsFiniteSet(Owned)
  BY FileStoreAssumption, FS_Product DEF Owned, FileStoreAssumption
<1>2. ShareRows \in Nat
  BY <1>1, EntriesFinite DEF ShareRows, StoredTypes
<1>3. ASSUME NEW u \in Users PROVE RowsOf(u) \in Nat /\ PicsOf(u) \in Nat
  <2>1. IsFiniteSet({u} \X Files) /\ IsFiniteSet({u} \X Digests)
    BY FileStoreAssumption, FS_Singleton, FS_Product DEF FileStoreAssumption
  <2>2. \A k \in {u} \X Files : rows[k] \in Nat
    BY DEF StoredTypes, Owned
  <2>3. \A k \in {u} \X Digests : pics[k] \in Nat
    BY DEF StoredTypes
  <2> QED BY <2>1, <2>2, <2>3, EntriesFinite DEF RowsOf, PicsOf
<1> QED BY <1>2, <1>3

LEMMA CountSharedTypes ==
  ASSUME TypeOK, NEW cut \in Nat, CountShared(cut)
  PROVE  TypeOK'
<1> USE TypeParts
<1>1. StoredTypes'
  BY DEF CountShared, StoredTypes, files, lists, shares
<1>2. PublicTotal \in Nat
  BY CountedRows DEF PublicTotal, CachedTypes
<1>3. CachedTypes'
  BY <1>2 DEF CountShared, CachedTypes, counts
<1>4. WorldTypes'
  BY RequestTypes DEF CountShared, WorldTypes
<1>5. HistTypes'
  BY HistKept DEF CountShared
<1> QED BY <1>1, <1>3, <1>4, <1>5

LEMMA CountingTypes ==
  ASSUME TypeOK, NEW cut \in Nat, NEW u \in Users, CountOwn(u, cut) \/ CountPictures(u, cut)
  PROVE  TypeOK'
<1> USE TypeParts, CountedRows
<1>1. StoredTypes'
  BY DEF CountOwn, CountPictures, StoredTypes, files, lists, shares
<1>2. own' \in [Users -> Nat] /\ ownPics' \in [Users -> Nat]
  BY DEF CountOwn, CountPictures, CachedTypes
<1>3. CachedTypes'
  BY <1>2 DEF CountOwn, CountPictures, CachedTypes, redis
<1>4. WorldTypes'
  BY RequestTypes DEF CountOwn, CountPictures, WorldTypes
<1>5. HistTypes'
  BY HistKept DEF CountOwn, CountPictures
<1> QED BY <1>1, <1>3, <1>4, <1>5

(* A non-empty set of numbers has a least one.                             *)
LEMMA Least ==
  ASSUME NEW S \in SUBSET Nat, S # {}
  PROVE  \E n \in S : \A x \in S : n <= x
<1> DEFINE below == {p \in Nat \X Nat : p[1] < p[2]}
<1>1. IsWellFoundedOn(below, Nat)
  BY NatLessThanWellFounded DEF OpToRel
<1>2. PICK n \in S : \A x \in S : ~(<<x, n>> \in below)
  <2> HIDE DEF below
  <2> QED BY <1>1, WFMin
<1>3. n \in Nat /\ \A x \in S : x \in Nat /\ ~(x < n)
  BY <1>2
<1> QED BY <1>3

LEMMA RankingTypes ==
  ASSUME TypeOK, NEW cut \in Nat, NEW lost \in Nat,
         NEW added \in SUBSET Files, NEW named \in SUBSET Files, Ranking(cut, lost, added, named)
  PROVE  TypeOK'
<1> USE TypeParts
<1> DEFINE pvs(f) == {sharedPv[<<u, f>>] : u \in Sharers(f)}
           score(f) == CHOOSE n \in pvs(f) : \A u \in Sharers(f) : n <= sharedPv[<<u, f>>]
<1>1. StoredTypes'
  BY DEF Ranking, StoredTypes, files, lists, shares
<1>2. PublicTotal \in Nat
  BY CountedRows DEF PublicTotal, CachedTypes
<1>3. ASSUME NEW f \in added PROVE score(f) \in Nat
  <2>1. f \in Files /\ Sharers(f) # {}
    BY DEF Ranking, Reloaded, SharedFiles
  <2>2. pvs(f) \in SUBSET Nat /\ pvs(f) # {}
    <3>1. Sharers(f) \subseteq Users
      BY DEF Sharers
    <3>2. \A u \in Users : sharedPv[<<u, f>>] \in Nat
      BY <2>1, Pairs DEF StoredTypes
    <3> QED BY <2>1, <3>1, <3>2
  <2>3. \E n \in pvs(f) : \A x \in pvs(f) : n <= x
    BY <2>2, Least
  <2>4. \E n \in pvs(f) : \A u \in Sharers(f) : n <= sharedPv[<<u, f>>]
    BY <2>3
  <2> HIDE DEF pvs
  <2>5. score(f) \in pvs(f)
    BY <2>4
  <2> QED BY <2>2, <2>5
<1>4. \E S \in SUBSET Files : ranked' \in [S -> Nat]
  <2> DEFINE old == IF Done(2, cut, lost) THEN {} ELSE DOMAIN ranked
             new == [f \in old \cup added |-> IF f \in added THEN score(f) ELSE ranked[f]]
  <2>1. PICK S \in SUBSET Files : ranked \in [S -> Nat]
    BY DEF CachedTypes
  <2>2. old \subseteq S
    BY <2>1
  <2> HIDE DEF score
  <2>3. new \in [old \cup added -> Nat] /\ old \cup added \in SUBSET Files
    BY <1>3, <2>1, <2>2
  <2>4. ranked' = ranked \/ ranked' = new
    BY DEF Ranking, score
  <2> HIDE DEF new, old
  <2> QED BY <2>1, <2>3, <2>4
<1>5. CachedTypes'
  BY <1>2, <1>4 DEF Ranking, CachedTypes, counts
<1>6. WorldTypes'
  BY RequestTypes DEF Ranking, WorldTypes
<1>7. HistTypes'
  BY HistKept DEF Ranking
<1> QED BY <1>1, <1>5, <1>6, <1>7

LEMMA SharePictureTypes ==
  ASSUME TypeOK, NEW u \in Users, NEW m \in Digests, NEW cut \in Nat, NEW lost \in Nat,
         SharePicture(u, m, cut, lost)
  PROVE  TypeOK'
<1> USE TypeParts
<1>1. <<u, m>> \in Users \X Digests
  OBVIOUS
<1>2. pics' \in [Users \X Digests -> Nat]
  BY <1>1 DEF SharePicture, StoredTypes
<1>3. refs' \in [Digests -> Nat \cup {NoRow}]
  BY DEF SharePicture, StoredTypes, NoRow
<1>4. StoredTypes'
  BY <1>2, <1>3 DEF SharePicture, StoredTypes, lists, shares
<1>5. CachedTypes'
  BY DEF SharePicture, CachedTypes, redis
<1>6. WorldTypes'
  BY RequestTypes DEF SharePicture, WorldTypes
<1>7. HistTypes'
  <2>1. late' \in 0..MaxLate
    BY LateTypes DEF SharePicture
  <2>2. short' \in [Digests -> Nat]
    BY MissedTypes DEF SharePicture
  <2> QED BY <2>1, <2>2 DEF SharePicture, HistTypes
<1> QED BY <1>4, <1>5, <1>6, <1>7

LEMMA CancelPictureTypes ==
  ASSUME TypeOK, NEW u \in Users, NEW m \in Digests, NEW cut \in Nat, NEW lost \in Nat,
         CancelPicture(u, m, cut, lost)
  PROVE  TypeOK'
<1> USE TypeParts
<1>1. <<u, m>> \in Users \X Digests /\ pics[<<u, m>>] > 0
  BY DEF CancelPicture
<1>2. pics' \in [Users \X Digests -> Nat]
  <2>1. pics[<<u, m>>] \in Nat /\ pics[<<u, m>>] - 1 \in Nat
    BY <1>1 DEF StoredTypes
  <2>2. pics' = pics \/ pics' = [pics EXCEPT ![<<u, m>>] = @ - 1]
    BY DEF CancelPicture
  <2> QED BY <1>1, <2>1, <2>2 DEF StoredTypes
<1>3. refs' \in [Digests -> Nat \cup {NoRow}] /\ kept' \in [Digests -> BOOLEAN]
  <2>1. refs[m] # NoRow => Decr(refs[m]) \in Nat
    BY DecrNat DEF StoredTypes
  <2>2. refs' \in [Digests -> Nat \cup {NoRow}]
    BY <2>1 DEF CancelPicture, StoredTypes, files
  <2>3. kept' \in [Digests -> BOOLEAN]
    BY DEF CancelPicture, StoredTypes, files
  <2> QED BY <2>2, <2>3
<1>4. StoredTypes'
  BY <1>2, <1>3 DEF CancelPicture, StoredTypes, lists, shares
<1>5. CachedTypes'
  BY DecrNat DEF CancelPicture, CachedTypes, redis
<1>6. WorldTypes'
  BY RequestTypes DEF CancelPicture, WorldTypes
<1>7. HistTypes'
  <2>1. short' \in [Digests -> Nat]
    BY MissedTypes DEF CancelPicture
  <2> QED BY <2>1 DEF CancelPicture, HistTypes
<1> QED BY <1>4, <1>5, <1>6, <1>7

LEMMA LoginTypes ==
  ASSUME TypeOK, NEW u \in Users, ApiUserLogin(u)
  PROVE  TypeOK'
<1> USE TypeParts, CountedRows
<1>1. PICK at, next : LoginStep(u, at, next) /\ next \in LoginType
  BY DEF ApiUserLogin, LoginCountsFiles, LoginSetsFiles, LoginCountsPics, LoginSetsPics, LoginType, Idle
<1>2. StoredTypes'
  BY <1>1 DEF LoginStep, StoredTypes, files, lists, shares
<1>3. own' \in [Users -> Nat] /\ ownPics' \in [Users -> Nat]
  BY DEF ApiUserLogin, LoginCountsFiles, LoginSetsFiles, LoginCountsPics, LoginSetsPics,
         CachedTypes, WorldTypes, LoginType, counts
<1>4. CachedTypes'
  BY <1>1, <1>3 DEF LoginStep, CachedTypes, redis
<1>5. login' \in [Users -> LoginType]
  BY <1>1 DEF LoginStep, WorldTypes
<1>6. logins' \in 0..MaxLogins
  BY FileStoreAssumption
     DEF ApiUserLogin, LoginCountsFiles, LoginSetsFiles, LoginCountsPics, LoginSetsPics,
         MayLogin, WorldTypes, FileStoreAssumption
<1>7. stale' \subseteq Users
  BY DEF ApiUserLogin, LoginCountsFiles, LoginSetsFiles, LoginCountsPics, LoginSetsPics, HistTypes
<1>8. WorldTypes'
  BY <1>1, <1>5, <1>6 DEF LoginStep, WorldTypes
<1>9. HistTypes'
  BY <1>1, <1>7 DEF LoginStep, HistTypes
<1> QED BY <1>2, <1>4, <1>8, <1>9

LEMMA CrashTypes ==
  ASSUME TypeOK, Crash
  PROVE  TypeOK'
<1> USE TypeParts
<1>1. StoredTypes' /\ CachedTypes'
  BY DEF Crash, StoredTypes, CachedTypes, files, lists, shares, redis, counts
<1>2. faults' \in 0..MaxFaults
  BY FileStoreAssumption DEF Crash, WorldTypes, MayFail, FileStoreAssumption
<1>3. login' \in [Users -> LoginType]
  BY DEF Crash, LoginType, Idle
<1>4. WorldTypes'
  BY <1>2, <1>3 DEF Crash, WorldTypes
<1>5. HistTypes'
  BY HistKept DEF Crash
<1> QED BY <1>1, <1>4, <1>5

LEMMA RestartTypes ==
  ASSUME TypeOK, Restart
  PROVE  TypeOK'
<1> USE TypeParts
<1>1. StoredTypes'
  BY DEF Restart, StoredTypes, files, lists, shares
<1>2. CachedTypes'
  BY CountedRows DEF Restart, CachedTypes, counts
<1>3. WorldTypes'
  BY DEF Restart, WorldTypes
<1>4. HistTypes'
  BY HistKept DEF Restart
<1> QED BY <1>1, <1>2, <1>3, <1>4

LEMMA StutterTypes ==
  ASSUME TypeOK, UNCHANGED vars
  PROVE  TypeOK'
<1> USE TypeParts
<1>1. StoredTypes' /\ CachedTypes' /\ WorldTypes' /\ HistTypes'
  BY HistKept DEF vars, StoredTypes, CachedTypes, WorldTypes, files, lists, shares, redis, counts
<1> QED BY <1>1

(* Every step keeps the types.                                             *)
LEMMA NextTypes ==
  ASSUME TypeOK, [Next]_vars
  PROVE  TypeOK'
<1> USE Numbered
<1>1. ASSUME ApiUpload PROVE TypeOK'
  BY <1>1, UploadTypes DEF ApiUpload
<1>2. ASSUME ApiMd5 PROVE TypeOK'
  BY <1>2, DealMd5Types DEF ApiMd5, Losses
<1>3. ASSUME ApiMyfiles PROVE TypeOK'
  BY <1>3, CountingTypes DEF ApiMyfiles
<1>4. ASSUME ApiDealfile PROVE TypeOK'
  <2>1. PICK u \in Users, f \in Files :
          \/ \E cut \in Cuts(2) : UserDownload(u, f, cut)
          \/ \E found \in ZsetExit(f) :
               \/ \E cut \in Cuts(6), lost \in Losses({1, 5, 6}) : ShareFile(u, f, found, cut, lost)
               \/ \E cut \in Cuts(9), lost \in Losses({3, 4, 8}) : DeleteFile(u, f, found, cut, lost)
    BY <1>4 DEF ApiDealfile
  <2> QED BY <2>1, UserDownloadTypes, ShareFileTypes, DeleteFileTypes DEF Losses
<1>5. ASSUME ApiDealsharefile PROVE TypeOK'
  BY <1>5, CancelShareFileTypes, SaveFileTypes, PublicDownloadTypes DEF ApiDealsharefile, Losses
<1>6. ASSUME ApiSharefiles PROVE TypeOK'
  <2>1. CASE \E cut \in Cuts(4), lost \in Losses({2, 3, 4}), added, named \in SUBSET Files :
               Ranking(cut, lost, added, named)
    BY <2>1, RankingTypes DEF Losses
  <2>2. CASE \E cut \in Cuts(1) : CountShared(cut)
    BY <2>2, CountSharedTypes
  <2> QED BY <1>6, <2>1, <2>2 DEF ApiSharefiles
<1>7. ASSUME ApiSharepicture PROVE TypeOK'
  BY <1>7, SharePictureTypes, CancelPictureTypes, CountingTypes DEF ApiSharepicture, Losses
<1>8. ASSUME NEW u \in Users, ApiUserLogin(u) PROVE TypeOK'
  BY <1>8, LoginTypes
<1> QED BY <1>1, <1>2, <1>3, <1>4, <1>5, <1>6, <1>7, <1>8, CrashTypes, RestartTypes, StutterTypes DEF Next

(* Every variable keeps its type, for any number of users, files, digests, *)
(* failures, logins and downloads: no counter of Redis goes below 0, and   *)
(* the reference count of a row is never negative.                         *)
THEOREM TypesKept == Spec => []TypeOK
BY InitTypes, NextTypes, PTL DEF Spec

-----------------------------------------------------------------------------
(* How references and counts change with a row.                            *)
LEMMA OwnedFinite ==
  /\ IsFiniteSet(Owned) /\ IsFiniteSet(Users \X Digests)
  /\ \A m \in Digests : /\ IsFiniteSet(FilesOf(m)) /\ FilesOf(m) \subseteq Owned
                        /\ IsFiniteSet(Users \X {m})
  /\ \A u \in Users : IsFiniteSet({u} \X Files) /\ IsFiniteSet({u} \X Digests)
<1>1. IsFiniteSet(Users) /\ IsFiniteSet(Files) /\ IsFiniteSet(Digests)
  BY FileStoreAssumption DEF FileStoreAssumption
<1>2. IsFiniteSet(Owned) /\ IsFiniteSet(Users \X Digests)
  BY <1>1, FS_Product DEF Owned
<1>3. ASSUME NEW m \in Digests PROVE IsFiniteSet(FilesOf(m)) /\ FilesOf(m) \subseteq Owned /\ IsFiniteSet(Users \X {m})
  <2>1. FilesOf(m) \subseteq Owned
    BY DEF FilesOf
  <2> QED BY <1>1, <1>2, <2>1, FS_Subset, FS_Singleton, FS_Product
<1>4. ASSUME NEW u \in Users PROVE IsFiniteSet({u} \X Files) /\ IsFiniteSet({u} \X Digests)
  BY <1>1, FS_Singleton, FS_Product
<1> QED BY <1>2, <1>3, <1>4

LEMMA ReferencesNat ==
  ASSUME StoredTypes, NEW m \in Digests
  PROVE  /\ Total(rows, FilesOf(m)) \in Nat /\ Total(pics, Users \X {m}) \in Nat
         /\ References(m) \in Nat
<1>1. \A k \in FilesOf(m) : rows[k] \in Nat
  BY OwnedFinite DEF StoredTypes
<1>2. \A k \in Users \X {m} : pics[k] \in Nat
  BY DEF StoredTypes
<1>3. Total(rows, FilesOf(m)) \in Nat
  BY <1>1, OwnedFinite, EntriesFinite
<1>4. Total(pics, Users \X {m}) \in Nat
  BY <1>2, OwnedFinite, EntriesFinite
<1> QED BY <1>3, <1>4 DEF References

(* The rows of a user for a file change.                                   *)
LEMMA RowsChange ==
  ASSUME StoredTypes, NEW u \in Users, NEW f \in Files,
         rows' \in [Owned -> Nat], \A o \in Owned : o # <<u, f>> => rows'[o] = rows[o],
         pics' = pics
  PROVE  /\ References(Digest[f])' = References(Digest[f]) - rows[<<u, f>>] + rows'[<<u, f>>]
         /\ \A m \in Digests : m # Digest[f] => References(m)' = References(m)
         /\ RowsOf(u)' = RowsOf(u) - rows[<<u, f>>] + rows'[<<u, f>>]
         /\ \A v \in Users : v # u => RowsOf(v)' = RowsOf(v)
         /\ rows[<<u, f>>] <= RowsOf(u)
         /\ rows[<<u, f>>] <= References(Digest[f])
<1> DEFINE o == <<u, f>>
           d == Digest[f]
<1>1. o \in Owned /\ d \in Digests /\ rows \in [Owned -> Nat]
  BY Pairs, DigestOf DEF StoredTypes
<1>2. ASSUME NEW K \in SUBSET Owned, IsFiniteSet(K)
      PROVE  /\ o \in K => Total(rows', K) = Total(rows, K) - rows[o] + rows'[o] /\ rows[o] <= Total(rows, K)
             /\ o \notin K => Total(rows', K) = Total(rows, K)
  <2>1. \A k \in Owned : k # o => rows'[k] = rows[k]
    OBVIOUS
  <2> HIDE DEF o
  <2> QED BY <1>1, <1>2, <2>1, OneKeyChanges
<1>3. o \in FilesOf(d) /\ \A m \in Digests : m # d => o \notin FilesOf(m)
  BY <1>1 DEF FilesOf
<1>4. o \in {u} \X Files /\ \A v \in Users : {v} \X Files \subseteq Owned /\ (v # u => o \notin {v} \X Files)
  BY DEF Owned
<1> HIDE DEF o, d
<1>5. /\ Total(rows', FilesOf(d)) = Total(rows, FilesOf(d)) - rows[o] + rows'[o]
      /\ rows[o] <= Total(rows, FilesOf(d))
  BY <1>1, <1>2, <1>3, OwnedFinite
<1>6. \A m \in Digests : m # d => Total(rows', FilesOf(m)) = Total(rows, FilesOf(m))
  BY <1>2, <1>3, OwnedFinite
<1>7. RowsOf(u)' = RowsOf(u) - rows[o] + rows'[o] /\ rows[o] <= RowsOf(u)
  BY <1>2, <1>4, OwnedFinite DEF RowsOf
<1>8. \A v \in Users : v # u => RowsOf(v)' = RowsOf(v)
  BY <1>2, <1>4, OwnedFinite DEF RowsOf
<1>9. References(d)' = References(d) - rows[o] + rows'[o] /\ rows[o] <= References(d)
  <2>1. rows[o] \in Nat /\ rows'[o] \in Nat
    BY <1>1
  <2> QED BY <1>1, <1>5, <2>1, ReferencesNat DEF References
<1>10. \A m \in Digests : m # d => References(m)' = References(m)
  BY <1>6 DEF References
<1> QED BY <1>7, <1>8, <1>9, <1>10 DEF o, d

(* The rows of a user for a shared picture change.                         *)
LEMMA PicsChange ==
  ASSUME StoredTypes, NEW u \in Users, NEW d \in Digests,
         pics' \in [Users \X Digests -> Nat],
         \A o \in Users \X Digests : o # <<u, d>> => pics'[o] = pics[o],
         rows' = rows
  PROVE  /\ References(d)' = References(d) - pics[<<u, d>>] + pics'[<<u, d>>]
         /\ \A m \in Digests : m # d => References(m)' = References(m)
         /\ PicsOf(u)' = PicsOf(u) - pics[<<u, d>>] + pics'[<<u, d>>]
         /\ \A v \in Users : v # u => PicsOf(v)' = PicsOf(v)
         /\ pics[<<u, d>>] <= PicsOf(u)
         /\ pics[<<u, d>>] <= References(d)
<1> DEFINE o == <<u, d>>
           P == Users \X Digests
<1>1. o \in P /\ pics \in [P -> Nat]
  BY DEF StoredTypes
<1>2. ASSUME NEW K \in SUBSET P, IsFiniteSet(K)
      PROVE  /\ o \in K => Total(pics', K) = Total(pics, K) - pics[o] + pics'[o] /\ pics[o] <= Total(pics, K)
             /\ o \notin K => Total(pics', K) = Total(pics, K)
  <2>1. pics' \in [P -> Nat] /\ \A k \in P : k # o => pics'[k] = pics[k]
    OBVIOUS
  <2> HIDE DEF o, P
  <2> QED BY <1>1, <1>2, <2>1, OneKeyChanges
<1>3. o \in Users \X {d} /\ \A m \in Digests : Users \X {m} \subseteq P /\ (m # d => o \notin Users \X {m})
  OBVIOUS
<1>4. o \in {u} \X Digests /\ \A v \in Users : {v} \X Digests \subseteq P /\ (v # u => o \notin {v} \X Digests)
  OBVIOUS
<1> HIDE DEF o, P
<1>5. /\ Total(pics', Users \X {d}) = Total(pics, Users \X {d}) - pics[o] + pics'[o]
      /\ pics[o] <= Total(pics, Users \X {d})
  BY <1>2, <1>3, OwnedFinite
<1>6. \A m \in Digests : m # d => Total(pics', Users \X {m}) = Total(pics, Users \X {m})
  BY <1>2, <1>3, OwnedFinite
<1>7. PicsOf(u)' = PicsOf(u) - pics[o] + pics'[o] /\ pics[o] <= PicsOf(u)
  BY <1>2, <1>4, OwnedFinite DEF PicsOf
<1>8. \A v \in Users : v # u => PicsOf(v)' = PicsOf(v)
  BY <1>2, <1>4, OwnedFinite DEF PicsOf
<1>9. References(d)' = References(d) - pics[o] + pics'[o] /\ pics[o] <= References(d)
  <2>1. pics[o] \in Nat /\ pics'[o] \in Nat
    BY <1>1 DEF P
  <2> QED BY <1>5, <2>1, ReferencesNat DEF References
<1>10. \A m \in Digests : m # d => References(m)' = References(m)
  BY <1>6 DEF References
<1> QED BY <1>7, <1>8, <1>9, <1>10 DEF o

(* The rows of a user for a shared file change.                            *)
LEMMA SharesChange ==
  ASSUME StoredTypes, NEW u \in Users, NEW f \in Files,
         shared' \in [Owned -> Nat], \A o \in Owned : o # <<u, f>> => shared'[o] = shared[o]
  PROVE  /\ ShareRows' = ShareRows - shared[<<u, f>>] + shared'[<<u, f>>]
         /\ shared[<<u, f>>] <= ShareRows
<1> DEFINE o == <<u, f>>
<1>1. o \in Owned /\ shared \in [Owned -> Nat]
  BY Pairs DEF StoredTypes
<1>2. Owned \in SUBSET Owned /\ \A k \in Owned : k # o => shared'[k] = shared[k]
  OBVIOUS
<1> HIDE DEF o
<1>3. Total(shared', Owned) = Total(shared, Owned) - shared[o] + shared'[o] /\ shared[o] <= Total(shared, Owned)
  BY <1>1, <1>2, OwnedFinite, OneKeyChanges
<1> QED BY <1>3 DEF ShareRows, o

(* One row more, and no row any more.                                      *)
LEMMA Inserted ==
  ASSUME StoredTypes, NEW u \in Users, NEW f \in Files, InsertRow(u, f), pics' = pics
  PROVE  /\ References(Digest[f])' = References(Digest[f]) + 1
         /\ \A m \in Digests : m # Digest[f] => References(m)' = References(m)
         /\ RowsOf(u)' = RowsOf(u) + 1
         /\ \A v \in Users : v # u => RowsOf(v)' = RowsOf(v)
         /\ rows'[<<u, f>>] = rows[<<u, f>>] + 1
         /\ \A o \in Owned : o # <<u, f>> => rows'[o] = rows[o]
<1>1. <<u, f>> \in Owned /\ rows[<<u, f>>] \in Nat /\ Digest[f] \in Digests
  BY Pairs, DigestOf DEF StoredTypes
<1>2. /\ rows' \in [Owned -> Nat] /\ rows'[<<u, f>>] = rows[<<u, f>>] + 1
      /\ \A o \in Owned : o # <<u, f>> => rows'[o] = rows[o]
  BY <1>1, SharedUpdate DEF InsertRow, StoredTypes
<1>3. References(Digest[f]) \in Nat /\ RowsOf(u) \in Nat
  BY <1>1, ReferencesNat, CountedRows
<1>4. /\ References(Digest[f])' = References(Digest[f]) - rows[<<u, f>>] + rows'[<<u, f>>]
      /\ \A m \in Digests : m # Digest[f] => References(m)' = References(m)
      /\ RowsOf(u)' = RowsOf(u) - rows[<<u, f>>] + rows'[<<u, f>>]
      /\ \A v \in Users : v # u => RowsOf(v)' = RowsOf(v)
  BY <1>2, RowsChange
<1> QED BY <1>1, <1>2, <1>3, <1>4

LEMMA Removed ==
  ASSUME StoredTypes, NEW u \in Users, NEW f \in Files, rows' = [rows EXCEPT ![<<u, f>>] = 0],
         pics' = pics
  PROVE  /\ References(Digest[f])' = References(Digest[f]) - rows[<<u, f>>]
         /\ \A m \in Digests : m # Digest[f] => References(m)' = References(m)
         /\ RowsOf(u)' = RowsOf(u) - rows[<<u, f>>]
         /\ \A v \in Users : v # u => RowsOf(v)' = RowsOf(v)
         /\ rows[<<u, f>>] <= RowsOf(u) /\ rows[<<u, f>>] <= References(Digest[f])
         /\ rows'[<<u, f>>] = 0
         /\ \A o \in Owned : o # <<u, f>> => rows'[o] = rows[o]
<1>1. <<u, f>> \in Owned /\ rows[<<u, f>>] \in Nat /\ Digest[f] \in Digests
  BY Pairs, DigestOf DEF StoredTypes
<1>2. /\ rows' \in [Owned -> Nat] /\ rows'[<<u, f>>] = 0
      /\ \A o \in Owned : o # <<u, f>> => rows'[o] = rows[o]
  BY <1>1, SharedUpdate DEF StoredTypes
<1>3. References(Digest[f]) \in Nat /\ RowsOf(u) \in Nat
  BY <1>1, ReferencesNat, CountedRows
<1>4. /\ References(Digest[f])' = References(Digest[f]) - rows[<<u, f>>] + rows'[<<u, f>>]
      /\ \A m \in Digests : m # Digest[f] => References(m)' = References(m)
      /\ RowsOf(u)' = RowsOf(u) - rows[<<u, f>>] + rows'[<<u, f>>]
      /\ \A v \in Users : v # u => RowsOf(v)' = RowsOf(v)
      /\ rows[<<u, f>>] <= RowsOf(u) /\ rows[<<u, f>>] <= References(Digest[f])
  BY <1>2, RowsChange
<1> QED BY <1>1, <1>2, <1>3, <1>4

LEMMA NoneMoves ==
  ASSUME UNCHANGED <<rows, pics>>
  PROVE  /\ \A m : References(m)' = References(m)
         /\ \A u : RowsOf(u)' = RowsOf(u) /\ PicsOf(u)' = PicsOf(u)
BY DEF References, RowsOf, PicsOf, FilesOf

-----------------------------------------------------------------------------
(* A count covers the references that it has not missed.                   *)
Covered == TypeOK /\ CountCoversReferences

LEMMA OneDigestChanges ==
  ASSUME CountCoversReferences, NEW d \in Digests,
         \A m \in Digests : m # d => /\ References(m)' = References(m)
                                     /\ refs'[m] = refs[m] /\ short'[m] = short[m],
         References(d)' <= Count(d)' + short'[d]
  PROVE  CountCoversReferences'
BY DEF CountCoversReferences, Count

LEMMA CoversKept ==
  ASSUME CountCoversReferences, UNCHANGED <<refs, rows, pics, short>>
  PROVE  CountCoversReferences'
BY NoneMoves DEF CountCoversReferences, Count

(* What is known of the count of a digest, in numbers.                     *)
LEMMA CountOf ==
  ASSUME Covered, NEW d \in Digests
  PROVE  /\ References(d) \in Nat /\ Count(d) \in Nat /\ short[d] \in Nat
         /\ refs[d] = NoRow \/ (refs[d] \in Nat /\ refs[d] # NoRow)
         /\ Count(d) = IF refs[d] = NoRow THEN 0 ELSE refs[d]
         /\ References(d) <= Count(d) + short[d]
<1>1. StoredTypes /\ HistTypes
  BY TypeParts DEF Covered
<1>2. References(d) \in Nat
  BY <1>1, ReferencesNat
<1>3. References(d) <= Count(d) + short[d]
  BY DEF Covered, CountCoversReferences
<1>4. refs[d] \in Nat \cup {NoRow} /\ short[d] \in Nat
  BY <1>1 DEF StoredTypes, HistTypes
<1>5. Count(d) = IF refs[d] = NoRow THEN 0 ELSE refs[d]
  BY DEF Count
<1>6. \A n \in Nat : n # NoRow
  BY DEF NoRow
<1> QED BY <1>2, <1>3, <1>4, <1>5, <1>6

LEMMA CountAfter ==
  ASSUME NEW d \in Digests
  PROVE  Count(d)' = IF refs'[d] = NoRow THEN 0 ELSE refs'[d]
BY DEF Count, NoRow

(* A reference more that the count has missed.                             *)
LEMMA MissedBy ==
  ASSUME TypeOK, NEW d \in Digests, NEW missed \in BOOLEAN, Missed(d, missed)
  PROVE  /\ short[d] \in Nat
         /\ short'[d] = IF missed THEN short[d] + 1 ELSE short[d]
         /\ \A m \in Digests : m # d => short'[m] = short[m]
BY TypeParts DEF Missed, HistTypes

LEMMA UploadCovers ==
  ASSUME Covered, NEW u \in Users, NEW f \in Files, NEW cut \in Nat, Upload(u, f, cut)
  PROVE  CountCoversReferences'
<1> DEFINE d == Digest[f]
           inserted == Done(1, cut, 0) /\ refs[d] = NoRow
<1>1. StoredTypes /\ d \in Digests /\ pics' = pics /\ short' = short
  BY TypeParts, DigestOf DEF Covered, Upload, hist
<1>2. CASE inserted
  <2>1. /\ References(d) \in Nat /\ short[d] \in Nat
        /\ References(d) <= 0 + short[d]
    BY <1>1, <1>2, CountOf
  <2>2. refs' = [refs EXCEPT ![d] = 1]
    BY <1>2 DEF Upload, StoreFileinfo
  <2>3. refs'[d] = 1 /\ \A m \in Digests : m # d => refs'[m] = refs[m]
    BY <1>1, <2>2 DEF StoredTypes
  <2>4. Count(d)' = 1
    BY <1>1, <2>3, CountAfter DEF NoRow
  <2>5. InsertRow(u, f) \/ rows' = rows
    BY DEF Upload, StoreFileinfo, lists
  <2>6. CASE InsertRow(u, f)
    <3>1. References(d)' = References(d) + 1 /\ \A m \in Digests : m # d => References(m)' = References(m)
      BY <1>1, <2>6, Inserted
    <3>2. References(d)' <= Count(d)' + short'[d]
      BY <1>1, <2>1, <2>4, <3>1
    <3> QED BY <1>1, <2>3, <3>1, <3>2, OneDigestChanges DEF Covered
  <2>7. CASE rows' = rows
    <3>1. \A m \in Digests : References(m)' = References(m)
      BY <1>1, <2>7, NoneMoves
    <3>2. References(d)' <= Count(d)' + short'[d]
      BY <1>1, <2>1, <2>4, <3>1
    <3> QED BY <1>1, <2>3, <3>1, <3>2, OneDigestChanges DEF Covered
  <2> QED BY <2>5, <2>6, <2>7
<1>3. CASE ~inserted
  BY <1>1, <1>3, CoversKept DEF Upload, StoreFileinfo, lists, Covered
<1> QED BY <1>2, <1>3

(* A reference is counted before its row is inserted.                      *)
LEMMA CountedFirst ==
  ASSUME Covered, NEW u \in Users, NEW f \in Files, pics' = pics, short' = short,
         InsertRow(u, f) \/ rows' = rows,
         refs' = [refs EXCEPT ![Digest[f]] = @ + 1] \/ refs' = refs,
         refs' # refs \/ InsertRow(u, f) => refs[Digest[f]] # NoRow,
         InsertRow(u, f) => refs' = [refs EXCEPT ![Digest[f]] = @ + 1]
  PROVE  CountCoversReferences'
<1> DEFINE d == Digest[f]
<1>1. StoredTypes /\ d \in Digests
  BY TypeParts, DigestOf DEF Covered
<1>2. CASE refs' = [refs EXCEPT ![d] = @ + 1] /\ refs[d] # NoRow
  <2>1. refs'[d] = refs[d] + 1 /\ \A m \in Digests : m # d => refs'[m] = refs[m]
    BY <1>1, <1>2 DEF StoredTypes
  <2>2. /\ References(d) \in Nat /\ refs[d] \in Nat /\ short[d] \in Nat
        /\ References(d) <= refs[d] + short[d]
    BY <1>1, <1>2, CountOf
  <2>3. refs[d] + 1 # NoRow
    BY <2>2 DEF NoRow
  <2>4. Count(d)' = refs[d] + 1
    BY <1>1, <2>1, <2>3, CountAfter
  <2>5. CASE InsertRow(u, f)
    <3>1. References(d)' = References(d) + 1 /\ \A m \in Digests : m # d => References(m)' = References(m)
      BY <1>1, <2>5, Inserted
    <3>2. References(d)' <= Count(d)' + short'[d]
      BY <2>2, <2>4, <3>1
    <3> QED BY <1>1, <2>1, <3>1, <3>2, OneDigestChanges DEF Covered
  <2>6. CASE rows' = rows
    <3>1. \A m \in Digests : References(m)' = References(m)
      BY <2>6, NoneMoves
    <3>2. References(d)' <= Count(d)' + short'[d]
      BY <1>1, <2>2, <2>4, <3>1
    <3> QED BY <1>1, <2>1, <3>1, <3>2, OneDigestChanges DEF Covered
  <2> QED BY <2>5, <2>6
<1>3. CASE refs' = refs /\ rows' = rows
  BY <1>3, CoversKept DEF Covered
<1> QED BY <1>2, <1>3

LEMMA RowMoves ==
  ASSUME TypeOK, NEW u \in Users, NEW f \in Files, InsertRow(u, f)
  PROVE  rows' # rows
<1>1. <<u, f>> \in Owned /\ rows \in [Owned -> Nat]
  BY Pairs, TypeParts DEF StoredTypes
<1>2. rows'[<<u, f>>] = rows[<<u, f>>] + 1
  BY <1>1 DEF InsertRow
<1>3. rows[<<u, f>>] + 1 # rows[<<u, f>>]
  BY <1>1
<1> QED BY <1>2, <1>3

LEMMA DealMd5Covers ==
  ASSUME Covered, NEW u \in Users, NEW f \in Files, NEW cut \in Nat, NEW lost \in Losses({1, 4}),
         DealMd5(u, f, cut, lost)
  PROVE  CountCoversReferences'
<1>1. lost \in {0, 1, 4}
  BY DEF Losses
<1>2. Done(3, cut, lost) => Done(2, cut, lost) /\ cut # 3
  BY <1>1 DEF Done
<1>3. InsertRow(u, f) \/ rows' = rows
  BY DEF DealMd5, lists
<1>4. refs' = [refs EXCEPT ![Digest[f]] = @ + 1] \/ refs' = refs
  BY DEF DealMd5
<1>5. refs' # refs \/ rows' # rows => refs[Digest[f]] # NoRow
  BY DEF DealMd5, lists
<1>6. rows' # rows => refs' = [refs EXCEPT ![Digest[f]] = @ + 1]
  BY <1>2 DEF DealMd5, lists
<1>7. InsertRow(u, f) => rows' # rows
  BY RowMoves DEF Covered
<1>8. pics' = pics /\ short' = short
  BY DEF DealMd5, hist
<1> QED BY <1>3, <1>4, <1>5, <1>6, <1>7, <1>8, CountedFirst

LEMMA SaveFileCovers ==
  ASSUME Covered, NEW u \in Users, NEW f \in Files, NEW cut \in Nat, SaveFile(u, f, cut)
  PROVE  CountCoversReferences'
<1>1. Done(2, cut, 0) => Done(1, cut, 0)
  BY DEF Done
<1>2. InsertRow(u, f) \/ rows' = rows
  BY DEF SaveFile, lists
<1>3. refs' = [refs EXCEPT ![Digest[f]] = @ + 1] \/ refs' = refs
  BY DEF SaveFile
<1>4. refs' # refs \/ rows' # rows => refs[Digest[f]] # NoRow
  BY DEF SaveFile, lists
<1>5. rows' # rows => refs' = [refs EXCEPT ![Digest[f]] = @ + 1]
  BY <1>1 DEF SaveFile, lists
<1>6. InsertRow(u, f) => rows' # rows
  BY RowMoves DEF Covered
<1>7. pics' = pics /\ short' = short
  BY DEF SaveFile, hist
<1> QED BY <1>2, <1>3, <1>4, <1>5, <1>6, <1>7, CountedFirst

(* A delete lowers the count by one and removes the row of the user, or    *)
(* misses one reference if there is none.                                  *)
LEMMA DeleteFileCovers ==
  ASSUME Covered, NEW u \in Users, NEW f \in Files, NEW found, NEW cut \in Nat,
         NEW lost \in Losses({3, 4, 8}), DeleteFile(u, f, found, cut, lost)
  PROVE  CountCoversReferences'
<1> DEFINE o == <<u, f>>
           d == Digest[f]
           counted == refs[d] # NoRow /\ Done(7, cut, lost)
           last == counted /\ Decr(refs[d]) = 0
           missed == counted /\ refs[d] > 0 /\ ~Lists(u, f)
<1>1. StoredTypes /\ d \in Digests /\ o \in Owned /\ pics' = pics
  BY TypeParts, DigestOf, Pairs DEF Covered, DeleteFile
<1>2. rows[o] \in Nat /\ (~Lists(u, f) => rows[o] = 0) /\ (Lists(u, f) => rows[o] > 0)
  BY <1>1 DEF Lists, StoredTypes
<1>3. lost \in {0, 3, 4, 8}
  BY DEF Losses
<1>4. Done(8, cut, lost) \/ Done(7, cut, lost) => Done(6, cut, lost)
  BY <1>3 DEF Done
<1>5. /\ short[d] \in Nat /\ short'[d] = IF missed THEN short[d] + 1 ELSE short[d]
      /\ \A m \in Digests : m # d => short'[m] = short[m]
  <2>1. Missed(d, missed) /\ missed \in BOOLEAN
    BY DEF DeleteFile
  <2> QED BY <1>1, <2>1, MissedBy DEF Covered
<1>6. CASE Done(6, cut, lost)
  <2>1. rows' = [rows EXCEPT ![<<u, f>>] = 0]
    BY <1>6 DEF DeleteFile
  <2>2. /\ References(d)' = References(d) - rows[o] /\ rows[o] <= References(d)
        /\ \A m \in Digests : m # d => References(m)' = References(m)
    BY <1>1, <2>1, Removed
  <2>3. /\ References(d) \in Nat /\ Count(d) \in Nat
        /\ refs[d] = NoRow \/ (refs[d] \in Nat /\ refs[d] # NoRow)
        /\ Count(d) = IF refs[d] = NoRow THEN 0 ELSE refs[d]
        /\ References(d) <= Count(d) + short[d]
    BY <1>1, CountOf
  <2>4. \A m \in Digests : m # d => refs'[m] = refs[m]
    BY <1>1 DEF DeleteFile, StoredTypes
  <2>5. CASE counted
    <3>1. refs[d] \in Nat /\ refs[d] # NoRow /\ Count(d) = refs[d]
      BY <2>3, <2>5
    <3>2. Decr(refs[d]) \in Nat /\ Decr(refs[d]) # NoRow
      BY <3>1, DecrNat DEF NoRow
    <3>3. (refs'[d] = NoRow /\ Decr(refs[d]) = 0) \/ refs'[d] = Decr(refs[d])
      BY <1>1, <2>5 DEF DeleteFile, StoredTypes
    <3>4. Count(d)' = Decr(refs[d])
      BY <1>1, <3>2, <3>3, CountAfter
    <3>5. refs[d] > 0 => Decr(refs[d]) = refs[d] - 1
      BY DEF Decr
    <3>6. ~(refs[d] > 0) => Decr(refs[d]) = 0 /\ refs[d] = 0
      BY <3>1 DEF Decr
    <3> HIDE DEF o, d
    <3>7. References(d)' <= Count(d)' + short'[d]
      <4>1. CASE missed
        BY <1>2, <1>5, <2>2, <2>3, <3>1, <3>4, <3>5, <4>1
      <4>2. CASE ~missed /\ refs[d] > 0
        <5>1. rows[o] > 0
          BY <1>2, <2>5, <4>2
        <5> QED BY <1>2, <1>5, <2>2, <2>3, <3>1, <3>4, <3>5, <4>2, <5>1
      <4>3. CASE ~(refs[d] > 0)
        BY <1>2, <1>5, <2>2, <2>3, <3>1, <3>4, <3>6, <4>3
      <4> QED BY <4>1, <4>2, <4>3
    <3> QED BY <1>1, <1>5, <2>2, <2>4, <3>7, OneDigestChanges DEF Covered
  <2>6. CASE ~counted
    <3>1. refs' = refs
      BY <2>6 DEF DeleteFile
    <3>2. Count(d)' = Count(d)
      BY <3>1 DEF Count
    <3>3. References(d)' <= Count(d)' + short'[d]
      BY <1>2, <1>5, <2>2, <2>3, <2>6, <3>2
    <3> QED BY <1>1, <1>5, <2>2, <2>4, <3>3, OneDigestChanges DEF Covered
  <2> QED BY <2>5, <2>6
<1>7. CASE ~Done(6, cut, lost)
  <2>1. rows' = rows /\ refs' = refs /\ short' = short
    BY <1>4, <1>7 DEF DeleteFile, Missed
  <2> QED BY <1>1, <2>1, CoversKept DEF Covered
<1> QED BY <1>6, <1>7

(* A picture of a digest is shared, and counted or missed.                 *)
LEMMA SharePictureCovers ==
  ASSUME Covered, NEW u \in Users, NEW d \in Digests, NEW cut \in Nat,
         NEW lost \in Losses({3}), SharePicture(u, d, cut, lost)
  PROVE  CountCoversReferences'
<1> DEFINE p == <<u, d>>
           P == Users \X Digests
           raised == refs[d] # NoRow /\ Done(2, cut, lost)
           missed == Done(1, cut, lost) /\ ~raised
<1>1. StoredTypes /\ p \in P /\ rows' = rows
  BY TypeParts DEF Covered, SharePicture, lists
<1>2. Done(2, cut, lost) => Done(1, cut, lost)
  BY DEF Losses, Done
<1>3. /\ short[d] \in Nat /\ short'[d] = IF missed THEN short[d] + 1 ELSE short[d]
      /\ \A m \in Digests : m # d => short'[m] = short[m]
  <2>1. Missed(d, missed) /\ missed \in BOOLEAN
    BY DEF SharePicture
  <2> QED BY <2>1, MissedBy DEF Covered
<1>4. /\ References(d) \in Nat /\ Count(d) \in Nat
      /\ refs[d] = NoRow \/ (refs[d] \in Nat /\ refs[d] # NoRow)
      /\ Count(d) = IF refs[d] = NoRow THEN 0 ELSE refs[d]
      /\ References(d) <= Count(d) + short[d]
  BY CountOf
<1>5. /\ Count(d)' = IF raised THEN Count(d) + 1 ELSE Count(d)
      /\ \A m \in Digests : m # d => refs'[m] = refs[m]
  <2>1. CASE raised
    <3>1. refs'[d] = refs[d] + 1 /\ \A m \in Digests : m # d => refs'[m] = refs[m]
      BY <1>1, <2>1 DEF SharePicture, StoredTypes
    <3>2. refs[d] + 1 # NoRow
      BY <1>4, <2>1 DEF NoRow
    <3> QED BY <1>4, <2>1, <3>1, <3>2, CountAfter
  <2>2. CASE ~raised
    <3>1. refs' = refs
      BY <2>2 DEF SharePicture
    <3> QED BY <2>2, <3>1 DEF Count
  <2> QED BY <2>1, <2>2
<1>6. CASE Done(1, cut, lost)
  <2>1. /\ pics' \in [P -> Nat] /\ pics[p] \in Nat /\ pics'[p] = pics[p] + 1
        /\ \A k \in P : k # p => pics'[k] = pics[k]
    BY <1>1, <1>6 DEF SharePicture, StoredTypes
  <2>2. /\ References(d)' = References(d) - pics[p] + pics'[p]
        /\ \A m \in Digests : m # d => References(m)' = References(m)
    BY <1>1, <2>1, PicsChange
  <2>3. References(d)' = References(d) + 1
    BY <1>4, <2>1, <2>2
  <2>4. References(d)' <= Count(d)' + short'[d]
    <3> HIDE DEF raised
    <3> QED BY <1>3, <1>4, <1>5, <1>6, <2>3
  <2> QED BY <1>3, <1>5, <2>2, <2>4, OneDigestChanges DEF Covered
<1>7. CASE ~Done(1, cut, lost)
  <2>1. pics' = pics /\ refs' = refs /\ short' = short
    BY <1>2, <1>7 DEF SharePicture, Missed
  <2> QED BY <1>1, <2>1, CoversKept DEF Covered
<1> QED BY <1>6, <1>7

(* A picture is given up in the count first: it is missed if that is all.  *)
LEMMA CancelPictureCovers ==
  ASSUME Covered, NEW u \in Users, NEW d \in Digests, NEW cut \in Nat,
         NEW lost \in Losses({5}), CancelPicture(u, d, cut, lost)
  PROVE  CountCoversReferences'
<1> DEFINE p == <<u, d>>
           P == Users \X Digests
           missed == refs[d] > 0 /\ Done(1, cut, lost) /\ ~Done(2, cut, lost)
<1>1. StoredTypes /\ p \in P /\ rows' = rows
  BY TypeParts DEF Covered, CancelPicture, lists
<1>2. (Done(2, cut, lost) => Done(1, cut, lost)) /\ (Done(3, cut, lost) => Done(2, cut, lost))
  BY DEF Losses, Done
<1>3. pics[p] \in Nat /\ pics[p] > 0
  BY <1>1 DEF StoredTypes, CancelPicture
<1>4. /\ short[d] \in Nat /\ short'[d] = IF missed THEN short[d] + 1 ELSE short[d]
      /\ \A m \in Digests : m # d => short'[m] = short[m]
  <2>1. Missed(d, missed) /\ missed \in BOOLEAN
    BY DEF CancelPicture
  <2> QED BY <2>1, MissedBy DEF Covered
<1>5. CASE refs[d] = NoRow
  <2>1. ~(refs[d] > 0)
    BY <1>5 DEF NoRow
  <2>2. pics' = pics /\ refs' = refs /\ short' = short
    BY <1>5, <2>1 DEF CancelPicture, files, Missed
  <2> QED BY <1>1, <2>2, CoversKept DEF Covered
<1>6. CASE refs[d] # NoRow
  <2>1. /\ References(d) \in Nat /\ refs[d] \in Nat /\ Count(d) = refs[d]
        /\ References(d) <= refs[d] + short[d]
    BY <1>6, CountOf
  <2>2. Decr(refs[d]) \in Nat /\ Decr(refs[d]) # NoRow /\ refs[d] # NoRow
    BY <1>6, <2>1, DecrNat DEF NoRow
  <2>3. \A m \in Digests : m # d => refs'[m] = refs[m]
    BY <1>1, <1>6 DEF CancelPicture, StoredTypes
  <2>4. Count(d)' = IF Done(1, cut, lost) THEN Decr(refs[d]) ELSE refs[d]
    <3>1. CASE Done(3, cut, lost) /\ Decr(refs[d]) = 0
      <4>1. refs'[d] = NoRow
        BY <1>1, <1>6, <3>1 DEF CancelPicture, StoredTypes
      <4> QED BY <1>2, <3>1, <4>1, CountAfter
    <3>2. CASE ~(Done(3, cut, lost) /\ Decr(refs[d]) = 0)
      <4>1. refs'[d] = IF Done(1, cut, lost) THEN Decr(refs[d]) ELSE refs[d]
        BY <1>1, <1>6, <3>2 DEF CancelPicture, StoredTypes
      <4> QED BY <2>2, <4>1, CountAfter
    <3> QED BY <3>1, <3>2
  <2>5. /\ refs[d] > 0 => Decr(refs[d]) = refs[d] - 1
        /\ ~(refs[d] > 0) => Decr(refs[d]) = refs[d]
    BY <2>1 DEF Decr
  <2>6. /\ References(d)' = IF Done(2, cut, lost) THEN References(d) - 1 ELSE References(d)
        /\ \A m \in Digests : m # d => References(m)' = References(m)
    <3>1. CASE Done(2, cut, lost)
      <4>1. pics' \in [P -> Nat] /\ pics'[p] = pics[p] - 1 /\ \A k \in P : k # p => pics'[k] = pics[k]
        BY <1>1, <1>3, <1>6, <3>1 DEF CancelPicture, StoredTypes
      <4>2. /\ References(d)' = References(d) - pics[p] + pics'[p]
            /\ \A m \in Digests : m # d => References(m)' = References(m)
        BY <1>1, <4>1, PicsChange
      <4> HIDE DEF p, P
      <4> QED BY <1>3, <2>1, <3>1, <4>1, <4>2
    <3>2. CASE ~Done(2, cut, lost)
      <4>1. pics' = pics
        BY <1>6, <3>2 DEF CancelPicture
      <4> QED BY <1>1, <3>2, <4>1, NoneMoves
    <3> QED BY <3>1, <3>2
  <2>7. References(d)' <= Count(d)' + short'[d]
    <3> HIDE DEF p, P
    <3>1. CASE Done(2, cut, lost)
      BY <1>2, <1>4, <2>1, <2>2, <2>4, <2>5, <2>6, <3>1
    <3>2. CASE ~Done(2, cut, lost)
      BY <1>4, <2>1, <2>2, <2>4, <2>5, <2>6, <3>2
    <3> QED BY <3>1, <3>2
  <2> QED BY <1>4, <2>3, <2>6, <2>7, OneDigestChanges DEF Covered
<1> QED BY <1>5, <1>6

(* The steps that change no list, no picture and no count.                 *)
LEMMA OthersCover ==
  ASSUME Covered, NEW cut, NEW lost, NEW u, NEW f, NEW found, NEW added, NEW named,
         \/ UserDownload(u, f, cut) \/ ShareFile(u, f, found, cut, lost)
         \/ CancelShareFile(u, f, cut) \/ PublicDownload(u, f, found, cut, lost)
         \/ CountShared(cut) \/ Ranking(cut, lost, added, named)
         \/ CountOwn(u, cut) \/ CountPictures(u, cut)
         \/ ApiUserLogin(u) \/ Crash \/ Restart \/ UNCHANGED vars
  PROVE  CountCoversReferences'
<1>1. UNCHANGED <<refs, rows, pics, short>>
  BY DEF UserDownload, ShareFile, CancelShareFile, PublicDownload, CountShared, Ranking,
         CountOwn, CountPictures, ApiUserLogin, LoginCountsFiles, LoginSetsFiles,
         LoginCountsPics, LoginSetsPics, LoginStep, Crash, Restart, vars, files, lists, hist
<1> QED BY <1>1, CoversKept DEF Covered

LEMMA NextCovers ==
  ASSUME Covered, [Next]_vars
  PROVE  Covered'
<1> SUFFICES CountCoversReferences'
  BY NextTypes DEF Covered
<1> USE Numbered
<1>1. ASSUME ApiUpload PROVE CountCoversReferences'
  BY <1>1, UploadCovers DEF ApiUpload
<1>2. ASSUME ApiMd5 PROVE CountCoversReferences'
  BY <1>2, DealMd5Covers DEF ApiMd5
<1>3. ASSUME ApiMyfiles PROVE CountCoversReferences'
  BY <1>3, OthersCover DEF ApiMyfiles
<1>4. ASSUME ApiDealfile PROVE CountCoversReferences'
  <2>1. PICK u \in Users, f \in Files :
          \/ \E cut \in Cuts(2) : UserDownload(u, f, cut)
          \/ \E found \in ZsetExit(f) :
               \/ \E cut \in Cuts(6), lost \in Losses({1, 5, 6}) : ShareFile(u, f, found, cut, lost)
               \/ \E cut \in Cuts(9), lost \in Losses({3, 4, 8}) : DeleteFile(u, f, found, cut, lost)
    BY <1>4 DEF ApiDealfile
  <2> QED BY <2>1, OthersCover, DeleteFileCovers
<1>5. ASSUME ApiDealsharefile PROVE CountCoversReferences'
  BY <1>5, OthersCover, SaveFileCovers DEF ApiDealsharefile
<1>6. ASSUME ApiSharefiles PROVE CountCoversReferences'
  BY <1>6, OthersCover DEF ApiSharefiles
<1>7. ASSUME ApiSharepicture PROVE CountCoversReferences'
  BY <1>7, SharePictureCovers, CancelPictureCovers, OthersCover DEF ApiSharepicture
<1>8. ASSUME NEW u \in Users, ApiUserLogin(u) \/ Crash \/ Restart \/ UNCHANGED vars
      PROVE CountCoversReferences'
  BY <1>8, OthersCover
<1>9. ASSUME Crash \/ Restart \/ UNCHANGED vars PROVE CountCoversReferences'
  BY <1>9, OthersCover
<1> QED BY <1>1, <1>2, <1>3, <1>4, <1>5, <1>6, <1>7, <1>8, <1>9 DEF Next

LEMMA NoReferencesYet ==
  ASSUME Init
  PROVE  /\ \A m \in Digests : References(m) = 0
         /\ ShareRows = 0 /\ \A u \in Users : RowsOf(u) = 0 /\ PicsOf(u) = 0
<1>1. \A m \in Digests : FilesOf(m) \subseteq Owned
  BY OwnedFinite
<1>2. \A m \in Digests : Total(rows, FilesOf(m)) = 0
  BY <1>1, TotalOfNone DEF Init
<1>3. \A m \in Digests : Total(pics, Users \X {m}) = 0
  BY TotalOfNone DEF Init
<1>4. ShareRows = 0
  BY TotalOfNone DEF Init, ShareRows
<1>5. \A u \in Users : RowsOf(u) = 0 /\ PicsOf(u) = 0
  BY TotalOfNone DEF Init, RowsOf, PicsOf, Owned
<1> QED BY <1>2, <1>3, <1>4, <1>5 DEF References

(* Whatever statement fails, wherever the process dies and however late    *)
(* requests come, the count of file_info covers every row that refers to   *)
(* it, less one for every picture that was shared uncounted or given up in *)
(* the count alone and for every delete that found no row: instant upload  *)
(* and saving raise the count before they insert, and a delete removes the *)
(* row first.                                                              *)
THEOREM CountsCover == Spec => []CountCoversReferences
<1>1. Init => Covered
  <2>1. ASSUME Init PROVE CountCoversReferences
    <3>1. ASSUME NEW m \in Digests PROVE References(m) <= Count(m) + short[m]
      <4>1. References(m) = 0 /\ Count(m) = 0 /\ short[m] = 0
        BY <2>1, NoReferencesYet DEF Init, Count
      <4> QED BY <4>1
    <3> QED BY <3>1 DEF CountCoversReferences
  <2> QED BY <2>1, InitTypes DEF Covered
<1>2. Covered /\ [Next]_vars => Covered'
  BY NextCovers
<1>3. Covered => CountCoversReferences
  BY DEF Covered
<1> QED BY <1>1, <1>2, <1>3, PTL DEF Spec

-----------------------------------------------------------------------------
(* While nothing fails, the count of a digest that has missed no reference *)
(* is exact, nobody lists its files twice, and the counters of Redis do    *)
(* not exceed what they count.                                             *)
SingleShares == \A o \in Owned : shared[o] <= 1

ExactCounts ==
  \A m \in Digests : short[m] = 0 =>
    IF References(m) = 0 THEN refs[m] = NoRow ELSE refs[m] = References(m) /\ kept[m]

SingleRows  == \A o \in Owned : short[Digest[o[2]]] = 0 => rows[o] <= 1

OwnBounded  == \A u \in Users \ stale : own[u] <= RowsOf(u) /\ ownPics[u] <= PicsOf(u)

Accounts == SingleShares /\ ExactCounts /\ SingleRows /\ public <= ShareRows /\ OwnBounded

Accurate ==
  /\ TypeOK /\ IInv
  /\ faults = 0 => Accounts

(* A request in a run without failures has executed all its statements.    *)
LEMMA Flawless ==
  ASSUME Accurate, NEW last \in Nat, NEW cut \in Nat, NEW lost \in Nat,
         Request(last, cut, lost), faults' = 0
  PROVE  /\ faults = 0 /\ Accounts
         /\ \A i \in 1..last : Done(i, cut, lost)
         /\ cut = last + 1 /\ lost = 0
<1>1. faults = 0 /\ lost = 0 /\ cut = last + 1
  BY Undisturbed DEF Accurate, IInv
<1>2. \A i \in 1..last : Done(i, cut, lost)
  BY <1>1 DEF Done
<1> QED BY <1>1, <1>2 DEF Accurate

(* What the count of a digest says, and that it says nothing once it has   *)
(* missed a reference.                                                     *)
LEMMA ExactElsewhere ==
  ASSUME ExactCounts, NEW d \in Digests,
         \A m \in Digests : m # d => /\ References(m)' = References(m)
                                     /\ refs'[m] = refs[m] /\ kept'[m] = kept[m]
                                     /\ short'[m] = short[m],
         short'[d] = 0 /\ References(d)' = 0 => refs'[d] = NoRow,
         short'[d] = 0 /\ References(d)' # 0 => refs'[d] = References(d)' /\ kept'[d]
  PROVE  ExactCounts'
<1>1. ASSUME NEW m \in Digests, short'[m] = 0
      PROVE  (IF References(m) = 0 THEN refs[m] = NoRow ELSE refs[m] = References(m) /\ kept[m])'
  <2>1. CASE m = d
    BY <1>1, <2>1
  <2>2. CASE m # d
    BY <1>1, <2>2 DEF ExactCounts
  <2> QED BY <2>1, <2>2
<1> QED BY <1>1 DEF ExactCounts

(* Rows that do not multiply, and counts that only ever miss more.         *)
LEMMA SingleRowsKept ==
  ASSUME SingleRows, NEW u \in Users, NEW f \in Files,
         \A o \in Owned : o # <<u, f>> => rows'[o] <= rows[o],
         short'[Digest[f]] = 0 => rows'[<<u, f>>] <= 1,
         \A m \in Digests : short'[m] = 0 => short[m] = 0,
         rows \in [Owned -> Nat], rows' \in [Owned -> Nat]
  PROVE  SingleRows'
<1>1. ASSUME NEW o \in Owned, short'[Digest[o[2]]] = 0 PROVE rows'[o] <= 1
  <2>1. CASE o = <<u, f>>
    BY <1>1, <2>1
  <2>2. CASE o # <<u, f>>
    <3>1. Digest[o[2]] \in Digests
      BY DigestOf DEF Owned
    <3>2. rows[o] <= 1 /\ rows'[o] <= rows[o] /\ rows[o] \in Nat /\ rows'[o] \in Nat
      BY <1>1, <2>2, <3>1 DEF SingleRows
    <3> QED BY <3>2
  <2> QED BY <2>1, <2>2
<1> QED BY <1>1 DEF SingleRows

LEMMA SingleRowsStay ==
  ASSUME SingleRows, rows' = rows, \A m \in Digests : short'[m] = 0 => short[m] = 0
  PROVE  SingleRows'
<1>1. ASSUME NEW o \in Owned, short'[Digest[o[2]]] = 0 PROVE rows'[o] <= 1
  <2>1. Digest[o[2]] \in Digests
    BY DigestOf DEF Owned
  <2> QED BY <1>1, <2>1 DEF SingleRows
<1> QED BY <1>1 DEF SingleRows

LEMMA OwnElsewhere ==
  ASSUME OwnBounded, NEW u \in Users, stale \subseteq stale',
         \A v \in Users : v # u => /\ own'[v] = own[v] /\ ownPics'[v] = ownPics[v]
                                   /\ RowsOf(v)' = RowsOf(v) /\ PicsOf(v)' = PicsOf(v),
         u \notin stale' => own'[u] <= RowsOf(u)' /\ ownPics'[u] <= PicsOf(u)'
  PROVE  OwnBounded'
<1>1. ASSUME NEW v \in Users, v \notin stale'
      PROVE  own'[v] <= RowsOf(v)' /\ ownPics'[v] <= PicsOf(v)'
  <2>1. CASE v = u
    BY <1>1, <2>1
  <2>2. CASE v # u
    BY <1>1, <2>2 DEF OwnBounded
  <2> QED BY <2>1, <2>2
<1> QED BY <1>1 DEF OwnBounded

(* What is known of a digest and a user, in numbers.                       *)
LEMMA AccountOf ==
  ASSUME TypeOK, Accounts, NEW u \in Users, NEW d \in Digests
  PROVE  /\ References(d) \in Nat /\ short[d] \in Nat
         /\ short[d] = 0 /\ References(d) = 0 => refs[d] = NoRow
         /\ short[d] = 0 /\ References(d) # 0 => refs[d] = References(d) /\ refs[d] # NoRow /\ kept[d]
         /\ own[u] \in Nat /\ ownPics[u] \in Nat
         /\ RowsOf(u) \in Nat /\ PicsOf(u) \in Nat
         /\ u \notin stale => own[u] <= RowsOf(u) /\ ownPics[u] <= PicsOf(u)
<1>1. StoredTypes /\ CachedTypes /\ HistTypes
  BY TypeParts
<1>2. References(d) \in Nat /\ short[d] \in Nat
  BY <1>1, ReferencesNat DEF HistTypes
<1>3. /\ short[d] = 0 /\ References(d) = 0 => refs[d] = NoRow
      /\ short[d] = 0 /\ References(d) # 0 => refs[d] = References(d) /\ refs[d] # NoRow /\ kept[d]
  BY <1>2 DEF Accounts, ExactCounts, NoRow
<1>4. own[u] \in Nat /\ ownPics[u] \in Nat
  BY <1>1 DEF CachedTypes
<1>5. u \notin stale => own[u] <= RowsOf(u) /\ ownPics[u] <= PicsOf(u)
  BY DEF Accounts, OwnBounded
<1> QED BY <1>1, <1>2, <1>3, <1>4, <1>5, CountedRows

LEMMA RowCounted ==
  ASSUME StoredTypes, NEW u \in Users, NEW f \in Files
  PROVE  /\ rows[<<u, f>>] \in Nat /\ rows[<<u, f>>] <= References(Digest[f])
         /\ References(Digest[f]) \in Nat
<1>1. <<u, f>> \in Owned /\ Digest[f] \in Digests /\ <<u, f>> \in FilesOf(Digest[f])
  BY Pairs, DigestOf DEF FilesOf
<1>2. rows[<<u, f>>] \in Nat /\ \A k \in FilesOf(Digest[f]) : rows[k] \in Nat
  BY <1>1, OwnedFinite DEF StoredTypes
<1>3. rows[<<u, f>>] <= Total(rows, FilesOf(Digest[f]))
  BY <1>1, <1>2, OwnedFinite, TotalAtLeast
<1> QED BY <1>1, <1>2, <1>3, ReferencesNat DEF References

(* A user gets a row for a file; if the count of its digest is exact, the  *)
(* user had none and the count is raised.  The user's counter moves by at  *)
(* most as much.                                                           *)
LEMMA ReferenceAdded ==
  ASSUME Accurate, Accounts, NEW u \in Users, NEW f \in Files,
         InsertRow(u, f),
         UNCHANGED <<shared, pics, public, ownPics, stale, short>>,
         short[Digest[f]] = 0 => /\ rows[<<u, f>>] = 0
                                 /\ refs'[Digest[f]] = References(Digest[f]) + 1 /\ kept'[Digest[f]],
         \A m \in Digests : m # Digest[f] => refs'[m] = refs[m] /\ kept'[m] = kept[m],
         own' = [own EXCEPT ![u] = @ + 1] \/ own' = own
  PROVE  Accounts'
<1> DEFINE d == Digest[f]
<1>1. StoredTypes /\ CachedTypes /\ d \in Digests /\ <<u, f>> \in Owned
  BY TypeParts, DigestOf, Pairs DEF Accurate
<1>2. /\ References(d)' = References(d) + 1
      /\ \A m \in Digests : m # d => References(m)' = References(m)
      /\ RowsOf(u)' = RowsOf(u) + 1
      /\ \A v \in Users : v # u => RowsOf(v)' = RowsOf(v)
      /\ rows'[<<u, f>>] = rows[<<u, f>>] + 1
      /\ \A o \in Owned : o # <<u, f>> => rows'[o] = rows[o]
  BY <1>1, Inserted
<1>3. SingleRows'
  <2>1. rows \in [Owned -> Nat] /\ rows' \in [Owned -> Nat]
    BY <1>1 DEF StoredTypes, InsertRow
  <2>2. \A o \in Owned : o # <<u, f>> => rows'[o] <= rows[o]
    BY <1>2, <2>1
  <2>3. short'[d] = 0 => rows'[<<u, f>>] <= 1
    BY <1>2
  <2> QED BY <2>1, <2>2, <2>3, SingleRowsKept DEF Accounts
<1>4. References(d) \in Nat
  BY <1>1, ReferencesNat
<1>5. ExactCounts'
  BY <1>1, <1>2, <1>4, ExactElsewhere DEF Accounts
<1>6. SingleShares' /\ (public <= ShareRows)'
  BY DEF Accounts, ShareRows, SingleShares
<1>7. OwnBounded'
  <2>1. \A v \in Users : PicsOf(v)' = PicsOf(v)
    BY DEF PicsOf
  <2>2. own'[u] \in {own[u], own[u] + 1} /\ \A v \in Users : v # u => own'[v] = own[v]
    BY <1>1 DEF CachedTypes
  <2>3. /\ own[u] \in Nat /\ RowsOf(u) \in Nat
        /\ u \notin stale => own[u] <= RowsOf(u) /\ ownPics[u] <= PicsOf(u)
    BY <1>1, AccountOf DEF Accurate
  <2>4. u \notin stale' => own'[u] <= RowsOf(u)' /\ ownPics'[u] <= PicsOf(u)'
    BY <1>2, <2>1, <2>2, <2>3
  <2> QED BY <1>2, <2>1, <2>2, <2>4, OwnElsewhere DEF Accounts
<1> QED BY <1>3, <1>5, <1>6, <1>7 DEF Accounts

(* Instant upload and saving: one more user of contents that are kept.     *)
LEMMA CountedAgain ==
  ASSUME Accurate, Accounts, NEW u \in Users, NEW f \in Files,
         refs[Digest[f]] # NoRow, ~Lists(u, f), InsertRow(u, f),
         refs' = [refs EXCEPT ![Digest[f]] = @ + 1], own' = [own EXCEPT ![u] = @ + 1],
         UNCHANGED <<kept, shared, pics, public, ownPics, stale, short>>
  PROVE  Accounts'
<1> DEFINE d == Digest[f]
<1>1. StoredTypes /\ d \in Digests
  BY TypeParts, DigestOf DEF Accurate
<1>2. short[d] = 0 => refs[d] = References(d) /\ kept[d]
  BY <1>1, AccountOf DEF Accurate
<1>3. rows[<<u, f>>] = 0
  BY <1>1, RowCounted DEF Lists
<1>4. refs'[d] = refs[d] + 1 /\ \A m \in Digests : m # d => refs'[m] = refs[m]
  BY <1>1 DEF StoredTypes
<1>5. short[d] = 0 => refs'[d] = References(d) + 1 /\ kept'[d]
  BY <1>2, <1>4
<1> QED BY <1>3, <1>4, <1>5, ReferenceAdded

(* Steps that change nothing that is counted and no counter.               *)
LEMMA AccountsKept ==
  ASSUME Accounts,
         UNCHANGED <<refs, kept, rows, shared, pics, public, own, ownPics, stale, short>>
  PROVE  Accounts'
<1>1. SingleRows' /\ SingleShares'
  BY DEF Accounts, SingleRows, SingleShares
<1>2. ExactCounts'
  BY NoneMoves DEF Accounts, ExactCounts
<1>3. (public <= ShareRows)'
  BY DEF Accounts, ShareRows
<1>4. OwnBounded'
  BY NoneMoves DEF Accounts, OwnBounded
<1> QED BY <1>1, <1>2, <1>3, <1>4 DEF Accounts

LEMMA UploadAccounts ==
  ASSUME Accurate, NEW u \in Users, NEW f \in Files, NEW cut \in Nat, Upload(u, f, cut), faults' = 0
  PROVE  Accounts'
<1> DEFINE d == Digest[f]
<1>1. Request(2, cut, 0)
  BY DEF Upload
<1>2. Accounts /\ Done(1, cut, 0) /\ Done(2, cut, 0)
  BY <1>1, Flawless
<1>3. StoredTypes /\ d \in Digests
  BY TypeParts, DigestOf DEF Accurate
<1>4. UNCHANGED <<shared, pics, public, own, ownPics, stale, short>>
  BY DEF Upload, shares, redis, counts, hist
<1>5. CASE refs[d] = NoRow
  <2>1. short[d] = 0 => References(d) = 0 /\ rows[<<u, f>>] = 0
    BY <1>2, <1>3, <1>5, AccountOf, RowCounted DEF Accurate
  <2>2. refs' = [refs EXCEPT ![d] = 1] /\ kept' = [kept EXCEPT ![d] = TRUE] /\ InsertRow(u, f)
    BY <1>2, <1>5 DEF Upload, StoreFileinfo
  <2>3. refs'[d] = 1 /\ \A m \in Digests : m # d => refs'[m] = refs[m]
    BY <1>3, <2>2 DEF StoredTypes
  <2>4. kept'[d] = TRUE /\ \A m \in Digests : m # d => kept'[m] = kept[m]
    BY <1>3, <2>2 DEF StoredTypes
  <2>5. short[d] = 0 => refs'[d] = References(d) + 1 /\ kept'[d]
    BY <2>1, <2>3, <2>4
  <2> QED BY <1>2, <1>4, <2>1, <2>2, <2>3, <2>4, <2>5, ReferenceAdded
<1>6. CASE refs[d] # NoRow
  <2>1. UNCHANGED <<refs, kept, rows>>
    BY <1>6 DEF Upload, StoreFileinfo, lists
  <2> QED BY <1>2, <1>4, <2>1, AccountsKept
<1> QED BY <1>5, <1>6

LEMMA DealMd5Accounts ==
  ASSUME Accurate, NEW u \in Users, NEW f \in Files, NEW cut \in Nat, NEW lost \in Nat,
         DealMd5(u, f, cut, lost), faults' = 0
  PROVE  Accounts'
<1> DEFINE d == Digest[f]
<1>1. Request(4, cut, lost)
  BY DEF DealMd5
<1>2. /\ Accounts /\ cut = 5 /\ lost = 0
      /\ Done(2, cut, lost) /\ Done(3, cut, lost) /\ Done(4, cut, lost)
  BY <1>1, Flawless
<1>3. UNCHANGED <<kept, shared, pics, public, ownPics, stale, short>>
  BY DEF DealMd5, shares, redis, hist
<1>4. CASE refs[d] # NoRow /\ ~Lists(u, f)
  <2>1. /\ refs' = [refs EXCEPT ![d] = @ + 1] /\ InsertRow(u, f)
        /\ own' = [own EXCEPT ![u] = @ + 1]
    BY <1>2, <1>4 DEF DealMd5
  <2> QED BY <1>2, <1>3, <1>4, <2>1, CountedAgain
<1>5. CASE ~(refs[d] # NoRow /\ ~Lists(u, f))
  <2>1. UNCHANGED <<refs, rows, own>>
    BY <1>2, <1>5 DEF DealMd5, lists
  <2> QED BY <1>2, <1>3, <2>1, AccountsKept
<1> QED BY <1>4, <1>5

LEMMA SaveFileAccounts ==
  ASSUME Accurate, NEW u \in Users, NEW f \in Files, NEW cut \in Nat,
         SaveFile(u, f, cut), faults' = 0
  PROVE  Accounts'
<1> DEFINE d == Digest[f]
<1>1. Request(3, cut, 0)
  BY DEF SaveFile
<1>2. Accounts /\ Done(1, cut, 0) /\ Done(2, cut, 0) /\ Done(3, cut, 0)
  BY <1>1, Flawless
<1>3. UNCHANGED <<kept, shared, pics, public, ownPics, stale, short>>
  BY DEF SaveFile, shares, redis, hist
<1>4. CASE refs[d] # NoRow /\ ~Lists(u, f)
  <2>1. /\ refs' = [refs EXCEPT ![d] = @ + 1] /\ InsertRow(u, f)
        /\ own' = [own EXCEPT ![u] = @ + 1]
    BY <1>2, <1>4 DEF SaveFile
  <2> QED BY <1>2, <1>3, <1>4, <2>1, CountedAgain
<1>5. CASE ~(refs[d] # NoRow /\ ~Lists(u, f))
  <2>1. UNCHANGED <<refs, rows, own>>
    BY <1>5 DEF SaveFile, lists
  <2> QED BY <1>2, <1>3, <2>1, AccountsKept
<1> QED BY <1>4, <1>5

(* One shared row less, and the public counter lowered.                    *)
LEMMA Unshared ==
  ASSUME StoredTypes, CachedTypes, NEW u \in Users, NEW f \in Files,
         SingleShares, public <= ShareRows,
         shared' = [shared EXCEPT ![<<u, f>>] = 0], public' = Decr(public)
  PROVE  SingleShares' /\ public' <= ShareRows'
<1> DEFINE o == <<u, f>>
<1>1. o \in Owned /\ shared[o] \in Nat /\ public \in Nat /\ ShareRows \in Nat
  BY Pairs, CountedRows DEF StoredTypes, CachedTypes
<1>2. /\ shared' \in [Owned -> Nat] /\ shared'[o] = 0
      /\ \A k \in Owned : k # o => shared'[k] = shared[k]
  BY <1>1, SharedUpdate DEF StoredTypes
<1>3. ShareRows' = ShareRows - shared[o] + shared'[o] /\ shared[o] <= ShareRows
  BY <1>2, SharesChange
<1>4. shared[o] <= 1
  BY <1>1 DEF SingleShares
<1>5. public' <= ShareRows'
  BY <1>1, <1>2, <1>3, <1>4 DEF Decr
<1>6. \A k \in Owned : shared'[k] <= 1
  BY <1>2 DEF SingleShares
<1> QED BY <1>5, <1>6 DEF SingleShares

(* A delete takes away the rows of the user for the file, and one from the *)
(* count and from the counter.  A count it lowers for nothing has missed a *)
(* reference, and a counter it lowers by one for two rows is stale.        *)
LEMMA DeleteFileAccounts ==
  ASSUME Accurate, NEW u \in Users, NEW f \in Files, NEW found, NEW cut \in Nat, NEW lost \in Nat,
         DeleteFile(u, f, found, cut, lost), faults' = 0
  PROVE  Accounts'
<1> DEFINE o == <<u, f>>
           d == Digest[f]
           isShared == found \/ (Lists(u, f) /\ status[o])
<1>1. Request(9, cut, lost)
  BY DEF DeleteFile
<1>2. Accounts /\ \A i \in 1..9 : Done(i, cut, lost)
  BY <1>1, Flawless
<1>3. StoredTypes /\ CachedTypes /\ HistTypes /\ d \in Digests /\ o \in Owned
  BY TypeParts, DigestOf, Pairs DEF Accurate
<1>4. /\ UNCHANGED <<pics, ownPics>> /\ rows' = [rows EXCEPT ![<<u, f>>] = 0]
      /\ stale' = IF rows[<<u, f>>] > 1 THEN stale \cup {u} ELSE stale
  BY <1>2 DEF DeleteFile
<1>5. /\ rows[o] \in Nat /\ References(d) \in Nat /\ RowsOf(u) \in Nat
      /\ References(d)' = References(d) - rows[o]
      /\ \A m \in Digests : m # d => References(m)' = References(m)
      /\ RowsOf(u)' = RowsOf(u) - rows[o]
      /\ \A v \in Users : v # u => RowsOf(v)' = RowsOf(v)
      /\ rows[o] <= RowsOf(u) /\ rows[o] <= References(d)
      /\ rows'[o] = 0
      /\ \A k \in Owned : k # o => rows'[k] = rows[k]
  BY <1>3, <1>4, Removed, RowCounted, CountedRows
<1>6. /\ short[d] = 0 /\ References(d) = 0 => refs[d] = NoRow
      /\ short[d] = 0 /\ References(d) # 0 => refs[d] = References(d) /\ refs[d] # NoRow /\ kept[d]
      /\ own[u] \in Nat
      /\ u \notin stale => own[u] <= RowsOf(u) /\ ownPics[u] <= PicsOf(u)
  BY <1>2, <1>3, AccountOf DEF Accurate
<1>7. /\ \/ short' = [short EXCEPT ![d] = @ + 1]
         \/ short' = short /\ ~(refs[d] > 0 /\ ~Lists(u, f))
      /\ short \in [Digests -> Nat]
  <2>1. refs[d] # NoRow /\ refs[d] > 0 <=> refs[d] > 0
    BY <1>3 DEF StoredTypes, NoRow
  <2> QED BY <1>2, <1>3, <2>1 DEF DeleteFile, Missed, HistTypes
<1>8. /\ short'[d] = 0 => /\ short[d] = 0
                          /\ rows[o] = 1 \/ (rows[o] = 0 /\ ~(refs[d] > 0))
      /\ \A m \in Digests : short'[m] = 0 => short[m] = 0
      /\ \A m \in Digests : m # d => short'[m] = short[m]
  <2>1. short[d] = 0 => rows[o] <= 1
    BY <1>2, <1>3 DEF Accounts, SingleRows
  <2>2. CASE short' = [short EXCEPT ![d] = @ + 1]
    <3>1. short'[d] = short[d] + 1 /\ \A m \in Digests : m # d => short'[m] = short[m]
      BY <1>3, <1>7, <2>2
    <3>2. short[d] \in Nat
      BY <1>3, <1>7
    <3>3. short'[d] # 0
      BY <3>1, <3>2
    <3>4. \A m \in Digests : short'[m] = 0 => short[m] = 0
      BY <3>1, <3>3
    <3> QED BY <3>1, <3>3, <3>4
  <2>3. CASE short' = short /\ ~(refs[d] > 0 /\ ~Lists(u, f))
    <3>1. rows[o] = 0 => ~Lists(u, f)
      BY DEF Lists
    <3> QED BY <1>5, <2>1, <2>3, <3>1
  <2> QED BY <1>7, <2>2, <2>3
<1>9. \/ shared' = shared /\ public' = public
      \/ shared' = [shared EXCEPT ![<<u, f>>] = 0] /\ public' = Decr(public)
  BY <1>2 DEF DeleteFile
<1>10. SingleShares' /\ (public <= ShareRows)'
  <2>1. CASE shared' = shared /\ public' = public
    BY <1>2, <2>1 DEF Accounts, ShareRows, SingleShares
  <2>2. CASE shared' = [shared EXCEPT ![<<u, f>>] = 0] /\ public' = Decr(public)
    BY <1>2, <1>3, <2>2, Unshared DEF Accounts
  <2> QED BY <1>9, <2>1, <2>2
<1>11. SingleRows'
  <2>1. rows \in [Owned -> Nat] /\ rows' \in [Owned -> Nat]
    BY <1>3, <1>4 DEF StoredTypes
  <2>2. \A k \in Owned : k # o => rows'[k] <= rows[k]
    BY <1>5, <2>1
  <2>3. rows'[o] <= 1
    BY <1>5
  <2> QED BY <1>2, <1>8, <2>1, <2>2, <2>3, SingleRowsKept DEF Accounts
<1>12. ExactCounts'
  <2>1. \A m \in Digests : m # d => refs'[m] = refs[m] /\ kept'[m] = kept[m]
    BY <1>3 DEF DeleteFile, StoredTypes
  <2>2. ASSUME short'[d] = 0, rows[o] = 1
        PROVE  /\ References(d)' = 0 => refs'[d] = NoRow
               /\ References(d)' # 0 => refs'[d] = References(d)' /\ kept'[d]
    <3>1. /\ short[d] = 0 /\ refs[d] = References(d) /\ refs[d] # NoRow /\ kept[d]
          /\ References(d) >= 1 /\ References(d)' = References(d) - 1
      BY <1>5, <1>6, <1>8, <2>2
    <3>2. Decr(refs[d]) = References(d)'
      BY <1>5, <3>1 DEF Decr
    <3>3. /\ refs' = IF References(d)' = 0 THEN [refs EXCEPT ![d] = NoRow]
                     ELSE [refs EXCEPT ![d] = References(d)']
          /\ kept' = IF References(d)' = 0 THEN [kept EXCEPT ![d] = FALSE] ELSE kept
      BY <1>2, <3>1, <3>2 DEF DeleteFile
    <3>4. /\ References(d)' = 0 => refs'[d] = NoRow
          /\ References(d)' # 0 => refs'[d] = References(d)'
      BY <1>3, <3>3 DEF StoredTypes
    <3>5. References(d)' # 0 => kept'[d]
      BY <3>1, <3>3
    <3> QED BY <3>4, <3>5
  <2>3. ASSUME short'[d] = 0, rows[o] = 0, ~(refs[d] > 0)
        PROVE  /\ References(d)' = 0 => refs'[d] = NoRow
               /\ References(d)' # 0 => refs'[d] = References(d)' /\ kept'[d]
    <3>1. short[d] = 0 /\ References(d)' = References(d)
      BY <1>5, <1>8, <2>3
    <3>2. References(d) = 0 /\ refs[d] = NoRow
      BY <1>5, <1>6, <2>3, <3>1
    <3>3. refs' = refs
      BY <3>2 DEF DeleteFile
    <3> QED BY <3>1, <3>2, <3>3
  <2>4. short'[d] = 0 => /\ References(d)' = 0 => refs'[d] = NoRow
                         /\ References(d)' # 0 => refs'[d] = References(d)' /\ kept'[d]
    BY <1>8, <2>2, <2>3
  <2> QED BY <1>2, <1>3, <1>5, <1>8, <2>1, <2>4, ExactElsewhere DEF Accounts
<1>13. OwnBounded'
  <2>1. \A v \in Users : PicsOf(v)' = PicsOf(v)
    BY <1>4 DEF PicsOf
  <2>2. own'[u] = Decr(own[u]) /\ \A v \in Users : v # u => own'[v] = own[v]
    BY <1>2, <1>3 DEF DeleteFile, CachedTypes
  <2>3. stale \subseteq stale' /\ (u \notin stale' => u \notin stale /\ ~(rows[o] > 1))
    BY <1>4
  <2>4. u \notin stale' => own'[u] <= RowsOf(u)' /\ ownPics'[u] <= PicsOf(u)'
    <3>1. ASSUME u \notin stale' PROVE Decr(own[u]) <= RowsOf(u)'
      <4>1. rows[o] \in {0, 1} /\ own[u] <= RowsOf(u)
        BY <1>5, <1>6, <2>3, <3>1
      <4> HIDE DEF o
      <4> QED BY <1>5, <1>6, <4>1 DEF Decr
    <3> QED BY <1>4, <1>6, <2>1, <2>2, <2>3, <3>1
  <2> QED BY <1>2, <1>4, <1>5, <2>1, <2>2, <2>3, <2>4, OwnElsewhere DEF Accounts
<1> QED BY <1>10, <1>11, <1>12, <1>13 DEF Accounts

-----------------------------------------------------------------------------
(* Sharing.                                                                *)
LEMMA SharesKeepAccounts ==
  ASSUME Accounts, UNCHANGED <<refs, kept, rows, pics, own, ownPics, stale, short>>,
         SingleShares', public' <= ShareRows'
  PROVE  Accounts'
<1>1. SingleRows'
  BY DEF Accounts, SingleRows
<1>2. ExactCounts'
  BY NoneMoves DEF Accounts, ExactCounts
<1>3. OwnBounded'
  BY NoneMoves DEF Accounts, OwnBounded
<1> QED BY <1>1, <1>2, <1>3 DEF Accounts

LEMMA ShareFileAccounts ==
  ASSUME Accurate, NEW u \in Users, NEW f \in Files, NEW found, NEW cut \in Nat, NEW lost \in Nat,
         ShareFile(u, f, found, cut, lost), faults' = 0
  PROVE  Accounts'
<1> DEFINE o == <<u, f>>
           fresh == ~found /\ ~SharedInMysql(f, lost)
<1>1. Request(6, cut, lost)
  BY DEF ShareFile
<1>2. Accounts /\ lost = 0 /\ \A i \in 1..6 : Done(i, cut, lost)
  BY <1>1, Flawless
<1>3. StoredTypes /\ CachedTypes /\ o \in Owned
  BY TypeParts, Pairs DEF Accurate
<1>4. UNCHANGED <<refs, kept, rows, pics, own, ownPics, stale, short>>
  BY DEF ShareFile, files, counts
<1>5. CASE fresh
  <2>1. shared[o] = 0
    BY <1>2, <1>3, <1>5 DEF SharedInMysql, Sharers, StoredTypes
  <2>2. shared' = [shared EXCEPT ![<<u, f>>] = @ + 1] /\ public' = public + 1
    BY <1>2, <1>5 DEF ShareFile
  <2>3. /\ shared' \in [Owned -> Nat] /\ shared'[o] = 1
        /\ \A k \in Owned : k # o => shared'[k] = shared[k]
    BY <1>3, <2>1, <2>2, SharedUpdate DEF StoredTypes
  <2>4. ShareRows' = ShareRows - shared[o] + shared'[o]
    BY <1>3, <2>3, SharesChange
  <2>5. public' <= ShareRows'
    BY <1>2, <1>3, <2>1, <2>2, <2>3, <2>4, CountedRows DEF Accounts, CachedTypes
  <2>6. SingleShares'
    BY <1>2, <2>3 DEF Accounts, SingleShares
  <2> QED BY <1>2, <1>4, <2>5, <2>6, SharesKeepAccounts
<1>6. CASE ~fresh
  <2>1. UNCHANGED <<shared, public>>
    BY <1>6 DEF ShareFile
  <2> QED BY <1>2, <1>4, <2>1, AccountsKept
<1> QED BY <1>5, <1>6

LEMMA CancelShareFileAccounts ==
  ASSUME Accurate, NEW u \in Users, NEW f \in Files, NEW cut \in Nat,
         CancelShareFile(u, f, cut), faults' = 0
  PROVE  Accounts'
<1>1. Request(5, cut, 0)
  BY DEF CancelShareFile
<1>2. Accounts /\ \A i \in 1..5 : Done(i, cut, 0)
  BY <1>1, Flawless
<1>3. StoredTypes /\ CachedTypes
  BY TypeParts DEF Accurate
<1>4. UNCHANGED <<refs, kept, rows, pics, own, ownPics, stale, short>>
  BY DEF CancelShareFile, files, counts
<1>5. shared' = [shared EXCEPT ![<<u, f>>] = 0] /\ public' = Decr(public)
  BY <1>2 DEF CancelShareFile
<1>6. SingleShares' /\ public' <= ShareRows'
  BY <1>2, <1>3, <1>5, Unshared DEF Accounts
<1> QED BY <1>2, <1>4, <1>6, SharesKeepAccounts

(* Loading the number of shared files again, on demand or at the start.    *)
LEMMA PublicAccounts ==
  ASSUME Accounts, TypeOK,
         UNCHANGED <<refs, kept, rows, pics, shared, own, ownPics, stale, short>>,
         public' \in {public, ShareRows}
  PROVE  Accounts'
<1>1. ShareRows' = ShareRows
  BY DEF ShareRows
<1>2. public' <= ShareRows'
  BY <1>1, CountedRows, TypeParts DEF Accounts
<1>3. SingleShares'
  BY DEF Accounts, SingleShares
<1> QED BY <1>2, <1>3, SharesKeepAccounts

LEMMA CountSharedAccounts ==
  ASSUME Accurate, NEW cut \in Nat, CountShared(cut), faults' = 0
  PROVE  Accounts'
<1>1. Accounts
  BY Flawless DEF CountShared
<1>2. UNCHANGED <<refs, kept, rows, pics, shared, own, ownPics, stale, short>>
  BY DEF CountShared, files, lists, shares, counts, hist
<1>3. public' \in {public, ShareRows}
  BY DEF CountShared, PublicTotal
<1> QED BY <1>1, <1>2, <1>3, PublicAccounts DEF Accurate

LEMMA RankingAccounts ==
  ASSUME Accurate, NEW cut \in Nat, NEW lost \in Nat, NEW added, NEW named,
         Ranking(cut, lost, added, named), faults' = 0
  PROVE  Accounts'
<1>1. Request(4, cut, lost)
  BY DEF Ranking
<1>2. Accounts
  BY <1>1, Flawless
<1>3. UNCHANGED <<refs, kept, rows, pics, shared, own, ownPics, stale, short>>
  BY DEF Ranking, files, lists, shares, counts, hist
<1>4. public' \in {public, ShareRows}
  BY DEF Ranking, PublicTotal
<1> QED BY <1>2, <1>3, <1>4, PublicAccounts DEF Accurate

LEMMA RestartAccounts ==
  ASSUME Accurate, Restart, faults' = 0
  PROVE  Accounts'
<1>1. faults = 0 /\ UNCHANGED <<refs, kept, rows, pics, shared, own, ownPics, stale, short>>
  BY DEF Restart, files, lists, shares, counts, hist
<1>2. public' \in {public, ShareRows}
  BY DEF Restart
<1> QED BY <1>1, <1>2, PublicAccounts DEF Accurate

LEMMA DownloadAccounts ==
  ASSUME Accurate, NEW u, NEW f, NEW found, NEW cut \in Nat, NEW lost \in Nat,
         UserDownload(u, f, cut) \/ PublicDownload(u, f, found, cut, lost), faults' = 0
  PROVE  Accounts'
<1>1. Request(2, cut, 0) \/ Request(3, cut, lost)
  BY DEF UserDownload, PublicDownload
<1>2. Accounts
  BY <1>1, Flawless
<1>3. UNCHANGED <<refs, kept, rows, shared, pics, public, own, ownPics, stale, short>>
  BY DEF UserDownload, PublicDownload, files, lists, redis, counts, hist
<1> QED BY <1>2, <1>3, AccountsKept

-----------------------------------------------------------------------------
(* The counters of a user.                                                 *)
LEMMA OwnKeepsAccounts ==
  ASSUME Accounts, UNCHANGED <<refs, kept, rows, pics, shared, public, short>>, OwnBounded'
  PROVE  Accounts'
<1>1. SingleRows' /\ SingleShares'
  BY DEF Accounts, SingleRows, SingleShares
<1>2. ExactCounts'
  BY NoneMoves DEF Accounts, ExactCounts
<1>3. (public <= ShareRows)'
  BY DEF Accounts, ShareRows
<1> QED BY <1>1, <1>2, <1>3 DEF Accounts

LEMMA CountOwnAccounts ==
  ASSUME Accurate, NEW u \in Users, NEW cut \in Nat, CountOwn(u, cut) \/ CountPictures(u, cut),
         faults' = 0
  PROVE  Accounts'
<1>1. Request(1, cut, 0)
  BY DEF CountOwn, CountPictures
<1>2. Accounts
  BY <1>1, Flawless
<1>3. CachedTypes /\ RowsOf(u) \in Nat /\ PicsOf(u) \in Nat
  BY TypeParts, CountedRows DEF Accurate
<1>4. UNCHANGED <<refs, kept, rows, pics, shared, public, stale, short>>
  BY DEF CountOwn, CountPictures, files, lists, shares, redis, hist
<1>5. /\ own'[u] \in {own[u], RowsOf(u)} /\ ownPics'[u] \in {ownPics[u], PicsOf(u)}
      /\ \A v \in Users : v # u => own'[v] = own[v] /\ ownPics'[v] = ownPics[v]
  BY <1>3 DEF CountOwn, CountPictures, CachedTypes
<1>6. \A v \in Users : RowsOf(v)' = RowsOf(v) /\ PicsOf(v)' = PicsOf(v)
  BY <1>4, NoneMoves
<1>7. u \notin stale' => own'[u] <= RowsOf(u)' /\ ownPics'[u] <= PicsOf(u)'
  BY <1>2, <1>3, <1>4, <1>5, <1>6 DEF Accounts, OwnBounded
<1>8. OwnBounded'
  BY <1>2, <1>4, <1>5, <1>6, <1>7, OwnElsewhere DEF Accounts
<1> QED BY <1>2, <1>4, <1>8, OwnKeepsAccounts

LEMMA LoginAccounts ==
  ASSUME Accurate, NEW u \in Users, ApiUserLogin(u), faults' = 0
  PROVE  Accounts'
<1>1. PICK at, next : LoginStep(u, at, next)
  BY DEF ApiUserLogin, LoginCountsFiles, LoginSetsFiles, LoginCountsPics, LoginSetsPics
<1>2. /\ faults = 0
      /\ UNCHANGED <<refs, kept, rows, pics, shared, public, short>>
  BY <1>1 DEF LoginStep, files, lists, shares, redis
<1>3. Accounts /\ StoredTypes /\ CachedTypes /\ WorldTypes
  BY <1>2, TypeParts DEF Accurate
<1>4. login[u].n \in Nat /\ RowsOf(u) \in Nat /\ PicsOf(u) \in Nat
  BY <1>3, CountedRows DEF WorldTypes, LoginType
<1>5. \A v \in Users : RowsOf(v)' = RowsOf(v) /\ PicsOf(v)' = PicsOf(v)
  BY <1>2, NoneMoves
<1>6. CASE LoginSetsFiles(u)
  <2>1. ownPics' = ownPics /\ own'[u] = login[u].n /\ \A v \in Users : v # u => own'[v] = own[v]
    BY <1>3, <1>6 DEF LoginSetsFiles, CachedTypes
  <2>2. stale \subseteq stale' /\ (u \notin stale' => login[u].n <= RowsOf(u))
    BY <1>4, <1>6 DEF LoginSetsFiles
  <2>3. u \notin stale' => own'[u] <= RowsOf(u)' /\ ownPics'[u] <= PicsOf(u)'
    BY <1>3, <1>5, <2>1, <2>2 DEF Accounts, OwnBounded
  <2>4. OwnBounded'
    BY <1>3, <1>5, <2>1, <2>2, <2>3, OwnElsewhere DEF Accounts
  <2> QED BY <1>2, <1>3, <2>4, OwnKeepsAccounts
<1>7. CASE LoginSetsPics(u)
  <2>1. own' = own /\ ownPics'[u] = login[u].n /\ \A v \in Users : v # u => ownPics'[v] = ownPics[v]
    BY <1>3, <1>7 DEF LoginSetsPics, CachedTypes
  <2>2. stale \subseteq stale' /\ (u \notin stale' => login[u].n <= PicsOf(u))
    BY <1>4, <1>7 DEF LoginSetsPics
  <2>3. u \notin stale' => own'[u] <= RowsOf(u)' /\ ownPics'[u] <= PicsOf(u)'
    BY <1>3, <1>5, <2>1, <2>2 DEF Accounts, OwnBounded
  <2>4. OwnBounded'
    BY <1>3, <1>5, <2>1, <2>2, <2>3, OwnElsewhere DEF Accounts
  <2> QED BY <1>2, <1>3, <2>4, OwnKeepsAccounts
<1>8. CASE LoginCountsFiles(u) \/ LoginCountsPics(u)
  <2>1. UNCHANGED <<own, ownPics, stale>>
    BY <1>8 DEF LoginCountsFiles, LoginCountsPics, counts
  <2> QED BY <1>2, <1>3, <2>1, AccountsKept
<1> QED BY <1>6, <1>7, <1>8 DEF ApiUserLogin

-----------------------------------------------------------------------------
(* Pictures.                                                               *)
LEMMA PictureAccounts ==
  ASSUME Accurate, Accounts, NEW u \in Users, NEW d \in Digests,
         pics' \in [Users \X Digests -> Nat],
         \A k \in Users \X Digests : k # <<u, d>> => pics'[k] = pics[k],
         UNCHANGED <<rows, shared, public, own, stale>>,
         \A m \in Digests : m # d => refs'[m] = refs[m] /\ kept'[m] = kept[m] /\ short'[m] = short[m],
         short'[d] = 0 => short[d] = 0,
         short'[d] = 0 /\ References(d)' = 0 => refs'[d] = NoRow,
         short'[d] = 0 /\ References(d)' # 0 => refs'[d] = References(d)' /\ kept'[d],
         \A v \in Users : v # u => ownPics'[v] = ownPics[v],
         u \notin stale => ownPics'[u] <= PicsOf(u)'
  PROVE  Accounts'
<1>1. StoredTypes
  BY TypeParts DEF Accurate
<1>2. /\ \A m \in Digests : m # d => References(m)' = References(m)
      /\ \A v \in Users : v # u => PicsOf(v)' = PicsOf(v)
  BY <1>1, PicsChange
<1>3. \A v \in Users : RowsOf(v)' = RowsOf(v)
  BY DEF RowsOf
<1>4. SingleRows' /\ SingleShares'
  <2>1. \A m \in Digests : short'[m] = 0 => short[m] = 0
    OBVIOUS
  <2> QED BY <2>1, SingleRowsStay DEF Accounts, SingleShares
<1>5. ExactCounts'
  BY <1>2, ExactElsewhere DEF Accounts
<1>6. (public <= ShareRows)'
  BY DEF Accounts, ShareRows
<1>7. u \notin stale' => own'[u] <= RowsOf(u)' /\ ownPics'[u] <= PicsOf(u)'
  BY <1>3 DEF Accounts, OwnBounded
<1>8. OwnBounded'
  BY <1>2, <1>3, <1>7, OwnElsewhere DEF Accounts
<1> QED BY <1>4, <1>5, <1>6, <1>8 DEF Accounts

(* A picture of a digest that has a row is counted; the row of another is  *)
(* a reference that the count of the digest has missed.                    *)
LEMMA SharePictureAccounts ==
  ASSUME Accurate, NEW u \in Users, NEW d \in Digests, NEW cut \in Nat, NEW lost \in Nat,
         SharePicture(u, d, cut, lost), faults' = 0
  PROVE  Accounts'
<1> DEFINE p == <<u, d>>
           P == Users \X Digests
<1>1. Request(3, cut, lost)
  BY DEF SharePicture
<1>2. Accounts /\ \A i \in 1..3 : Done(i, cut, lost)
  BY <1>1, Flawless
<1>3. StoredTypes /\ CachedTypes /\ HistTypes /\ p \in P
  BY TypeParts DEF Accurate
<1>4. UNCHANGED <<kept, rows, shared, public, own, stale>>
  BY DEF SharePicture, lists, shares, redis
<1>5. /\ short[d] = 0 /\ References(d) = 0 => refs[d] = NoRow
      /\ short[d] = 0 /\ References(d) # 0 => refs[d] = References(d) /\ refs[d] # NoRow /\ kept[d]
      /\ References(d) \in Nat /\ short[d] \in Nat
      /\ ownPics[u] \in Nat /\ PicsOf(u) \in Nat
      /\ u \notin stale => ownPics[u] <= PicsOf(u)
  BY <1>2, <1>3, AccountOf DEF Accurate
<1>6. /\ pics' \in [P -> Nat] /\ pics'[p] = pics[p] + 1 /\ pics[p] \in Nat
      /\ \A k \in P : k # p => pics'[k] = pics[k]
  BY <1>2, <1>3 DEF SharePicture, StoredTypes
<1>7. /\ References(d)' = References(d) - pics[p] + pics'[p]
      /\ PicsOf(u)' = PicsOf(u) - pics[p] + pics'[p]
  BY <1>3, <1>4, <1>6, PicsChange
<1>8. References(d)' = References(d) + 1 /\ PicsOf(u)' = PicsOf(u) + 1
  <2> HIDE DEF p
  <2> QED BY <1>5, <1>6, <1>7
<1>9. CASE refs[d] # NoRow
  <2>1. refs' = [refs EXCEPT ![d] = @ + 1] /\ ownPics' = [ownPics EXCEPT ![u] = @ + 1] /\ short' = short
    BY <1>2, <1>9 DEF SharePicture, Missed
  <2>2. refs'[d] = refs[d] + 1 /\ \A m \in Digests : m # d => refs'[m] = refs[m]
    BY <1>3, <2>1 DEF StoredTypes
  <2>3. ownPics'[u] = ownPics[u] + 1 /\ \A v \in Users : v # u => ownPics'[v] = ownPics[v]
    BY <1>3, <2>1 DEF CachedTypes
  <2>4. short[d] = 0 => References(d)' # 0 /\ refs'[d] = References(d)' /\ kept'[d]
    BY <1>4, <1>5, <1>8, <1>9, <2>2
  <2>5. u \notin stale => ownPics'[u] <= PicsOf(u)'
    BY <1>5, <1>8, <2>3
  <2> QED BY <1>2, <1>4, <1>6, <2>1, <2>2, <2>3, <2>4, <2>5, PictureAccounts
<1>10. CASE refs[d] = NoRow
  <2>1. refs' = refs /\ ownPics' = ownPics /\ short' = [short EXCEPT ![d] = @ + 1]
    BY <1>2, <1>10 DEF SharePicture, Missed
  <2>2. short'[d] # 0 /\ \A m \in Digests : m # d => short'[m] = short[m]
    BY <1>3, <1>5, <2>1 DEF HistTypes
  <2>3. u \notin stale => ownPics'[u] <= PicsOf(u)'
    BY <1>5, <1>8, <2>1
  <2> QED BY <1>2, <1>4, <1>6, <2>1, <2>2, <2>3, PictureAccounts
<1> QED BY <1>9, <1>10

LEMMA CancelPictureAccounts ==
  ASSUME Accurate, NEW u \in Users, NEW d \in Digests, NEW cut \in Nat, NEW lost \in Nat,
         CancelPicture(u, d, cut, lost), faults' = 0
  PROVE  Accounts'
<1> DEFINE p == <<u, d>>
           P == Users \X Digests
<1>1. Request(5, cut, lost)
  BY DEF CancelPicture
<1>2. Accounts /\ \A i \in 1..5 : Done(i, cut, lost)
  BY <1>1, Flawless
<1>3. StoredTypes /\ CachedTypes /\ p \in P
  BY TypeParts DEF Accurate
<1>4. UNCHANGED <<rows, shared, public, own, stale, short>>
  BY <1>2 DEF CancelPicture, lists, shares, redis, Missed
<1>5. CASE refs[d] = NoRow
  <2>1. UNCHANGED <<refs, kept, pics, ownPics>>
    BY <1>5 DEF CancelPicture, files
  <2> QED BY <1>2, <1>4, <2>1, AccountsKept
<1>6. ASSUME refs[d] # NoRow PROVE Accounts'
  <2>1. pics[p] \in Nat /\ pics[p] > 0
    BY <1>3 DEF StoredTypes, CancelPicture
  <2>2. /\ pics' \in [P -> Nat] /\ pics'[p] = pics[p] - 1
        /\ \A k \in P : k # p => pics'[k] = pics[k]
    BY <1>2, <1>3, <1>6, <2>1 DEF CancelPicture, StoredTypes
  <2>3. /\ References(d)' = References(d) - pics[p] + pics'[p]
        /\ PicsOf(u)' = PicsOf(u) - pics[p] + pics'[p]
        /\ pics[p] <= PicsOf(u) /\ pics[p] <= References(d)
    BY <1>3, <1>4, <2>2, PicsChange
  <2>4. /\ References(d) \in Nat /\ PicsOf(u) \in Nat /\ ownPics[u] \in Nat
        /\ short[d] = 0 /\ References(d) # 0 => refs[d] = References(d) /\ refs[d] # NoRow /\ kept[d]
        /\ u \notin stale => ownPics[u] <= PicsOf(u)
    BY <1>2, <1>3, AccountOf DEF Accurate
  <2>5. /\ References(d)' = References(d) - 1 /\ References(d) > 0
        /\ PicsOf(u)' = PicsOf(u) - 1 /\ PicsOf(u) > 0
    <3> HIDE DEF p
    <3> QED BY <2>1, <2>2, <2>3, <2>4
  <2>6. ownPics'[u] = Decr(ownPics[u]) /\ \A v \in Users : v # u => ownPics'[v] = ownPics[v]
    BY <1>2, <1>3, <1>6 DEF CancelPicture, CachedTypes
  <2>7. u \notin stale => ownPics'[u] <= PicsOf(u)'
    BY <2>4, <2>5, <2>6 DEF Decr
  <2>8. \A m \in Digests : m # d => refs'[m] = refs[m] /\ kept'[m] = kept[m]
    BY <1>2, <1>3, <1>6 DEF CancelPicture, StoredTypes
  <2>9. ASSUME short[d] = 0
        PROVE  /\ References(d)' = 0 => refs'[d] = NoRow
               /\ References(d)' # 0 => refs'[d] = References(d)' /\ kept'[d]
    <3>1. refs[d] = References(d) /\ kept[d] /\ Decr(refs[d]) = References(d)'
      BY <2>4, <2>5, <2>9 DEF Decr
    <3>2. /\ refs' = IF References(d)' = 0 THEN [refs EXCEPT ![d] = NoRow]
                     ELSE [refs EXCEPT ![d] = References(d)']
          /\ kept' = IF References(d)' = 0 THEN [kept EXCEPT ![d] = FALSE] ELSE kept
      BY <1>2, <1>6, <3>1 DEF CancelPicture
    <3>3. /\ References(d)' = 0 => refs'[d] = NoRow
          /\ References(d)' # 0 => refs'[d] = References(d)'
      BY <1>3, <3>2 DEF StoredTypes
    <3>4. References(d)' # 0 => kept'[d]
      BY <3>1, <3>2
    <3> QED BY <3>3, <3>4
  <2> QED BY <1>2, <1>4, <2>2, <2>6, <2>7, <2>8, <2>9, PictureAccounts
<1> QED BY <1>5, <1>6

-----------------------------------------------------------------------------
LEMMA NextAccounts ==
  ASSUME Accurate, [Next]_vars
  PROVE  Accurate'
<1> SUFFICES ASSUME faults' = 0 PROVE Accounts'
  BY NextTypes, NextKeeps DEF Accurate
<1> USE Numbered
<1>1. ASSUME ApiUpload PROVE Accounts'
  BY <1>1, UploadAccounts DEF ApiUpload
<1>2. ASSUME ApiMd5 PROVE Accounts'
  BY <1>2, DealMd5Accounts DEF ApiMd5, Losses
<1>3. ASSUME ApiMyfiles PROVE Accounts'
  BY <1>3, CountOwnAccounts DEF ApiMyfiles
<1>4. ASSUME ApiDealfile PROVE Accounts'
  <2>1. PICK u \in Users, f \in Files :
          \/ \E cut \in Cuts(2) : UserDownload(u, f, cut)
          \/ \E found \in ZsetExit(f) :
               \/ \E cut \in Cuts(6), lost \in Losses({1, 5, 6}) : ShareFile(u, f, found, cut, lost)
               \/ \E cut \in Cuts(9), lost \in Losses({3, 4, 8}) : DeleteFile(u, f, found, cut, lost)
    BY <1>4 DEF ApiDealfile
  <2>2. Losses({1, 5, 6}) \subseteq Nat /\ Losses({3, 4, 8}) \subseteq Nat /\ 0 \in Nat
    BY DEF Losses
  <2> QED BY <2>1, <2>2, DownloadAccounts, ShareFileAccounts, DeleteFileAccounts
<1>5. ASSUME ApiDealsharefile PROVE Accounts'
  <2>1. Losses({2, 3}) \subseteq Nat
    BY DEF Losses
  <2> QED BY <1>5, <2>1, CancelShareFileAccounts, SaveFileAccounts, DownloadAccounts DEF ApiDealsharefile
<1>6. ASSUME ApiSharefiles PROVE Accounts'
  <2>1. Losses({2, 3, 4}) \subseteq Nat
    BY DEF Losses
  <2> QED BY <1>6, <2>1, CountSharedAccounts, RankingAccounts DEF ApiSharefiles
<1>7. ASSUME ApiSharepicture PROVE Accounts'
  <2>1. Losses({3}) \subseteq Nat /\ Losses({5}) \subseteq Nat
    BY DEF Losses
  <2> QED BY <1>7, <2>1, SharePictureAccounts, CancelPictureAccounts, CountOwnAccounts DEF ApiSharepicture
<1>8. ASSUME NEW u \in Users, ApiUserLogin(u) PROVE Accounts'
  BY <1>8, LoginAccounts
<1>9. ASSUME Restart PROVE Accounts'
  BY <1>9, RestartAccounts
<1>10. ASSUME Crash PROVE FALSE
  BY <1>10 DEF Crash, Accurate, IInv, Types
<1>11. ASSUME UNCHANGED vars PROVE Accounts'
  <2>1. faults = 0 /\ UNCHANGED <<refs, kept, rows, shared, pics, public, own, ownPics, stale, short>>
    BY <1>11 DEF vars, files, lists, shares, redis, counts, hist
  <2> QED BY <2>1, AccountsKept DEF Accurate
<1> QED BY <1>1, <1>2, <1>3, <1>4, <1>5, <1>6, <1>7, <1>8, <1>9, <1>10, <1>11 DEF Next

LEMMA AccurateAlways == Spec => []Accurate
<1>1. ASSUME Init PROVE Accounts
  <2>1. SingleRows /\ SingleShares
    BY <1>1 DEF Init, SingleRows, SingleShares
  <2>2. ExactCounts
    BY <1>1, NoReferencesYet DEF Init, ExactCounts
  <2>3. public <= ShareRows
    BY <1>1, NoReferencesYet DEF Init
  <2>4. OwnBounded
    BY <1>1, NoReferencesYet DEF Init, OwnBounded
  <2> QED BY <2>1, <2>2, <2>3, <2>4 DEF Accounts
<1>2. Init => Accurate
  BY <1>1, InitTypes, InitIInv DEF Init, Accurate
<1>3. Accurate /\ [Next]_vars => Accurate'
  BY NextAccounts
<1> QED BY <1>2, <1>3, PTL DEF Spec

(* While nothing fails, whatever is asked for and however late, file_info  *)
(* has a row for exactly the digests in use, its count is the number of    *)
(* rows that refer to it, and the contents are kept, for every digest no   *)
(* reference of which was missed: the handlers of seven URLs raise and     *)
(* lower the count alike, in every order of requests.                      *)
THEOREM CountsExact == Spec => []ExactWithoutFaults
<1>1. Accurate => ExactWithoutFaults
  BY DEF Accurate, Accounts, ExactCounts, ExactWithoutFaults
<1> QED BY <1>1, AccurateAlways, PTL

(* While nothing fails the counters in Redis never exceed the numbers of   *)
(* rows, except for a user whose login counted rows that were deleted      *)
(* before it wrote the number, or who had two rows for a file it deleted.  *)
THEOREM CountersBounded == Spec => []NeverOvercounted
<1>1. Accurate => NeverOvercounted
  BY DEF Accurate, Accounts, OwnBounded, NeverOvercounted
<1> QED BY <1>1, AccurateAlways, PTL
=============================================================================
