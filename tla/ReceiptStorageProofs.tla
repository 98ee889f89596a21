------------------------ MODULE ReceiptStorageProofs ------------------------
(***************************************************************************)
(* Theorems about ReceiptStorage, for every set of receipts, old keys,      *)
(* requests, configurations and faults and any number of restarts: what a   *)
(* file request serves and misses, what a DELETE leaves behind, and that    *)
(* either adapter is the put, get and delete that InvoicesService assumes.  *)
(***************************************************************************)
EXTENDS ReceiptStorage, TLAPS

\* The row of r exists, or some request has found it.
Created(r) == r \in rows \/ \E q \in Requests : reqInv[q] = r

\* A request works on a receipt, and takes the steps of its kind.
RequestsFollowKind ==
  \A q \in Requests :
    /\ reqPc[q] # "idle" => reqInv[q] \in Receipts
    /\ reqPc[q] \in {"open", "read", "served"} => q \in Readers /\ ValidKey(reqInv[q])
    /\ reqPc[q] \in {"removeJob", "deleteFile", "deleteRow"} => q \in Deleters
    /\ q \in Deleters => reqPc[q] # "error"

\* Nothing runs in a process that did not start.
DownIsIdle ==
  driver = "down" =>
    /\ \A r \in Receipts : upload[r] \notin UploadRunning
    /\ \A q \in Requests : reqPc[q] \notin ReqRunning

OldKeysHaveNoFile ==
  \A r \in Legacy : upload[r] = "accepted" /\ \A d \in Adapters : file[d][r] = "none"

\* A file belongs to an upload; while the upload runs, it is in the adapter in use.
FilesOfUploads ==
  \A r \in Receipts, d \in Adapters :
    file[d][r] # "none" =>
      /\ upload[r] \notin {"idle", "rejected", "rolledBack"}
      /\ upload[r] \in UploadRunning => d = driver

\* writeFile opens its file before it writes.
WritesGoToFiles == \A r \in Receipts : upload[r] = "write" => file[driver][r] # "none"

PartsOfUploads ==
  \A r \in Receipts, d \in Adapters :
    file[d][r] = "part" => upload[r] \in {"write", "leaked", "cut"}

\* The row comes after the whole file: nobody finds a receipt whose file is part.
RowsAfterFiles ==
  \A r \in Receipts :
    Created(r) =>
      /\ upload[r] \notin {"idle", "write", "create", "rejected"}
      /\ \A d \in Adapters : file[d][r] # "part"
      /\ upload[r] \in {"rollback", "rolledBack"} => "lostReply" \in Faults

OpenFilesAreWhole == \A q \in Requests : reqPc[q] \in {"read", "served"} => body[q] = "whole"

\* A DELETE that is at the row has been to the store.
FileGoesBeforeRow ==
  \A q \in Requests :
    reqPc[q] = "deleteRow" /\ ValidKey(reqInv[q]) =>
      driver \in erasedIn[reqInv[q]] /\ file[driver][reqInv[q]] = "none"

HomeHolds ==
  \A r \in Receipts, d \in Adapters :
    home[r] = d /\ file[d][r] = "none" => d \in erasedIn[r] \/ upload[r] = "rolledBack"

\* Before the first restart one adapter has all the files.
OneStore ==
  restarts = 0 => \A r \in Receipts, d \in Adapters : file[d][r] # "none" => d = driver

StorageInv ==
  /\ StorageTypeOK
  /\ RequestsFollowKind /\ DownIsIdle /\ OldKeysHaveNoFile
  /\ FilesOfUploads /\ WritesGoToFiles /\ PartsOfUploads /\ RowsAfterFiles
  /\ OpenFilesAreWhole
  /\ FileGoesBeforeRow /\ HomeHolds /\ OneStore
  /\ LeftoversAreExplained

-----------------------------------------------------------------------------
(* The initial state and the types. *)

LEMMA DriverOfType ==
  ASSUME NEW s \in Settings
  PROVE  DriverOf(s) \in Adapters \cup {"down"}
BY SettingAssumption DEF DriverOf, Adapters

LEMMA InitStorageInv == Init => StorageInv
<1> SUFFICES ASSUME Init PROVE StorageInv
  OBVIOUS
<1>1. StorageTypeOK
  BY DriverOfType, ReceiptAssumption
     DEF Init, StorageTypeOK, Contents, UploadRunning, ReqRunning
<1>2. /\ RowsAfterFiles /\ OldKeysHaveNoFile /\ FilesOfUploads /\ PartsOfUploads
      /\ WritesGoToFiles
  BY ReceiptAssumption
     DEF Init, RowsAfterFiles, Created, OldKeysHaveNoFile, FilesOfUploads, PartsOfUploads,
         WritesGoToFiles
<1>3. RequestsFollowKind /\ DownIsIdle /\ OpenFilesAreWhole /\ FileGoesBeforeRow
  BY DEF Init, RequestsFollowKind, DownIsIdle, OpenFilesAreWhole, FileGoesBeforeRow,
         UploadRunning, ReqRunning
<1>4. HomeHolds /\ OneStore /\ LeftoversAreExplained
  BY DEF Init, HomeHolds, OneStore, LeftoversAreExplained, Adapters
<1> QED
  BY <1>1, <1>2, <1>3, <1>4 DEF StorageInv

\* The file of r in the adapter in use is set to c, and no other file changes.
LEMMA HoldSets ==
  ASSUME StorageTypeOK, driver \in Adapters, NEW r \in Receipts, NEW c \in Contents, Hold(r, c)
  PROVE  /\ file' \in [Adapters -> [Receipts -> Contents]]
         /\ \A d \in Adapters, s \in Receipts :
              file'[d][s] = IF d = driver /\ s = r THEN c ELSE file[d][s]
BY DEF StorageTypeOK, Hold

LEMMA NextStorageTypeOK ==
  ASSUME StorageTypeOK, RequestsFollowKind, DownIsIdle, [Next]_vars
  PROVE  StorageTypeOK'
<1> USE DEF StorageTypeOK, RequestsFollowKind, DownIsIdle, UploadRunning, ReqRunning, Contents,
            Adapters, UploadTo, GoTo, storeVars, reqVars
<1>1. ASSUME NEW r \in Receipts, PutOpen(r) \/ PutWrite(r) \/ PutObject(r) \/ Rollback(r)
      PROVE  StorageTypeOK'
  BY <1>1, HoldSets DEF PutOpen, PutWrite, PutObject, Rollback
<1>2. ASSUME NEW r \in Receipts, CreateRow(r) \/ AddJob(r)
      PROVE  StorageTypeOK'
  BY <1>2 DEF CreateRow, AddJob
<1>3. ASSUME NEW q \in Requests, NEW r \in Receipts, FileFind(q, r) \/ DeleteFind(q, r)
      PROVE  StorageTypeOK'
  BY <1>3 DEF FileFind, DeleteFind, Find
<1>4. ASSUME NEW q \in Requests, FileOpen(q)
      PROVE  StorageTypeOK'
  <2>1. driver \in Adapters /\ reqInv[q] \in Receipts
    BY <1>4 DEF FileOpen
  <2> QED
    BY <1>4, <2>1 DEF FileOpen
<1>5. ASSUME NEW q \in Requests, FileRead(q) \/ RemoveJob(q) \/ DeleteRow(q)
      PROVE  StorageTypeOK'
  BY <1>5 DEF FileRead, RemoveJob, DeleteRow
<1>6. ASSUME NEW q \in Requests, DeleteFile(q)
      PROVE  StorageTypeOK'
  <2>1. driver \in Adapters /\ reqInv[q] \in Receipts
    BY <1>6 DEF DeleteFile
  <2> QED
    BY <1>6, <2>1, HoldSets DEF DeleteFile, Erased
<1>7. ASSUME NEW s \in Settings, Restart(s)
      PROVE  StorageTypeOK'
  BY <1>7, DriverOfType DEF Restart
<1>8. CASE UNCHANGED vars
  BY <1>8 DEF vars
<1> QED
  BY <1>1, <1>2, <1>3, <1>4, <1>5, <1>6, <1>7, <1>8 DEF Next

-----------------------------------------------------------------------------
(* The parts of the invariant, one after the other. *)

LEMMA NextRequestsFollowKind ==
  ASSUME StorageTypeOK, RequestsFollowKind, [Next]_vars
  PROVE  RequestsFollowKind'
<1> USE RequestAssumption
    DEF StorageTypeOK, RequestsFollowKind, GoTo, reqVars, IsMissing, MissingCode
<1>1. ASSUME NEW r \in Receipts,
             \/ PutOpen(r) \/ PutWrite(r) \/ PutObject(r) \/ CreateRow(r) \/ Rollback(r)
             \/ AddJob(r)
      PROVE  RequestsFollowKind'
  BY <1>1 DEF PutOpen, PutWrite, PutObject, CreateRow, Rollback, AddJob
<1>2. ASSUME NEW q \in Requests, NEW r \in Receipts, FileFind(q, r) \/ DeleteFind(q, r)
      PROVE  RequestsFollowKind'
  BY <1>2 DEF FileFind, DeleteFind, Find
<1>3. ASSUME NEW q \in Requests, FileOpen(q) \/ FileRead(q)
      PROVE  RequestsFollowKind'
  BY <1>3 DEF FileOpen, FileRead
<1>4. ASSUME NEW q \in Requests, RemoveJob(q) \/ DeleteRow(q)
      PROVE  RequestsFollowKind'
  BY <1>4 DEF RemoveJob, DeleteRow
<1>5. ASSUME NEW q \in Requests, DeleteFile(q)
      PROVE  RequestsFollowKind'
  BY <1>5 DEF DeleteFile
<1>6. ASSUME NEW s \in Settings, Restart(s)
      PROVE  RequestsFollowKind'
  BY <1>6 DEF Restart, ReqRunning
<1>7. CASE UNCHANGED vars
  BY <1>7 DEF vars
<1> QED
  BY <1>1, <1>2, <1>3, <1>4, <1>5, <1>6, <1>7 DEF Next

LEMMA NextDownIsIdle ==
  ASSUME StorageTypeOK, DownIsIdle, [Next]_vars
  PROVE  DownIsIdle'
<1> USE DEF StorageTypeOK, DownIsIdle, GoTo, UploadTo, reqVars, UploadRunning, ReqRunning
<1>1. ASSUME NEW r \in Receipts,
             \/ PutOpen(r) \/ PutWrite(r) \/ PutObject(r) \/ CreateRow(r) \/ Rollback(r)
             \/ AddJob(r)
      PROVE  DownIsIdle'
  BY <1>1 DEF PutOpen, PutWrite, PutObject, CreateRow, Rollback, AddJob
<1>2. ASSUME NEW q \in Requests, NEW r \in Receipts, FileFind(q, r) \/ DeleteFind(q, r)
      PROVE  DownIsIdle'
  BY <1>2 DEF FileFind, DeleteFind, Find
<1>3. ASSUME NEW q \in Requests,
             FileOpen(q) \/ FileRead(q) \/ RemoveJob(q) \/ DeleteFile(q) \/ DeleteRow(q)
      PROVE  DownIsIdle'
  BY <1>3 DEF FileOpen, FileRead, RemoveJob, DeleteFile, DeleteRow
<1>4. ASSUME NEW s \in Settings, Restart(s)
      PROVE  DownIsIdle'
  BY <1>4 DEF Restart
<1>5. CASE UNCHANGED vars
  BY <1>5 DEF vars
<1> QED
  BY <1>1, <1>2, <1>3, <1>4, <1>5 DEF Next

-----------------------------------------------------------------------------
(* What a step does to one file, one upload, one row. *)

LEMMA FileSteps ==
  ASSUME StorageInv, [Next]_vars, NEW d \in Adapters, NEW t \in Receipts,
         file'[d][t] # file[d][t]
  PROVE  \/ d = driver /\ PutOpen(t) /\ file'[d][t] = "part"
         \/ d = driver /\ (PutWrite(t) \/ PutObject(t)) /\ file'[d][t] = "whole"
         \/ d = driver /\ Rollback(t) /\ file'[d][t] = "none"
         \/ /\ d = driver /\ file'[d][t] = "none" /\ ValidKey(t) /\ driver \in erasedIn'[t]
            /\ \E q \in Requests : DeleteFile(q) /\ reqInv[q] = t
         \/ (\E s \in Settings : Restart(s)) /\ file'[d][t] = "none"
<1> USE DEF StorageInv, StorageTypeOK, DownIsIdle, UploadRunning, ReqRunning, Contents
<1>1. ASSUME NEW r \in Receipts, PutOpen(r) \/ PutWrite(r) \/ PutObject(r) \/ Rollback(r)
      PROVE  r = t /\ d = driver /\ (~Rollback(r) \/ file'[d][t] = "none")
  BY <1>1 DEF PutOpen, PutWrite, PutObject, Rollback, Hold, UploadTo
<1>2. ASSUME NEW r \in Receipts, PutOpen(r) \/ PutWrite(r) \/ PutObject(r) \/ Rollback(r)
      PROVE  \/ PutOpen(r) /\ file'[d][t] = "part"
             \/ (PutWrite(r) \/ PutObject(r)) /\ file'[d][t] = "whole"
             \/ Rollback(r) /\ file'[d][t] = "none"
  BY <1>1, <1>2 DEF PutOpen, PutWrite, PutObject, Rollback, Hold
<1>3. ASSUME NEW q \in Requests, DeleteFile(q)
      PROVE  /\ d = driver /\ file'[d][t] = "none" /\ ValidKey(t)
             /\ reqInv[q] = t /\ driver \in erasedIn'[t]
  <2>1. reqInv[q] \in Receipts /\ driver \in Adapters
    BY <1>3 DEF DeleteFile, RequestsFollowKind
  <2> QED
    BY <1>3, <2>1 DEF DeleteFile, Hold, Erased
<1>4. ASSUME NEW s \in Settings, Restart(s)
      PROVE  file'[d][t] = "none"
  BY <1>4 DEF Restart
<1>5. ~UNCHANGED file
  OBVIOUS
<1> QED
  BY <1>1, <1>2, <1>3, <1>4, <1>5
     DEF Next, CreateRow, AddJob, FileFind, DeleteFind, Find, FileOpen, FileRead, RemoveJob,
         DeleteRow, vars, storeVars

LEMMA UploadSteps ==
  ASSUME StorageInv, [Next]_vars, NEW t \in Receipts, upload'[t] # upload[t]
  PROVE  \/ PutOpen(t) \/ PutWrite(t) \/ PutObject(t) \/ CreateRow(t) \/ Rollback(t)
         \/ AddJob(t)
         \/ /\ \E s \in Settings : Restart(s)
            /\ upload[t] \in UploadRunning /\ upload'[t] = "cut"
<1> USE DEF StorageInv, StorageTypeOK
<1>1. ASSUME NEW r \in Receipts,
             \/ PutOpen(r) \/ PutWrite(r) \/ PutObject(r) \/ CreateRow(r) \/ Rollback(r)
             \/ AddJob(r)
      PROVE  r = t
  BY <1>1 DEF PutOpen, PutWrite, PutObject, CreateRow, Rollback, AddJob, UploadTo
<1>2. ASSUME NEW s \in Settings, Restart(s)
      PROVE  upload[t] \in UploadRunning /\ upload'[t] = "cut"
  BY <1>2 DEF Restart
<1>3. ~UNCHANGED upload
  OBVIOUS
<1> QED
  BY <1>1, <1>2, <1>3 DEF Next, FileFind, DeleteFind, Find, FileOpen, FileRead, RemoveJob,
                          DeleteFile, DeleteRow, vars

\* A row is created by its upload, and only a row that is there is found.
LEMMA CreatedSteps ==
  ASSUME StorageInv, [Next]_vars, NEW t \in Receipts, ~Created(t), Created(t)'
  PROVE  CreateRow(t) /\ t \in rows'
<1> USE DEF StorageInv, StorageTypeOK, Created, reqVars, storeVars
<1>1. ASSUME NEW r \in Receipts, CreateRow(r)
      PROVE  r = t /\ t \in rows'
  BY <1>1 DEF CreateRow
<1>2. ASSUME NEW q \in Requests, NEW r \in Receipts, FileFind(q, r) \/ DeleteFind(q, r)
      PROVE  FALSE
  BY <1>2 DEF FileFind, DeleteFind, Find
<1>3. ASSUME NEW r \in Receipts,
             PutOpen(r) \/ PutWrite(r) \/ PutObject(r) \/ Rollback(r) \/ AddJob(r)
      PROVE  FALSE
  BY <1>3 DEF PutOpen, PutWrite, PutObject, Rollback, AddJob
<1>4. ASSUME NEW q \in Requests,
             FileOpen(q) \/ FileRead(q) \/ RemoveJob(q) \/ DeleteFile(q) \/ DeleteRow(q)
      PROVE  FALSE
  BY <1>4 DEF FileOpen, FileRead, RemoveJob, DeleteFile, DeleteRow
<1>5. ASSUME NEW s \in Settings, Restart(s)
      PROVE  FALSE
  BY <1>5 DEF Restart
<1> QED
  BY <1>1, <1>2, <1>3, <1>4, <1>5 DEF Next, vars

\* A restart can empty the local disk, and no other store.
LEMMA RestartSteps ==
  ASSUME StorageTypeOK, NEW s \in Settings, Restart(s)
  PROVE  \A d \in Adapters, r \in Receipts :
           home'[r] = d => home[r] = d /\ file'[d][r] = file[d][r]
<1> USE DEF StorageTypeOK, Adapters
<1>1. CASE UNCHANGED <<file, home>>
  BY <1>1
<1>2. CASE /\ file' = [file EXCEPT !["local"] = [r \in Receipts |-> "none"]]
           /\ home' = [r \in Receipts |-> IF home[r] = "local" THEN "none" ELSE home[r]]
  BY <1>2
<1> QED
  BY <1>1, <1>2 DEF Restart

LEMMA RowSteps ==
  ASSUME StorageInv, [Next]_vars, NEW t \in rows, t \notin rows'
  PROVE  \E q \in Requests : DeleteRow(q) /\ reqInv[q] = t
BY DEF Next, PutOpen, PutWrite, PutObject, CreateRow, Rollback, AddJob, FileFind, DeleteFind,
       Find, FileOpen, FileRead, RemoveJob, DeleteFile, DeleteRow, Restart, vars, storeVars

\* What is remembered about a receipt: where it was put, which adapters a DELETE
\* went to.
LEMMA HistorySteps ==
  ASSUME StorageInv, [Next]_vars, NEW t \in Receipts
  PROVE  /\ erasedIn[t] \subseteq erasedIn'[t]
         /\ \/ home'[t] = home[t]
            \/ home'[t] = driver /\ (PutOpen(t) \/ PutObject(t)) /\ upload'[t] # "rejected"
            \/ \E s \in Settings : Restart(s)
<1> USE DEF StorageInv, StorageTypeOK
<1>1. ASSUME NEW r \in Receipts, PutOpen(r) \/ PutObject(r)
      PROVE  /\ UNCHANGED erasedIn
             /\ \/ home'[t] = home[t]
                \/ home'[t] = driver /\ r = t /\ upload'[t] # "rejected"
  BY <1>1 DEF PutOpen, PutObject, UploadTo
<1>2. ASSUME NEW q \in Requests, DeleteFile(q)
      PROVE  erasedIn[t] \subseteq erasedIn'[t] /\ UNCHANGED home
  BY <1>2 DEF DeleteFile, Erased
<1>3. \/ UNCHANGED <<home, erasedIn>>
      \/ \E r \in Receipts : PutOpen(r) \/ PutObject(r)
      \/ \E q \in Requests : DeleteFile(q)
      \/ (\E s \in Settings : Restart(s)) /\ UNCHANGED erasedIn
  BY DEF Next, PutWrite, CreateRow, Rollback, AddJob, FileFind, DeleteFind, Find, FileOpen,
         FileRead, RemoveJob, DeleteRow, Restart, vars
<1> QED
  BY <1>1, <1>2, <1>3

LEMMA DriverSteps ==
  ASSUME [Next]_vars
  PROVE  UNCHANGED <<driver, restarts>> \/ \E s \in Settings : Restart(s)
BY DEF Next, PutOpen, PutWrite, PutObject, CreateRow, Rollback, AddJob, FileFind, DeleteFind,
       Find, FileOpen, FileRead, RemoveJob, DeleteFile, DeleteRow, vars

-----------------------------------------------------------------------------
(* The invariant, continued. *)

LEMMA NextOldKeysHaveNoFile ==
  ASSUME StorageInv, [Next]_vars
  PROVE  OldKeysHaveNoFile'
<1> SUFFICES ASSUME NEW r \in Legacy
             PROVE  upload'[r] = "accepted" /\ \A d \in Adapters : file'[d][r] = "none"
  BY DEF OldKeysHaveNoFile
<1>1. r \in Receipts /\ upload[r] = "accepted" /\ \A d \in Adapters : file[d][r] = "none"
  BY ReceiptAssumption DEF StorageInv, OldKeysHaveNoFile
<1>2. upload'[r] = upload[r]
  BY <1>1, UploadSteps
     DEF PutOpen, PutWrite, PutObject, CreateRow, Rollback, AddJob, UploadRunning
<1>3. ASSUME NEW d \in Adapters, file'[d][r] # file[d][r]
      PROVE  FALSE
  BY <1>1, <1>3, FileSteps DEF PutOpen, PutWrite, PutObject, Rollback
<1> QED
  BY <1>1, <1>2, <1>3

LEMMA NextFilesOfUploads ==
  ASSUME StorageInv, [Next]_vars
  PROVE  FilesOfUploads' /\ PartsOfUploads'
<1> SUFFICES ASSUME NEW r \in Receipts, NEW d \in Adapters, file'[d][r] # "none"
             PROVE  /\ upload'[r] \notin {"idle", "rejected", "rolledBack"}
                    /\ upload'[r] \in UploadRunning => d = driver'
                    /\ file'[d][r] = "part" => upload'[r] \in {"write", "leaked", "cut"}
  BY DEF FilesOfUploads, PartsOfUploads
<1> USE DEF StorageInv, StorageTypeOK, FilesOfUploads, PartsOfUploads, UploadTo, UploadRunning
<1>1. CASE PutOpen(r) \/ PutWrite(r) \/ PutObject(r) \/ Rollback(r)
  BY <1>1, FileSteps DEF PutOpen, PutWrite, PutObject, Rollback, Hold
<1>2. CASE CreateRow(r) \/ AddJob(r)
  BY <1>2 DEF CreateRow, AddJob
<1>3. ASSUME NEW s \in Settings, Restart(s)
      PROVE  upload'[r] \notin UploadRunning
  BY <1>3 DEF Restart
<1> QED
  BY <1>1, <1>2, <1>3, FileSteps, UploadSteps, DriverSteps

LEMMA NextWritesGoToFiles ==
  ASSUME StorageInv, [Next]_vars
  PROVE  WritesGoToFiles'
<1> SUFFICES ASSUME NEW r \in Receipts, upload'[r] = "write"
             PROVE  file'[driver'][r] # "none"
  BY DEF WritesGoToFiles
<1> USE DEF StorageInv, StorageTypeOK, UploadTo
<1>1. ASSUME NEW s \in Settings, Restart(s)
      PROVE  FALSE
  BY <1>1 DEF Restart, UploadRunning
<1>2. driver' = driver
  BY <1>1, DriverSteps
<1>3. CASE PutOpen(r)
  BY <1>2, <1>3 DEF PutOpen, Hold, Adapters
<1>4. CASE ~PutOpen(r)
  <2>1. upload[r] = "write"
    BY <1>4, UploadSteps DEF PutWrite, PutObject, CreateRow, Rollback, AddJob
  <2>2. driver \in Adapters /\ file[driver][r] # "none"
    BY <2>1 DEF WritesGoToFiles, DownIsIdle, UploadRunning
  <2>3. ~Created(r) /\ ~Rollback(r)
    BY <2>1 DEF RowsAfterFiles, Rollback
  <2> QED
    BY <1>1, <1>2, <1>4, <2>2, <2>3, FileSteps DEF Created
<1> QED
  BY <1>3, <1>4

LEMMA NextRowsAfterFiles ==
  ASSUME StorageInv, [Next]_vars
  PROVE  RowsAfterFiles'
<1> SUFFICES ASSUME NEW r \in Receipts, Created(r)'
             PROVE  /\ upload'[r] \notin {"idle", "write", "create", "rejected"}
                    /\ \A d \in Adapters : file'[d][r] # "part"
                    /\ upload'[r] \in {"rollback", "rolledBack"} => "lostReply" \in Faults
  BY DEF RowsAfterFiles
<1> USE DEF StorageInv, StorageTypeOK, RowsAfterFiles, UploadTo
<1>1. CASE Created(r)
  <2>1. ASSUME NEW d \in Adapters
        PROVE  file'[d][r] # "part"
    BY <1>1, FileSteps DEF PutOpen, PutWrite, PutObject, Rollback
  <2>2. CASE upload'[r] = upload[r]
    BY <1>1, <2>1, <2>2
  <2>3. CASE upload'[r] # upload[r]
    BY <1>1, <2>1, <2>3, UploadSteps
       DEF PutOpen, PutWrite, PutObject, CreateRow, Rollback, AddJob
  <2> QED
    BY <2>2, <2>3
<1>2. CASE ~Created(r)
  <2>1. CreateRow(r) /\ r \in rows' /\ r \notin rows
    BY <1>2, CreatedSteps DEF Created
  <2>2. \A d \in Adapters : file'[d][r] # "part"
    BY <2>1 DEF CreateRow, PartsOfUploads
  <2> QED
    BY <2>1, <2>2 DEF CreateRow
<1> QED
  BY <1>1, <1>2

LEMMA NextOpenFilesAreWhole ==
  ASSUME StorageInv, [Next]_vars
  PROVE  OpenFilesAreWhole'
<1> USE DEF StorageInv, StorageTypeOK, OpenFilesAreWhole, GoTo, reqVars
<1>1. ASSUME NEW q \in Requests, FileOpen(q)
      PROVE  OpenFilesAreWhole'
  <2>1. driver \in Adapters /\ reqInv[q] \in Receipts
    BY <1>1 DEF FileOpen, DownIsIdle, RequestsFollowKind, ReqRunning
  <2>2. file[driver][reqInv[q]] \in {"none", "whole"}
    BY <2>1 DEF RowsAfterFiles, Created, Contents
  <2> QED
    BY <1>1, <2>2 DEF FileOpen
<1>2. ASSUME NEW q \in Requests,
             FileRead(q) \/ RemoveJob(q) \/ DeleteFile(q) \/ DeleteRow(q)
      PROVE  OpenFilesAreWhole'
  BY <1>2 DEF FileRead, RemoveJob, DeleteFile, DeleteRow
<1>3. ASSUME NEW q \in Requests, NEW r \in Receipts, FileFind(q, r) \/ DeleteFind(q, r)
      PROVE  OpenFilesAreWhole'
  BY <1>3 DEF FileFind, DeleteFind, Find
<1>4. ASSUME NEW s \in Settings, Restart(s)
      PROVE  OpenFilesAreWhole'
  BY <1>4 DEF Restart
<1> QED
  BY <1>1, <1>2, <1>3, <1>4
     DEF Next, PutOpen, PutWrite, PutObject, CreateRow, Rollback, AddJob, vars

LEMMA NextFileGoesBeforeRow ==
  ASSUME StorageInv, [Next]_vars
  PROVE  FileGoesBeforeRow'
<1> SUFFICES ASSUME NEW q \in Requests, reqPc'[q] = "deleteRow", ValidKey(reqInv'[q])
             PROVE  driver' \in erasedIn'[reqInv'[q]] /\ file'[driver'][reqInv'[q]] = "none"
  BY DEF FileGoesBeforeRow, ValidKey
<1> USE DEF StorageInv, StorageTypeOK, GoTo, reqVars
<1>1. ASSUME NEW s \in Settings, Restart(s)
      PROVE  FALSE
  BY <1>1 DEF Restart, ReqRunning
<1>2. driver' = driver
  BY <1>1, DriverSteps
<1>3. CASE DeleteFile(q)
  <2>1. driver \in Adapters /\ reqInv[q] \in Receipts
    BY <1>3 DEF DeleteFile, DownIsIdle, RequestsFollowKind, ReqRunning
  <2> QED
    BY <1>2, <1>3, <2>1 DEF DeleteFile, Hold, Erased
<1>4. CASE ~DeleteFile(q)
  <2>1. reqPc[q] = "deleteRow" /\ reqInv'[q] = reqInv[q]
    BY <1>1, <1>4
       DEF Next, PutOpen, PutWrite, PutObject, CreateRow, Rollback, AddJob, FileFind,
           DeleteFind, Find, FileOpen, FileRead, RemoveJob, DeleteFile, DeleteRow, vars
  <2>2. /\ driver \in Adapters /\ reqInv[q] \in Receipts
        /\ driver \in erasedIn[reqInv[q]] /\ file[driver][reqInv[q]] = "none"
    BY <2>1 DEF DownIsIdle, RequestsFollowKind, ReqRunning, FileGoesBeforeRow
  <2>3. file'[driver][reqInv[q]] = "none"
    BY <1>1, <2>2, FileSteps
       DEF PutOpen, PutWrite, PutObject, RowsAfterFiles, Created
  <2> QED
    BY <1>2, <2>1, <2>2, <2>3, HistorySteps
<1> QED
  BY <1>3, <1>4

LEMMA NextHomeHolds ==
  ASSUME StorageInv, [Next]_vars
  PROVE  HomeHolds' /\ OneStore'
<1> SUFFICES ASSUME NEW r \in Receipts, NEW d \in Adapters
             PROVE  /\ home'[r] = d /\ file'[d][r] = "none" =>
                         d \in erasedIn'[r] \/ upload'[r] = "rolledBack"
                    /\ restarts' = 0 /\ file'[d][r] # "none" => d = driver'
  BY DEF HomeHolds, OneStore
<1> USE DEF StorageInv, StorageTypeOK, UploadTo, Adapters
<1>1. CASE \E s \in Settings : Restart(s)
  <2>1. PICK s \in Settings : Restart(s)
    BY <1>1
  <2>2. home'[r] = d => home[r] = d /\ file'[d][r] = file[d][r]
    BY <2>1, RestartSteps
  <2>3. upload[r] = "rolledBack" => upload'[r] = "rolledBack"
    BY <2>1 DEF Restart, UploadRunning
  <2>4. restarts' # 0
    BY <2>1 DEF Restart
  <2> QED
    BY <2>2, <2>3, <2>4, HistorySteps DEF HomeHolds
<1>2. CASE ~\E s \in Settings : Restart(s)
  <2>1. driver' = driver /\ restarts' = restarts
    BY <1>2, DriverSteps
  <2>2. upload[r] = "rolledBack" => upload'[r] = "rolledBack"
    BY <1>2, UploadSteps DEF PutOpen, PutWrite, PutObject, CreateRow, Rollback, AddJob
  <2>3. ASSUME file'[d][r] # "none"
        PROVE  restarts = 0 => d = driver
    BY <1>2, <2>3, FileSteps DEF OneStore
  <2>4. ASSUME home'[r] = d, file'[d][r] = "none", file[d][r] # "none"
        PROVE  d \in erasedIn'[r] \/ upload'[r] = "rolledBack"
    BY <1>2, <2>4, FileSteps DEF Rollback, Hold
  <2>5. ASSUME home'[r] = d, file'[d][r] = "none", home[r] # d
        PROVE  FALSE
    BY <1>2, <2>5, HistorySteps DEF PutOpen, PutObject, Hold
  <2> QED
    BY <2>1, <2>2, <2>3, <2>4, <2>5, HistorySteps DEF HomeHolds
<1> QED
  BY <1>1, <1>2

LEMMA NextLeftoversAreExplained ==
  ASSUME StorageInv, [Next]_vars
  PROVE  LeftoversAreExplained'
<1> SUFFICES ASSUME NEW d \in Adapters, NEW r \in Receipts, file'[d][r] # "none", r \notin rows',
                    upload'[r] \notin {"write", "create", "rollback", "leaked", "cut"}
             PROVE  erasedIn'[r] \notin {{}, {d}}
  BY DEF LeftoversAreExplained
<1> USE DEF StorageInv, StorageTypeOK, UploadTo
<1>1. upload'[r] # "idle" /\ upload'[r] # "rejected" /\ upload'[r] # "rolledBack"
  BY NextFilesOfUploads DEF FilesOfUploads
<1>2. file[d][r] # "none"
  BY FileSteps DEF PutOpen, PutWrite, PutObject
<1>3. CASE r \in rows
  <2>1. PICK q \in Requests : DeleteRow(q) /\ reqInv[q] = r
    BY <1>3, RowSteps
  <2>2. ValidKey(r) /\ reqPc[q] = "deleteRow"
    BY <1>2, <2>1 DEF DeleteRow, OldKeysHaveNoFile, ValidKey
  <2>3. driver \in erasedIn[r] /\ file[driver][r] = "none"
    BY <2>1, <2>2 DEF FileGoesBeforeRow
  <2> QED
    BY <1>2, <2>3, HistorySteps
<1>4. CASE r \notin rows
  <2>1. upload[r] \notin {"write", "create", "rollback", "leaked", "cut"}
    BY <1>1, <1>4, UploadSteps DEF PutOpen, PutWrite, PutObject, CreateRow, Rollback, AddJob
  <2>2. erasedIn[r] \notin {{}, {d}}
    BY <1>2, <1>4, <2>1 DEF LeftoversAreExplained
  <2> QED
    BY <2>2, HistorySteps
<1> QED
  BY <1>3, <1>4

LEMMA NextStorageInv ==
  ASSUME StorageInv, [Next]_vars
  PROVE  StorageInv'
BY NextStorageTypeOK, NextRequestsFollowKind, NextDownIsIdle, NextOldKeysHaveNoFile,
   NextFilesOfUploads, NextWritesGoToFiles, NextRowsAfterFiles, NextOpenFilesAreWhole, NextFileGoesBeforeRow,
   NextHomeHolds, NextLeftoversAreExplained DEF StorageInv

LEMMA StorageInvariant == Spec => []StorageInv
BY InitStorageInv, NextStorageInv, PTL DEF Spec

-----------------------------------------------------------------------------
(* Theorems. *)

\* The state always has the shape StorageTypeOK gives it.
THEOREM StorageTypeCorrect == Spec => []StorageTypeOK
<1>1. StorageInv => StorageTypeOK
  BY DEF StorageInv
<1> QED
  BY StorageInvariant, <1>1, PTL

\* The type that travels as the extension of the key comes back as it was, for
\* every type an upload can have (MIME_TO_EXT and EXT_TO_MIME).
LEMMA ExtensionKeepsType ==
  ASSUME NEW mime \in MimeTypes
  PROVE  ContentType(Extension(mime)) = mime
BY DEF MimeTypes, ContentType, Extension

\* What a file request serves is the whole file that was uploaded, with its type:
\* no row is created before its file is whole, and an open file is not affected
\* by a delete (put, create, readFile).
THEOREM WholeFilesAreServed == Spec => []ServedAsUploaded
<1>1. StorageInv => ServedAsUploaded
  <2> SUFFICES ASSUME StorageInv, NEW q \in Readers, reqPc[q] = "served"
               PROVE  /\ body[q] = "whole"
                      /\ ContentType(Extension(FileType[reqInv[q]])) = FileType[reqInv[q]]
    BY DEF ServedAsUploaded
  <2>1. q \in Requests /\ body[q] = "whole" /\ reqInv[q] \in Receipts
    BY DEF StorageInv, Requests, OpenFilesAreWhole, RequestsFollowKind
  <2> QED
    BY <2>1, ReceiptAssumption, ExtensionKeepsType
<1> QED
  BY StorageInvariant, <1>1, PTL

\* A file without a row is the trace of an upload, or of a DELETE that ran when
\* the other adapter was in use (put, the compensating delete, remove).
THEOREM NoOtherLeftovers == Spec => []LeftoversAreExplained
<1>1. StorageInv => LeftoversAreExplained
  BY DEF StorageInv
<1> QED
  BY StorageInvariant, <1>1, PTL

\* No DELETE ends because of what the store lacks (remove, isMissingFileError).
THEOREM StoreDoesNotBlockDelete == Spec => []DeleteIsNotBlocked
<1>1. StorageInv => DeleteIsNotBlocked
  BY DEF StorageInv, RequestsFollowKind, DeleteIsNotBlocked, Requests
<1> QED
  BY StorageInvariant, <1>1, PTL

\* A file request misses a file only if it is, or was put, in another store, if a
\* DELETE went there, or if the upload was undone after its row was created.
THEOREM MissingFilesAreExplained == Spec => MissingIsExplained
<1>1. ASSUME StorageInv, [Next]_vars, NEW q \in Readers,
             reqPc[q] = "open", reqPc'[q] \in {"notFound", "error"}
      PROVE  \/ home[reqInv[q]] # driver
             \/ driver \in erasedIn[reqInv[q]]
             \/ upload[reqInv[q]] = "rolledBack" /\ "lostReply" \in Faults
  <2> USE DEF StorageInv, StorageTypeOK
  <2>1. q \in Requests /\ reqInv[q] \in Receipts /\ driver \in Adapters
    BY <1>1 DEF Requests, RequestsFollowKind, DownIsIdle, ReqRunning
  <2>2. FileOpen(q)
    BY <1>1, <2>1
       DEF Next, PutOpen, PutWrite, PutObject, CreateRow, Rollback, AddJob, FileFind,
           DeleteFind, Find, FileOpen, FileRead, RemoveJob, DeleteFile, DeleteRow, Restart,
           GoTo, ReqRunning, reqVars, vars
  <2>3. file[driver][reqInv[q]] = "none"
    BY <1>1, <2>1, <2>2 DEF FileOpen, GoTo
  <2>4. upload[reqInv[q]] = "rolledBack" => "lostReply" \in Faults
    BY <1>1, <2>1 DEF RowsAfterFiles, Created
  <2> QED
    BY <1>1, <2>1, <2>3, <2>4 DEF HomeHolds
<1>2. StorageInv /\ [Next]_vars =>
        [\A q \in Readers :
           reqPc[q] = "open" /\ reqPc'[q] \in {"notFound", "error"} =>
             LET r == reqInv[q]
             IN  \/ home[r] # driver
                 \/ driver \in erasedIn[r]
                 \/ upload[r] = "rolledBack" /\ "lostReply" \in Faults]_vars
  BY <1>1
<1> QED
  BY StorageInvariant, <1>2, PTL DEF Spec, MissingIsExplained

-----------------------------------------------------------------------------
(* The refinement: one set of objects, with put, get and delete in one step. *)

\* Until a restart the process runs on one adapter, which has every file: there
\* the objects of InvoicesService are the files of that adapter, once written.
LEMMA StoredSteps ==
  ASSUME StorageInv, StorageInv', restarts = 0, restarts' = 0, driver' = driver,
         driver \in Adapters, NEW r \in Receipts,
         \A t \in Receipts \ {r} :
           file'[driver][t] = file[driver][t] /\ upload'[t] = upload[t]
  PROVE  /\ r \in Stored <=> upload[r] # "write" /\ file[driver][r] # "none"
         /\ IF upload'[r] # "write" /\ file'[driver][r] # "none"
              THEN Stored' = Stored \cup {r}
              ELSE Stored' = Stored \ {r}
<1> USE DEF StorageInv, StorageTypeOK, OneStore
<1>1. \A t \in Receipts : t \in Stored <=> upload[t] # "write" /\ file[driver][t] # "none"
  BY DEF Stored
<1>2. \A t \in Receipts : t \in Stored' <=> upload'[t] # "write" /\ file'[driver][t] # "none"
  BY DEF Stored
<1>3. Stored \subseteq Receipts /\ Stored' \subseteq Receipts
  BY DEF Stored
<1> QED
  BY <1>1, <1>2, <1>3

\* What InvoicesService calls the state of the uploads, jobs, rows and requests.
ServiceUpload == [r \in Receipts |-> IF upload[r] = "write" THEN "idle" ELSE upload[r]]
ServiceJob    == [r \in Receipts |-> IF r \in queued THEN "waiting" ELSE "none"]
ServiceStatus == [r \in Receipts |-> IF r \in rows THEN "PENDING" ELSE "ABSENT"]
ServiceReqPc  == [q \in Requests |-> ServicePc(q)]

LEMMA UploadToMaps ==
  ASSUME StorageInv, NEW r \in Receipts, NEW pc, UploadTo(r, pc)
  PROVE  /\ upload' = [upload EXCEPT ![r] = pc] /\ upload'[r] = pc
         /\ \A t \in Receipts \ {r} : upload'[t] = upload[t]
         /\ ServiceUpload' = [ServiceUpload EXCEPT ![r] = IF pc = "write" THEN "idle" ELSE pc]
         /\ ServiceUpload[r] = IF upload[r] = "write" THEN "idle" ELSE upload[r]
BY DEF StorageInv, StorageTypeOK, UploadTo, ServiceUpload

LEMMA UploadSimulation ==
  ASSUME StorageInv, StorageInv', restarts' = 0, NEW r \in Receipts,
         \/ PutOpen(r) \/ PutWrite(r) \/ PutObject(r) \/ CreateRow(r) \/ Rollback(r)
         \/ AddJob(r)
  PROVE  Service!Put(r) \/ Service!Create(r) \/ Service!Rollback(r) \/ Service!Enqueue(r)
           \/ UNCHANGED Service!vars
<1>1. /\ restarts = 0 /\ driver' = driver /\ driver \in Adapters /\ UNCHANGED reqVars
      /\ \E pc \in {"write", "create", "rollback", "enqueue", "accepted", "rejected",
                    "rolledBack", "leaked", "unqueued"} : UploadTo(r, pc)
      /\ file' = file \/ \E c \in Contents : Hold(r, c)
  BY DEF PutOpen, PutWrite, PutObject, CreateRow, Rollback, AddJob, StorageInv,
         StorageTypeOK, DownIsIdle, UploadRunning, Adapters, Contents
<1>2. \A t \in Receipts \ {r} :
        file'[driver][t] = file[driver][t] /\ upload'[t] = upload[t]
  BY <1>1, UploadToMaps, HoldSets DEF StorageInv
<1>3. /\ r \in Stored <=> upload[r] # "write" /\ file[driver][r] # "none"
      /\ IF upload'[r] # "write" /\ file'[driver][r] # "none"
           THEN Stored' = Stored \cup {r}
           ELSE Stored' = Stored \ {r}
  BY <1>1, <1>2, StoredSteps
<1>4. UNCHANGED ServiceReqPc
  BY <1>1 DEF ServiceReqPc, ServicePc, reqVars
<1>5. CASE PutOpen(r)
  <2>1. /\ UNCHANGED <<rows, queued>> /\ ServiceUpload[r] = "idle" /\ file[driver][r] = "none"
    BY <1>1, <1>5 DEF PutOpen, ServiceUpload, StorageInv, FilesOfUploads
  <2>2. CASE UploadTo(r, "write")
    <3>1. UNCHANGED Stored
      BY <1>3, <2>1, <2>2, UploadToMaps
    <3>2. UNCHANGED ServiceUpload
      BY <2>1, <2>2, UploadToMaps DEF ServiceUpload
    <3> QED
      BY <1>1, <1>4, <2>1, <3>1, <3>2
         DEF Service!vars, Service!reqVars, Service!rowVars, Service!queueVars,
             Service!workerVars, reqVars, ServiceUpload, ServiceReqPc
  <2>3. CASE UploadTo(r, "rejected") /\ "storage" \in Faults /\ UNCHANGED file
    <3>1. UNCHANGED Stored
      BY <1>3, <2>1, <2>3, UploadToMaps
    <3>2. ServiceUpload' = [ServiceUpload EXCEPT ![r] = "rejected"]
      BY <2>3, UploadToMaps
    <3>3. Service!Put(r)
      BY <1>1, <1>4, <2>1, <2>3, <3>1, <3>2
         DEF Service!Put, Service!reqVars, Service!rowVars, Service!queueVars,
             Service!workerVars, reqVars, ServiceUpload, ServiceReqPc
    <3> QED
      BY <3>3
  <2> QED
    BY <1>5, <2>2, <2>3 DEF PutOpen
<1>6. CASE PutWrite(r)
  <2>1. /\ UNCHANGED <<rows, queued>> /\ ServiceUpload[r] = "idle" /\ file[driver][r] # "none"
    BY <1>1, <1>6 DEF PutWrite, ServiceUpload, StorageInv, WritesGoToFiles
  <2>2. PICK pc \in {"create", "leaked"} :
          UploadTo(r, pc) /\ (pc = "leaked" => "storage" \in Faults)
    BY <1>6 DEF PutWrite
  <2>3. file'[driver][r] # "none"
    BY <1>1, <1>6, <2>1, HoldSets DEF PutWrite, StorageInv, Contents
  <2>4. Stored' = Stored \cup {r} /\ ServiceUpload' = [ServiceUpload EXCEPT ![r] = pc]
    BY <1>3, <2>2, <2>3, UploadToMaps
  <2>5. Service!Put(r)
    BY <1>1, <1>4, <2>1, <2>2, <2>4
       DEF Service!Put, Service!reqVars, Service!rowVars, Service!queueVars,
           Service!workerVars, reqVars, ServiceUpload, ServiceReqPc
  <2> QED
    BY <2>5
<1>7. CASE PutObject(r)
  <2>1. /\ UNCHANGED <<rows, queued>> /\ ServiceUpload[r] = "idle" /\ file[driver][r] = "none"
    BY <1>1, <1>7 DEF PutObject, ServiceUpload, StorageInv, FilesOfUploads
  <2>2. PICK pc \in {"create", "leaked", "rejected"} :
          /\ UploadTo(r, pc) /\ (pc # "create" => "storage" \in Faults)
          /\ IF pc = "rejected" THEN UNCHANGED file ELSE Hold(r, "whole")
    BY <1>7 DEF PutObject
  <2>3. file'[driver][r] = "none" <=> pc = "rejected"
    BY <1>1, <2>1, <2>2, HoldSets DEF StorageInv, Contents
  <2>4. /\ Stored' = IF pc = "rejected" THEN Stored ELSE Stored \cup {r}
        /\ ServiceUpload' = [ServiceUpload EXCEPT ![r] = pc]
    BY <1>3, <2>1, <2>2, <2>3, UploadToMaps
  <2>5. Service!Put(r)
    BY <1>1, <1>4, <2>1, <2>2, <2>4
       DEF Service!Put, Service!reqVars, Service!rowVars, Service!queueVars,
           Service!workerVars, reqVars, ServiceUpload, ServiceReqPc
  <2> QED
    BY <2>5
<1>8. CASE CreateRow(r)
  <2>1. UNCHANGED <<queued, file>> /\ upload[r] = "create" /\ ServiceUpload[r] = "create"
    BY <1>8 DEF CreateRow, ServiceUpload
  <2>2. PICK pc \in {"enqueue", "rollback"} :
          /\ UploadTo(r, pc)
          /\ \/ rows' = rows \cup {r} /\ (pc = "rollback" => "lostReply" \in Faults)
             \/ pc = "rollback" /\ "database" \in Faults /\ UNCHANGED rows
    BY <1>8 DEF CreateRow
  <2>3. UNCHANGED Stored /\ ServiceUpload' = [ServiceUpload EXCEPT ![r] = pc]
    BY <1>3, <2>1, <2>2, UploadToMaps
  <2>4. rows' = rows \cup {r} => ServiceStatus' = [ServiceStatus EXCEPT ![r] = "PENDING"]
    BY DEF ServiceStatus
  <2>5. Service!Create(r)
    BY <1>1, <1>4, <2>1, <2>2, <2>3, <2>4
       DEF Service!Create, Service!reqVars, Service!queueVars, Service!workerVars, reqVars,
           ServiceUpload, ServiceReqPc, ServiceStatus
  <2> QED
    BY <2>5
<1>9. CASE Rollback(r)
  <2>1. UNCHANGED <<rows, queued>> /\ upload[r] = "rollback" /\ ServiceUpload[r] = "rollback"
    BY <1>9 DEF Rollback, ServiceUpload
  <2>2. PICK pc \in {"rolledBack", "leaked"} :
          /\ UploadTo(r, pc)
          /\ IF pc = "rolledBack" THEN Hold(r, "none") ELSE "storage" \in Faults /\ UNCHANGED file
    BY <1>9 DEF Rollback
  <2>3. pc = "rolledBack" => file'[driver][r] = "none"
    BY <1>1, <2>2, HoldSets DEF StorageInv, Contents
  <2>4. /\ Stored' = IF pc = "rolledBack" THEN Stored \ {r} ELSE Stored
        /\ ServiceUpload' = [ServiceUpload EXCEPT ![r] = pc]
    BY <1>3, <2>1, <2>2, <2>3, UploadToMaps
  <2>5. Service!Rollback(r)
    BY <1>1, <1>4, <2>1, <2>2, <2>4
       DEF Service!Rollback, Service!reqVars, Service!rowVars, Service!queueVars,
           Service!workerVars, reqVars, ServiceUpload, ServiceReqPc
  <2> QED
    BY <2>5
<1>10. CASE AddJob(r)
  <2>1. UNCHANGED <<rows, file>> /\ upload[r] = "enqueue" /\ ServiceUpload[r] = "enqueue"
    BY <1>10 DEF AddJob, ServiceUpload
  <2>2. PICK pc \in {"accepted", "unqueued"} :
          /\ UploadTo(r, pc)
          /\ \/ queued' = queued \cup {r} /\ (pc = "unqueued" => "lostReply" \in Faults)
             \/ pc = "unqueued" /\ "redis" \in Faults /\ UNCHANGED queued
    BY <1>10 DEF AddJob
  <2>3. UNCHANGED Stored /\ ServiceUpload' = [ServiceUpload EXCEPT ![r] = pc]
    BY <1>3, <2>1, <2>2, UploadToMaps
  <2>4. queued' = queued \cup {r} => ServiceJob' = [ServiceJob EXCEPT ![r] = "waiting"]
    BY DEF ServiceJob
  <2>5. Service!Enqueue(r)
    BY <1>1, <1>4, <2>1, <2>2, <2>3, <2>4
       DEF Service!Enqueue, Service!reqVars, Service!rowVars, Service!workerVars, reqVars,
           ServiceUpload, ServiceReqPc, ServiceJob
  <2> QED
    BY <2>5
<1> QED
  BY <1>5, <1>6, <1>7, <1>8, <1>9, <1>10

\* ServicePc as a function of the step a request is at.
ServiceStep(pc) ==
  CASE pc = "open" -> "readFile"
    [] pc \in {"read", "served", "failed"} -> "done"
    [] pc \in {"notFound", "error"} -> "fileMissing"
    [] OTHER -> pc

LEMMA GoToMaps ==
  ASSUME StorageInv, NEW q \in Requests, NEW pc, GoTo(q, pc)
  PROVE  /\ reqPc'[q] = pc
         /\ ServiceReqPc' = [ServiceReqPc EXCEPT ![q] = ServiceStep(pc)]
         /\ ServiceReqPc[q] = ServiceStep(reqPc[q])
<1> USE DEF StorageInv, StorageTypeOK, GoTo
<1>1. reqPc' = [reqPc EXCEPT ![q] = pc] /\ reqPc'[q] = pc
  OBVIOUS
<1>2. ServiceReqPc = [p \in Requests |-> ServiceStep(reqPc[p])]
  BY DEF ServiceReqPc, ServicePc, ServiceStep
<1>3. ServiceReqPc' = [p \in Requests |-> ServiceStep(reqPc'[p])]
  BY DEF ServiceReqPc, ServicePc, ServiceStep
<1>4. ASSUME NEW p \in Requests \ {q}
      PROVE  reqPc'[p] = reqPc[p]
  BY <1>1
<1> QED
  BY <1>1, <1>2, <1>3, <1>4

LEMMA FindSimulation ==
  ASSUME StorageInv, \A p \in Requests : reqInv'[p] \notin Legacy,
         NEW q \in Requests, NEW r \in Receipts, FileFind(q, r) \/ DeleteFind(q, r)
  PROVE  Service!FileFind(q, r) \/ Service!DeleteFind(q, r)
<1> USE DEF StorageInv, StorageTypeOK
<1>1. PICK pc : Find(q, r, pc) /\ pc = IF FileFind(q, r) THEN "open" ELSE "removeJob"
  <2>1. r \notin Legacy
    BY DEF FileFind, DeleteFind, Find
  <2>2. ~(FileFind(q, r) /\ DeleteFind(q, r))
    BY RequestAssumption DEF FileFind, DeleteFind
  <2> QED
    BY <2>1, <2>2 DEF FileFind, DeleteFind, ValidKey
<1>2. /\ UNCHANGED <<rows, queued, file, upload>> /\ reqPc[q] = "idle" /\ r \in rows
      /\ GoTo(q, pc) /\ reqInv' = [reqInv EXCEPT ![q] = r]
  BY <1>1 DEF Find, storeVars
<1>3. /\ ServiceReqPc' = [ServiceReqPc EXCEPT ![q] = ServiceStep(pc)]
      /\ ServiceReqPc[q] = "idle"
  BY <1>2, GoToMaps DEF ServiceStep
<1>4. UNCHANGED Stored /\ ServiceStatus[r] = "PENDING"
  BY <1>2 DEF Stored, ServiceStatus
<1>5. Service!Begin(q, r, ServiceStep(pc))
  BY <1>2, <1>3, <1>4
     DEF Service!Begin, Service!RowExists, Service!GoTo, Service!rowVars, Service!queueVars,
         Service!workerVars, ServiceReqPc, ServiceStatus
<1>6. CASE pc = "open"
  <2>1. ServiceStep(pc) = "readFile"
    BY <1>6 DEF ServiceStep
  <2> QED
    BY <1>5, <2>1 DEF Service!FileFind
<1>7. CASE pc = "removeJob"
  <2>1. ServiceStep(pc) = "removeJob"
    BY <1>7 DEF ServiceStep
  <2> QED
    BY <1>4, <1>5, <2>1 DEF Service!DeleteFind, Service!InProgress, ServiceStatus
<1> QED
  BY <1>1, <1>6, <1>7

LEMMA ReadSimulation ==
  ASSUME StorageInv, restarts = 0, NEW q \in Requests, FileOpen(q) \/ FileRead(q)
  PROVE  Service!FileRead(q) \/ UNCHANGED Service!vars
<1> USE DEF StorageInv, StorageTypeOK
<1>1. UNCHANGED <<rows, queued, file, upload, reqInv>> /\ UNCHANGED Stored
  BY DEF FileOpen, FileRead, storeVars, Stored
<1>2. CASE FileOpen(q)
  <2>1. /\ reqPc[q] = "open" /\ reqInv[q] \in Receipts /\ driver \in Adapters
        /\ upload[reqInv[q]] # "write"
    BY <1>2 DEF FileOpen, RequestsFollowKind, DownIsIdle, ReqRunning, RowsAfterFiles, Created
  <2>2. reqInv[q] \in Stored <=> file[driver][reqInv[q]] # "none"
    BY <2>1 DEF Stored, OneStore
  <2>3. PICK pc \in {"read", "notFound", "error", "failed"} :
          /\ GoTo(q, pc)
          /\ \/ pc = "read" /\ file[driver][reqInv[q]] # "none"
             \/ pc \in {"notFound", "error"} /\ file[driver][reqInv[q]] = "none"
             \/ pc = "failed" /\ "storage" \in Faults
    BY <1>2 DEF FileOpen
  <2>4. /\ ServiceReqPc[q] = "readFile"
        /\ ServiceReqPc' = [ServiceReqPc EXCEPT ![q] =
                              IF pc \in {"read", "failed"} THEN "done" ELSE "fileMissing"]
    BY <2>1, <2>3, GoToMaps DEF ServiceStep
  <2>5. Service!FileRead(q)
    BY <1>1, <2>2, <2>3, <2>4
       DEF Service!FileRead, Service!GoTo, Service!rowVars, Service!queueVars,
           Service!workerVars, ServiceReqPc
  <2> QED
    BY <2>5
<1>3. CASE FileRead(q)
  <2>1. PICK pc \in {"served", "failed"} : GoTo(q, pc) /\ reqPc[q] = "read"
    BY <1>3 DEF FileRead
  <2>2. /\ ServiceReqPc[q] = "done"
        /\ ServiceReqPc' = [ServiceReqPc EXCEPT ![q] = "done"]
    BY <2>1, GoToMaps DEF ServiceStep
  <2>3. UNCHANGED ServiceReqPc
    BY <2>2 DEF ServiceReqPc
  <2>4. UNCHANGED Service!vars
    BY <1>1, <2>3 DEF Service!vars, Service!reqVars, Service!rowVars, Service!queueVars,
                      Service!workerVars, ServiceReqPc
  <2> QED
    BY <2>4
<1> QED
  BY <1>2, <1>3

LEMMA DeleteSimulation ==
  ASSUME StorageInv, StorageInv', restarts' = 0, \A p \in Requests : reqInv'[p] \notin Legacy,
         NEW q \in Requests, RemoveJob(q) \/ DeleteFile(q) \/ DeleteRow(q)
  PROVE  Service!RemoveJob(q) \/ Service!DeleteFile(q) \/ Service!DeleteRow(q)
<1>1. /\ restarts = 0 /\ UNCHANGED <<driver, reqInv, upload>> /\ driver \in Adapters
      /\ reqInv[q] \in Receipts /\ ValidKey(reqInv[q])
  BY DEF RemoveJob, DeleteFile, DeleteRow, StorageInv, StorageTypeOK, DownIsIdle,
         RequestsFollowKind, ReqRunning, ValidKey
<1>2. CASE RemoveJob(q)
  <2>1. UNCHANGED <<rows, file>> /\ UNCHANGED Stored
    BY <1>1, <1>2 DEF RemoveJob, Stored
  <2>2. PICK pc \in {"deleteFile", "aborted", "refused"} :
          /\ GoTo(q, pc) /\ reqPc[q] = "removeJob"
          /\ \/ /\ queued' = queued \ {reqInv[q]} /\ pc # "refused"
                /\ pc = "aborted" => "lostReply" \in Faults
             \/ pc = "refused" /\ "redis" \in Faults /\ UNCHANGED queued
    BY <1>2 DEF RemoveJob
  <2>3. /\ ServiceReqPc[q] = "removeJob"
        /\ ServiceReqPc' = [ServiceReqPc EXCEPT ![q] = pc]
    BY <2>2, GoToMaps DEF ServiceStep
  <2>4. queued' = queued \ {reqInv[q]} =>
          ServiceJob' = [ServiceJob EXCEPT ![reqInv[q]] = "none"]
    BY DEF ServiceJob
  <2>5. Service!RemoveJob(q)
    BY <1>1, <2>1, <2>2, <2>3, <2>4
       DEF Service!RemoveJob, Service!GoTo, Service!rowVars, Service!workerVars, ServiceReqPc,
           ServiceJob
  <2> QED
    BY <2>5
<1>3. CASE DeleteFile(q)
  <2>1. UNCHANGED <<rows, queued>> /\ reqPc[q] = "deleteFile"
    BY <1>3 DEF DeleteFile
  <2>2. \/ Hold(reqInv[q], "none") /\ GoTo(q, "deleteRow")
        \/ Hold(reqInv[q], "none") /\ GoTo(q, "half") /\ "lostReply" \in Faults
        \/ UNCHANGED file /\ GoTo(q, "deleteRow") /\ file[driver][reqInv[q]] = "none"
        \/ UNCHANGED file /\ GoTo(q, "aborted") /\ "storage" \in Faults
    BY <1>1, <1>3 DEF DeleteFile, IsMissing, MissingCode
  <2>3. PICK pc \in {"deleteRow", "half", "aborted"} :
          /\ GoTo(q, pc)
          /\ pc = "half" => "lostReply" \in Faults
          /\ IF pc = "aborted" THEN "storage" \in Faults /\ UNCHANGED file
               ELSE Hold(reqInv[q], "none")
                      \/ (UNCHANGED file /\ file[driver][reqInv[q]] = "none")
    BY <2>2
  <2>4. pc # "aborted" => file'[driver][reqInv[q]] = "none"
    BY <1>1, <2>3, HoldSets DEF StorageInv, Contents
  <2>5. \A t \in Receipts \ {reqInv[q]} : file'[driver][t] = file[driver][t]
    BY <1>1, <2>3, HoldSets DEF StorageInv, Contents
  <2>6. Stored' = IF pc = "aborted" THEN Stored ELSE Stored \ {reqInv[q]}
    BY <1>1, <2>3, <2>4, <2>5, StoredSteps DEF Stored
  <2>7. /\ ServiceReqPc[q] = "deleteFile"
        /\ ServiceReqPc' = [ServiceReqPc EXCEPT ![q] = pc]
    BY <2>1, <2>3, GoToMaps DEF ServiceStep
  <2>8. Service!DeleteFile(q)
    BY <1>1, <2>1, <2>3, <2>6, <2>7
       DEF Service!DeleteFile, Service!GoTo, Service!rowVars, Service!queueVars,
           Service!workerVars, ServiceReqPc
  <2> QED
    BY <2>8
<1>4. CASE DeleteRow(q)
  <2>1. UNCHANGED <<queued, file>> /\ UNCHANGED Stored
    BY <1>1, <1>4 DEF DeleteRow, Stored
  <2>2. PICK pc \in {"deleted", "gone", "half"} :
          /\ GoTo(q, pc) /\ reqPc[q] = "deleteRow"
          /\ \/ /\ reqInv[q] \in rows /\ rows' = rows \ {reqInv[q]} /\ pc # "half"
                /\ pc = "gone" => "lostReply" \in Faults
             \/ reqInv[q] \notin rows /\ UNCHANGED rows /\ pc = "gone"
             \/ pc = "half" /\ "database" \in Faults /\ UNCHANGED rows
    BY <1>4 DEF DeleteRow
  <2>3. /\ ServiceReqPc[q] = "deleteRow"
        /\ ServiceReqPc' = [ServiceReqPc EXCEPT ![q] = pc]
    BY <2>2, GoToMaps DEF ServiceStep
  <2>4. ASSUME rows' = rows \ {reqInv[q]}
        PROVE  Service!DeleteRows({reqInv[q]})
    BY <2>4 DEF Service!DeleteRows
  <2>5. Service!RowExists(reqInv[q]) <=> reqInv[q] \in rows
    BY <1>1 DEF Service!RowExists
  <2>6. UNCHANGED rows => UNCHANGED Service!rowVars
    BY DEF Service!rowVars
  <2>7. Service!DeleteRow(q)
    BY <1>1, <2>1, <2>2, <2>3, <2>4, <2>5, <2>6
       DEF Service!DeleteRow, Service!GoTo, Service!queueVars, Service!workerVars, ServiceReqPc
  <2> QED
    BY <2>7
<1> QED
  BY <1>2, <1>3, <1>4

\* Either adapter does what InvoicesService takes put, get and delete for: until
\* a restart, and but for keys from before the storage keys, every step of the
\* uploads, the file requests and the DELETEs here is a step of InvoicesService,
\* or none, whatever the configuration and the faults.
THEOREM StorageRefinement == Spec => ImplementsService
<1>1. ASSUME StorageInv, StorageInv', [Next]_vars, restarts' = 0,
             \A q \in Requests : reqInv'[q] \notin Legacy
      PROVE  [Service!Next]_(Service!vars)
  <2>1. ASSUME NEW r \in Receipts,
               \/ PutOpen(r) \/ PutWrite(r) \/ PutObject(r) \/ CreateRow(r) \/ Rollback(r)
               \/ AddJob(r)
        PROVE  [Service!Next]_(Service!vars)
    BY <1>1, <2>1, UploadSimulation DEF Service!Next, Service!ServiceNext, Service!UploadStep
  <2>2. ASSUME NEW q \in Requests, NEW r \in Receipts, FileFind(q, r) \/ DeleteFind(q, r)
        PROVE  [Service!Next]_(Service!vars)
    BY <1>1, <2>2, FindSimulation DEF Service!Next, Service!ServiceNext
  <2>3. ASSUME NEW q \in Requests, FileOpen(q) \/ FileRead(q)
        PROVE  [Service!Next]_(Service!vars)
    <3>1. restarts = 0
      BY <1>1, <2>3 DEF FileOpen, FileRead
    <3> QED
      BY <1>1, <2>3, <3>1, ReadSimulation
         DEF Service!Next, Service!ServiceNext, Service!RequestStep
  <2>4. ASSUME NEW q \in Requests, RemoveJob(q) \/ DeleteFile(q) \/ DeleteRow(q)
        PROVE  [Service!Next]_(Service!vars)
    BY <1>1, <2>4, DeleteSimulation DEF Service!Next, Service!ServiceNext, Service!RequestStep
  <2>5. ASSUME NEW s \in Settings, Restart(s)
        PROVE  FALSE
    BY <1>1, <2>5 DEF Restart, StorageInv, StorageTypeOK
  <2>6. CASE UNCHANGED vars
    <3>1. UNCHANGED <<rows, queued, upload, reqPc, reqInv>> /\ UNCHANGED Stored
      BY <2>6 DEF vars, storeVars, reqVars, Stored
    <3>2. UNCHANGED ServiceReqPc
      BY <3>1 DEF ServiceReqPc, ServicePc
    <3> QED
      BY <3>1, <3>2 DEF Service!vars, Service!reqVars, Service!rowVars, Service!queueVars,
                        Service!workerVars, ServiceReqPc
  <2> QED
    BY <1>1, <2>1, <2>2, <2>3, <2>4, <2>5, <2>6 DEF Next
<1>2. StorageInv /\ StorageInv' /\ [Next]_vars =>
        [restarts' = 0 /\ (\A q \in Requests : reqInv'[q] \notin Legacy)
           => [Service!Next]_(Service!vars)]_vars
  BY <1>1
<1> QED
  BY StorageInvariant, <1>2, PTL DEF Spec, ImplementsService
=============================================================================
