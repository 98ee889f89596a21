------------------------- MODULE InvoiceStoreProofs -------------------------
(***************************************************************************)
(* Database and object store agree: NoOrphanObject, NoDanglingRow,          *)
(* FileMissingOnlyAfterDelete and DeletedLeavesNothing are invariants of    *)
(* InvoiceSystem for every value of its constants.                          *)
(***************************************************************************)
EXTENDS InvoiceSystemProofs

\* The upload got far enough to have created the row of i.  Once true it stays
\* true, and a row that goes away afterwards does not come back.
HadRow(i) ==
  /\ upload[i] \notin {"idle", "create", "rejected"}
  /\ upload[i] \in {"rollback", "rolledBack"} => "lostReply" \in Faults

RowsWereCreated == \A i \in Invoices : RowExists(i) => HadRow(i)

RequestsFoundRow ==
  \A r \in Requests : reqPc[r] # "idle" => reqInv[r] \in Invoices /\ HadRow(reqInv[r])

FileGoneFirst ==
  \A r \in Requests : reqPc[r] \in {"deleteRow", "deleted"} => reqInv[r] \notin objects

DeletedRowIsGone ==
  \A r \in Requests : reqPc[r] = "deleted" => ~RowExists(reqInv[r])

\* A DELETE of i is past its storage delete.
PastFile(i) ==
  \E d \in Requests :
    reqInv[d] = i /\ reqPc[d] \in {"deleteRow", "half", "deleted", "gone"}

\* An object in the store was put by its upload and not taken back by it.
ObjectsWerePut ==
  \A i \in objects : upload[i] \notin {"idle", "rejected", "rolledBack"}

MissingObjectExplained ==
  \A i \in Invoices \ objects :
    upload[i] \in {"idle", "rejected", "rolledBack"} \/ PastFile(i)

\* The inductive strengthening of the four invariants.
StoreInv ==
  /\ TypeOK
  /\ RowsWereCreated
  /\ RequestsFoundRow
  /\ FileGoneFirst
  /\ DeletedRowIsGone
  /\ MissingObjectExplained
  /\ ObjectsWerePut
  /\ NoOrphanObject
  /\ NoDanglingRow
  /\ FileMissingOnlyAfterDelete
-----------------------------------------------------------------------------
(* Proof of the strengthening. *)

LEMMA InitStoreInv == Init => StoreInv
<1> SUFFICES ASSUME Init PROVE StoreInv
  OBVIOUS
<1>1. TypeOK
  BY InitTypeOK
<1> QED
  BY <1>1 DEF Init, StoreInv, RowsWereCreated, RequestsFoundRow, FileGoneFirst, DeletedRowIsGone,
            MissingObjectExplained, ObjectsWerePut, NoOrphanObject, NoDanglingRow,
            FileMissingOnlyAfterDelete, HadRow, PastFile, RowExists

\* What StoreInv is about: a step that leaves all this alone preserves it.
StoreUnchanged ==
  /\ UNCHANGED <<users, objects, upload, reqPc, reqInv>>
  /\ \A i \in Invoices : (ocrStatus'[i] = "ABSENT") <=> (ocrStatus[i] = "ABSENT")

LEMMA StoreFrame ==
  ASSUME StoreInv, TypeOK', StoreUnchanged
  PROVE  StoreInv'
<1> USE DEF StoreInv, StoreUnchanged, TypeOK
<1>1. RowsWereCreated'
  BY DEF RowsWereCreated, HadRow, RowExists
<1>2. RequestsFoundRow'
  BY DEF RequestsFoundRow, HadRow
<1>3. FileGoneFirst'
  BY DEF FileGoneFirst
<1>4. DeletedRowIsGone'
  BY DEF DeletedRowIsGone, RequestsFoundRow, RowExists
<1>5. MissingObjectExplained'
  BY DEF MissingObjectExplained, PastFile
<1>6. NoOrphanObject'
  BY DEF NoOrphanObject, RowExists
<1>7. NoDanglingRow'
  BY DEF NoDanglingRow, RowExists
<1>8. FileMissingOnlyAfterDelete'
  BY DEF FileMissingOnlyAfterDelete
<1>9. ObjectsWerePut'
  BY DEF ObjectsWerePut
<1> QED
  BY <1>1, <1>2, <1>3, <1>4, <1>5, <1>6, <1>7, <1>8, <1>9

\* The queue and the OCR processor neither create nor delete rows or objects.
LEMMA WorkersKeepStore ==
  ASSUME TypeOK, QueueNext \/ ProcessorNext
  PROVE  StoreUnchanged
<1> USE DEF TypeOK, rowVars, queueVars, workerVars, reqVars, StoreUnchanged
<1>1. ASSUME QueueNext
      PROVE  StoreUnchanged
  BY <1>1 DEF QueueNext, Fetch, Ack, ExpireLock, LoseLock, Stall
<1>2. ASSUME NEW w \in Workers, ProcessStep(w)
      PROVE  StoreUnchanged
  BY <1>2 DEF ProcessStep, MarkProcessing, ReadFile, Extract, StillThere, DupCheck,
              Complete, Catch, UpdateStatus, RowExists
<1>3. ASSUME NEW w \in Workers, WorkerCrash(w)
      PROVE  StoreUnchanged
  BY <1>3 DEF WorkerCrash
<1> QED
  BY <1>1, <1>2, <1>3 DEF ProcessorNext

\* fileStorage.put.
LEMMA PutStore ==
  ASSUME StoreInv, TypeOK', NEW i \in Invoices, Put(i)
  PROVE  StoreInv'
<1> USE DEF StoreInv, TypeOK, Put, rowVars, reqVars
<1>1. RowsWereCreated'
  BY DEF RowsWereCreated, HadRow, RowExists
<1>2. RequestsFoundRow'
  BY DEF RequestsFoundRow, HadRow
<1>3. FileGoneFirst'
  BY DEF FileGoneFirst, RequestsFoundRow, HadRow
<1>4. DeletedRowIsGone'
  BY DEF DeletedRowIsGone, RequestsFoundRow, RowExists
<1>5. MissingObjectExplained'
  BY DEF MissingObjectExplained, PastFile
<1>6. NoOrphanObject'
  BY DEF NoOrphanObject, RowExists
<1>7. NoDanglingRow'
  BY DEF NoDanglingRow, RowExists
<1>8. FileMissingOnlyAfterDelete'
  BY DEF FileMissingOnlyAfterDelete, RequestsFoundRow, HadRow
<1>9. ObjectsWerePut'
  BY DEF ObjectsWerePut
<1> QED
  BY <1>1, <1>2, <1>3, <1>4, <1>5, <1>6, <1>7, <1>8, <1>9

\* prisma.invoice.create: the object is there, and no request knows the receipt yet.
LEMMA CreateStore ==
  ASSUME StoreInv, TypeOK', NEW i \in Invoices, Create(i)
  PROVE  StoreInv'
<1> USE DEF StoreInv, TypeOK, Create, rowVars, reqVars
<1>1. RowsWereCreated'
  BY DEF RowsWereCreated, HadRow, RowExists
<1>2. RequestsFoundRow'
  BY DEF RequestsFoundRow, HadRow
<1>3. FileGoneFirst'
  BY DEF FileGoneFirst
<1>4. DeletedRowIsGone'
  BY DEF DeletedRowIsGone, RequestsFoundRow, RowExists, HadRow
<1>5. MissingObjectExplained'
  BY DEF MissingObjectExplained, PastFile, RequestsFoundRow, HadRow
<1>6. NoOrphanObject'
  BY DEF NoOrphanObject, RowExists
<1>7. NoDanglingRow'
  BY DEF NoDanglingRow, RowExists, MissingObjectExplained, PastFile, RequestsFoundRow, HadRow
<1>8. FileMissingOnlyAfterDelete'
  BY DEF FileMissingOnlyAfterDelete, RequestsFoundRow, HadRow
<1>9. ObjectsWerePut'
  BY DEF ObjectsWerePut
<1> QED
  BY <1>1, <1>2, <1>3, <1>4, <1>5, <1>6, <1>7, <1>8, <1>9

\* The compensating delete: it can meet a row only after a lost reply.
LEMMA RollbackStore ==
  ASSUME StoreInv, TypeOK', NEW i \in Invoices, Rollback(i)
  PROVE  StoreInv'
<1> USE DEF StoreInv, TypeOK, Rollback, rowVars, reqVars
<1>1. RowsWereCreated'
  BY DEF RowsWereCreated, HadRow, RowExists
<1>2. RequestsFoundRow'
  BY DEF RequestsFoundRow, HadRow
<1>3. FileGoneFirst'
  BY DEF FileGoneFirst
<1>4. DeletedRowIsGone'
  BY DEF DeletedRowIsGone, RequestsFoundRow, RowExists
<1>5. MissingObjectExplained'
  BY DEF MissingObjectExplained, PastFile
<1>6. NoOrphanObject'
  BY DEF NoOrphanObject, RowExists
<1>7. NoDanglingRow'
  BY DEF NoDanglingRow, RowExists, RowsWereCreated, HadRow
<1>8. FileMissingOnlyAfterDelete'
  BY DEF FileMissingOnlyAfterDelete, RequestsFoundRow, HadRow
<1>9. ObjectsWerePut'
  BY DEF ObjectsWerePut
<1> QED
  BY <1>1, <1>2, <1>3, <1>4, <1>5, <1>6, <1>7, <1>8, <1>9

\* queue.add touches neither rows nor objects.
LEMMA EnqueueStore ==
  ASSUME StoreInv, TypeOK', NEW i \in Invoices, Enqueue(i)
  PROVE  StoreInv'
<1> USE DEF StoreInv, TypeOK, Enqueue, rowVars, reqVars
<1>1. RowsWereCreated'
  BY DEF RowsWereCreated, HadRow, RowExists
<1>2. RequestsFoundRow'
  BY DEF RequestsFoundRow, HadRow
<1>3. FileGoneFirst'
  BY DEF FileGoneFirst
<1>4. DeletedRowIsGone'
  BY DEF DeletedRowIsGone, RequestsFoundRow, RowExists
<1>5. MissingObjectExplained'
  BY DEF MissingObjectExplained, PastFile
<1>6. NoOrphanObject'
  BY DEF NoOrphanObject, RowExists
<1>7. NoDanglingRow'
  BY DEF NoDanglingRow, RowExists
<1>8. FileMissingOnlyAfterDelete'
  BY DEF FileMissingOnlyAfterDelete, RequestsFoundRow, HadRow
<1>9. ObjectsWerePut'
  BY DEF ObjectsWerePut
<1> QED
  BY <1>1, <1>2, <1>3, <1>4, <1>5, <1>6, <1>7, <1>8, <1>9

\* A request finds its row, which therefore was created.
LEMMA BeginStore ==
  ASSUME StoreInv, TypeOK', NEW r \in Requests, NEW i \in Invoices,
         NEW pc \in {"removeJob", "deleteFile", "patchWrite", "readFile"}, Begin(r, i, pc)
  PROVE  StoreInv'
<1> USE DEF StoreInv, TypeOK, Begin, GoTo, rowVars
<1>1. RowsWereCreated'
  BY DEF RowsWereCreated, HadRow, RowExists
<1>2. RequestsFoundRow'
  BY DEF RequestsFoundRow, HadRow, RowsWereCreated, RowExists
<1>3. FileGoneFirst'
  BY DEF FileGoneFirst
<1>4. DeletedRowIsGone'
  BY DEF DeletedRowIsGone, RequestsFoundRow, RowExists
<1>5. MissingObjectExplained'
  BY DEF MissingObjectExplained, PastFile
<1>6. NoOrphanObject'
  BY DEF NoOrphanObject, RowExists
<1>7. NoDanglingRow'
  BY DEF NoDanglingRow, RowExists
<1>8. FileMissingOnlyAfterDelete'
  BY DEF FileMissingOnlyAfterDelete
<1>9. ObjectsWerePut'
  BY DEF ObjectsWerePut
<1> QED
  BY <1>1, <1>2, <1>3, <1>4, <1>5, <1>6, <1>7, <1>8, <1>9

\* job.remove() touches neither rows nor objects.
LEMMA RemoveJobStore ==
  ASSUME StoreInv, TypeOK', NEW r \in Requests, RemoveJob(r)
  PROVE  StoreInv'
<1> USE DEF StoreInv, TypeOK, RemoveJob, GoTo, rowVars
<1>1. RowsWereCreated'
  BY DEF RowsWereCreated, HadRow, RowExists
<1>2. RequestsFoundRow'
  BY DEF RequestsFoundRow, HadRow
<1>3. FileGoneFirst'
  BY DEF FileGoneFirst
<1>4. DeletedRowIsGone'
  BY DEF DeletedRowIsGone, RequestsFoundRow, RowExists
<1>5. MissingObjectExplained'
  BY DEF MissingObjectExplained, PastFile
<1>6. NoOrphanObject'
  BY DEF NoOrphanObject, RowExists
<1>7. NoDanglingRow'
  BY DEF NoDanglingRow, RowExists
<1>8. FileMissingOnlyAfterDelete'
  BY DEF FileMissingOnlyAfterDelete
<1>9. ObjectsWerePut'
  BY DEF ObjectsWerePut
<1> QED
  BY <1>1, <1>2, <1>3, <1>4, <1>5, <1>6, <1>7, <1>8, <1>9

\* From here on the request itself explains the missing object.
LEMMA DeleteFileStore ==
  ASSUME StoreInv, TypeOK', NEW r \in Requests, DeleteFile(r)
  PROVE  StoreInv'
<1> USE DEF StoreInv, TypeOK, DeleteFile, GoTo, rowVars
<1>1. RowsWereCreated'
  BY DEF RowsWereCreated, HadRow, RowExists
<1>2. RequestsFoundRow'
  BY DEF RequestsFoundRow, HadRow
<1>3. FileGoneFirst'
  BY DEF FileGoneFirst
<1>4. DeletedRowIsGone'
  BY DEF DeletedRowIsGone, RequestsFoundRow, RowExists
<1>5. MissingObjectExplained'
  BY DEF MissingObjectExplained, PastFile
<1>6. NoOrphanObject'
  BY DEF NoOrphanObject, RowExists
<1>7. NoDanglingRow'
  BY DEF NoDanglingRow, RowExists
<1>8. FileMissingOnlyAfterDelete'
  BY DEF FileMissingOnlyAfterDelete
<1>9. ObjectsWerePut'
  BY DEF ObjectsWerePut
<1> QED
  BY <1>1, <1>2, <1>3, <1>4, <1>5, <1>6, <1>7, <1>8, <1>9

\* The object is gone before the row: no orphan.
LEMMA DeleteRowStore ==
  ASSUME StoreInv, TypeOK', NEW r \in Requests, DeleteRow(r)
  PROVE  StoreInv'
<1> DEFINE i == reqInv[r]
<1> USE DEF StoreInv, TypeOK
<1>1. /\ reqPc[r] = "deleteRow"
      /\ UNCHANGED <<users, objects, upload, reqInv>>
      /\ \E pc \in {"deleted", "gone", "half"} : reqPc' = [reqPc EXCEPT ![r] = pc]
  BY DEF DeleteRow, GoTo
<1>2. i \in Invoices \ objects
  BY <1>1 DEF RequestsFoundRow, FileGoneFirst
<1>3. \A j \in Invoices \ {i} : ocrStatus'[j] = ocrStatus[j]
  <2>1. CASE DeleteRows({i})
    BY <2>1 DEF DeleteRows
  <2>2. CASE UNCHANGED rowVars
    BY <2>2 DEF rowVars
  <2> QED
    BY <2>1, <2>2 DEF DeleteRow
<1>4. \/ ocrStatus'[i] = "ABSENT"
      \/ reqPc' = [reqPc EXCEPT ![r] = "half"] /\ ocrStatus' = ocrStatus
  BY <1>1, <1>2 DEF DeleteRow, DeleteRows, GoTo, rowVars, RowExists
<1>5. RowsWereCreated'
  BY <1>1, <1>3, <1>4 DEF RowsWereCreated, HadRow, RowExists
<1>6. RequestsFoundRow'
  BY <1>1 DEF RequestsFoundRow, HadRow
<1>7. FileGoneFirst'
  BY <1>1 DEF FileGoneFirst
<1>8. DeletedRowIsGone'
  BY <1>1, <1>3, <1>4 DEF DeletedRowIsGone, RequestsFoundRow, RowExists
<1>9. MissingObjectExplained'
  BY <1>1 DEF MissingObjectExplained, PastFile
<1>10. NoOrphanObject'
  BY <1>1, <1>2, <1>3 DEF NoOrphanObject, RowExists
<1>11. NoDanglingRow'
  BY <1>1, <1>3, <1>4 DEF NoDanglingRow, RowExists
<1>12. FileMissingOnlyAfterDelete'
  BY <1>1 DEF FileMissingOnlyAfterDelete
<1>13. ObjectsWerePut'
  BY <1>1 DEF ObjectsWerePut
<1> QED
  BY <1>5, <1>6, <1>7, <1>8, <1>9, <1>10, <1>11, <1>12, <1>13

\* An edit keeps the row.
LEMMA PatchWriteStore ==
  ASSUME StoreInv, TypeOK', NEW r \in Requests, PatchWrite(r)
  PROVE  StoreInv'
<1> USE DEF StoreInv, TypeOK, PatchWrite, GoTo, rowVars
<1>1. RowsWereCreated'
  BY DEF RowsWereCreated, HadRow, RowExists
<1>2. RequestsFoundRow'
  BY DEF RequestsFoundRow, HadRow
<1>3. FileGoneFirst'
  BY DEF FileGoneFirst
<1>4. DeletedRowIsGone'
  BY DEF DeletedRowIsGone, RequestsFoundRow, RowExists
<1>5. MissingObjectExplained'
  BY DEF MissingObjectExplained, PastFile
<1>6. NoOrphanObject'
  BY DEF NoOrphanObject, RowExists
<1>7. NoDanglingRow'
  BY DEF NoDanglingRow, RowExists
<1>8. FileMissingOnlyAfterDelete'
  BY DEF FileMissingOnlyAfterDelete
<1>9. ObjectsWerePut'
  BY DEF ObjectsWerePut
<1> QED
  BY <1>1, <1>2, <1>3, <1>4, <1>5, <1>6, <1>7, <1>8, <1>9

\* A file that is missing was deleted by another request.
LEMMA FileReadStore ==
  ASSUME StoreInv, TypeOK', NEW r \in Requests, FileRead(r)
  PROVE  StoreInv'
<1> USE DEF StoreInv, TypeOK, FileRead, GoTo, rowVars
<1>1. RowsWereCreated'
  BY DEF RowsWereCreated, HadRow, RowExists
<1>2. RequestsFoundRow'
  BY DEF RequestsFoundRow, HadRow
<1>3. FileGoneFirst'
  BY DEF FileGoneFirst
<1>4. DeletedRowIsGone'
  BY DEF DeletedRowIsGone, RequestsFoundRow, RowExists
<1>5. MissingObjectExplained'
  BY DEF MissingObjectExplained, PastFile
<1>6. NoOrphanObject'
  BY DEF NoOrphanObject, RowExists
<1>7. NoDanglingRow'
  BY DEF NoDanglingRow, RowExists
<1>8. FileMissingOnlyAfterDelete'
  BY DEF FileMissingOnlyAfterDelete, MissingObjectExplained, PastFile, RequestsFoundRow, HadRow, NoDanglingRow, RowExists
<1>9. ObjectsWerePut'
  BY DEF ObjectsWerePut
<1> QED
  BY <1>1, <1>2, <1>3, <1>4, <1>5, <1>6, <1>7, <1>8, <1>9

\* Only the rows of an account that is gone lose their objects.
LEMMA CleanupDemoUserStore ==
  ASSUME StoreInv, TypeOK', NEW u \in Users, CleanupDemoUser(u)
  PROVE  StoreInv'
<1> USE DEF StoreInv, TypeOK, CleanupDemoUser, DeleteRows, rowVars, reqVars
<1>1. RowsWereCreated'
  BY DEF RowsWereCreated, HadRow, RowExists
<1>2. RequestsFoundRow'
  BY DEF RequestsFoundRow, HadRow
<1>3. FileGoneFirst'
  BY DEF FileGoneFirst
<1>4. DeletedRowIsGone'
  BY DEF DeletedRowIsGone, RequestsFoundRow, RowExists
<1>5. MissingObjectExplained'
  BY DEF MissingObjectExplained, PastFile
<1>6. NoOrphanObject'
  BY DEF NoOrphanObject, RowExists, RowsWereCreated, HadRow, ObjectsWerePut, UploadPcs
<1>7. NoDanglingRow'
  BY DEF NoDanglingRow, RowExists
<1>8. FileMissingOnlyAfterDelete'
  BY DEF FileMissingOnlyAfterDelete
<1>9. ObjectsWerePut'
  BY DEF ObjectsWerePut
<1> QED
  BY <1>1, <1>2, <1>3, <1>4, <1>5, <1>6, <1>7, <1>8, <1>9

\* Every step preserves StoreInv: one lemma per service action, and the frame
\* for the queue and the processor.
LEMMA NextStoreInv == StoreInv /\ [Next]_vars => StoreInv'
<1> SUFFICES ASSUME StoreInv, [Next]_vars
             PROVE  StoreInv'
  OBVIOUS
<1>1. TypeOK /\ TypeOK'
  BY TypeOKStep DEF StoreInv
<1>2. ASSUME NEW i \in Invoices, UploadStep(i)
      PROVE  StoreInv'
  BY <1>1, <1>2, PutStore, CreateStore, RollbackStore, EnqueueStore DEF UploadStep
<1>3. ASSUME NEW r \in Requests, NEW i \in Invoices,
             DeleteFind(r, i) \/ PatchFind(r, i) \/ FileFind(r, i)
      PROVE  StoreInv'
  <2>1. \E pc \in {"removeJob", "deleteFile", "patchWrite", "readFile"} : Begin(r, i, pc)
    BY <1>3 DEF DeleteFind, PatchFind, FileFind
  <2> QED
    BY <1>1, <2>1, BeginStore
<1>4. ASSUME NEW r \in Requests, RequestStep(r)
      PROVE  StoreInv'
  BY <1>1, <1>4, RemoveJobStore, DeleteFileStore, DeleteRowStore, PatchWriteStore,
     FileReadStore DEF RequestStep
<1>5. ASSUME NEW u \in Users, CleanupDemoUser(u)
      PROVE  StoreInv'
  BY <1>1, <1>5, CleanupDemoUserStore
<1>6. CASE QueueNext \/ ProcessorNext
  BY <1>1, <1>6, WorkersKeepStore, StoreFrame
<1>7. CASE UNCHANGED vars
  <2>1. StoreUnchanged
    BY <1>7 DEF StoreUnchanged, vars, rowVars, reqVars
  <2> QED
    BY <1>1, <2>1, StoreFrame
<1> QED
  BY <1>2, <1>3, <1>4, <1>5, <1>6, <1>7 DEF Next, ServiceNext

LEMMA StoreInvariant == Spec => []StoreInv
BY InitStoreInv, NextStoreInv, PTL DEF Spec

-----------------------------------------------------------------------------
(* The theorems. *)

\* No request separates a stored receipt from its row (enqueueUpload, remove).
THEOREM OrphanFreedom == Spec => []NoOrphanObject
<1>1. StoreInv => NoOrphanObject
  BY DEF StoreInv
<1> QED
  BY <1>1, StoreInvariant, PTL

\* A row has its file, except in the middle of a DELETE or after one that failed
\* there, or after a create whose success was reported as an error (remove,
\* enqueueUpload).
THEOREM RowsHaveFiles == Spec => []NoDanglingRow
<1>1. StoreInv => NoDanglingRow
  BY DEF StoreInv
<1> QED
  BY <1>1, StoreInvariant, PTL

\* Only a DELETE of the same receipt makes getInvoiceFile miss the file.
THEOREM MissingFilesAreDeleted == Spec => []FileMissingOnlyAfterDelete
<1>1. StoreInv => FileMissingOnlyAfterDelete
  BY DEF StoreInv
<1> QED
  BY <1>1, StoreInvariant, PTL

\* After a DELETE has answered 204 neither row nor object exists, for good.
THEOREM DeletionIsComplete == Spec => []DeletedLeavesNothing
<1>1. StoreInv => DeletedLeavesNothing
  BY DEF StoreInv, FileGoneFirst, DeletedRowIsGone, DeletedLeavesNothing
<1> QED
  BY <1>1, StoreInvariant, PTL
=============================================================================
