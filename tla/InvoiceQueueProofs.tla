------------------------- MODULE InvoiceQueueProofs -------------------------
(***************************************************************************)
(* Job, lock, worker and status of a receipt agree until the queue delivers *)
(* its job a second time.  From this follow InProgressHasDriver,            *)
(* TerminalIsFinal, EditsSurvive and EditsAfterOcr for every value of the   *)
(* constants, and that InvoiceSystem implements InvoiceLifecycle when       *)
(* nothing is delivered twice and no reply is lost.                         *)
(***************************************************************************)
EXTENDS InvoiceSystemProofs

\* The upload of i has got as far as queue.add.
Queued(i) == upload[i] \in {"accepted", "unqueued"}

\* Worker w runs process() for i.
Runs(w, i) == workerInv[w] = i

\* The job of i has been delivered once at most.
OneDelivery(i) == stalled[i] = 0

WorkersRunInvoices ==
  \A w \in Workers : workerPc[w] = "idle" <=> workerInv[w] = NoInvoice

\* Before its upload gets to queue.add a receipt has no job and no worker.
NothingBeforeQueue ==
  \A i \in Invoices :
    ~Queued(i) =>
      /\ job[i] = "none"
      /\ \A w \in Workers : ~Runs(w, i)
      /\ ocrStatus[i] \in {"ABSENT", "PENDING"}
      /\ upload[i] \in {"idle", "create", "rejected"} => ~RowExists(i)

LockedIsActive == \A i \in Invoices : lock[i] # NoWorker => job[i] = "active"

\* Within one delivery one worker at most runs a job, which stays active unless
\* the worker lost the lock and a DELETE removed the job.
OneRunner ==
  \A i \in Invoices, w \in Workers :
    OneDelivery(i) /\ Runs(w, i) =>
      /\ job[i] \in {"active", "none"}
      /\ lock[i] \in {w, NoWorker}
      /\ \A v \in Workers : Runs(v, i) => v = w

\* What the row of i can say while process() is at pc.
StatusAt(pc) ==
  CASE pc = "markProcessing" -> {"PENDING"}
    [] pc \in {"readFile", "extract", "stillThere", "dupCheck", "complete"} -> {"PROCESSING"}
    [] pc = "catch" -> {"PROCESSING"} \cup
                         (IF "lostReply" \in Faults THEN {"COMPLETED", "DUPLICATE"} ELSE {})
    [] pc = "returned" -> Terminal
    [] OTHER -> Statuses

StatusFollowsRun ==
  \A i \in Invoices, w \in Workers :
    OneDelivery(i) /\ Runs(w, i) /\ RowExists(i) => ocrStatus[i] \in StatusAt(workerPc[w])

StatusFollowsJob ==
  \A i \in Invoices :
    OneDelivery(i) /\ RowExists(i) =>
      /\ job[i] = "waiting" => ocrStatus[i] = "PENDING"
      /\ job[i] = "completed" => ocrStatus[i] \in Terminal

EditsAreSettled ==
  \A i \in Invoices :
    OneDelivery(i) /\ edited[i] => ocrStatus[i] \in {"COMPLETED", "FAILED"}

PatchIsSettled ==
  \A r \in Requests :
    reqPc[r] = "patchWrite" =>
      /\ reqInv[r] \in Invoices /\ Queued(reqInv[r])
      /\ OneDelivery(reqInv[r]) =>
           ocrStatus[reqInv[r]] \in {"COMPLETED", "FAILED", "ABSENT"}

\* A row whose job is gone has a DELETE that removed it and is still under way
\* or has failed.
RemovedByDelete ==
  \A i \in Invoices :
    upload[i] = "accepted" /\ job[i] = "none" /\ RowExists(i) =>
      \E r \in Requests :
        reqInv[r] = i /\ reqPc[r] \in {"deleteFile", "deleteRow", "aborted", "half"}

\* The inductive strengthening.
QueueInv ==
  /\ TypeOK
  /\ WorkersRunInvoices
  /\ NothingBeforeQueue
  /\ LockedIsActive
  /\ OneRunner
  /\ StatusFollowsRun
  /\ StatusFollowsJob
  /\ EditsAreSettled
  /\ PatchIsSettled
  /\ RemovedByDelete

-----------------------------------------------------------------------------
(* Proof of the strengthening. *)

LEMMA InitQueueInv == Init => QueueInv
<1> SUFFICES ASSUME Init PROVE QueueInv
  OBVIOUS
<1>1. TypeOK
  BY InitTypeOK
<1> QED
  BY <1>1, WorkerAssumption
     DEF Init, QueueInv, WorkersRunInvoices, NothingBeforeQueue, LockedIsActive, OneRunner,
         StatusFollowsRun, StatusFollowsJob, EditsAreSettled, PatchIsSettled,
         RemovedByDelete, Queued, Runs, RowExists

\* enqueueUpload.
LEMMA UploadQueue ==
  ASSUME QueueInv, TypeOK', NEW i \in Invoices, UploadStep(i)
  PROVE  QueueInv'
<1> USE DEF QueueInv, TypeOK, Queued, Runs, OneDelivery, UploadStep, Put, Create, Rollback, Enqueue, rowVars, workerVars, reqVars, queueVars
<1>1. WorkersRunInvoices'
  BY DEF WorkersRunInvoices
<1>2. NothingBeforeQueue'
  BY DEF NothingBeforeQueue, RowExists
<1>3. LockedIsActive'
  BY DEF LockedIsActive, NothingBeforeQueue
<1>4. OneRunner'
  BY DEF OneRunner, NothingBeforeQueue, LockedIsActive, WorkersRunInvoices
<1>5. StatusFollowsRun'
  BY DEF StatusFollowsRun, NothingBeforeQueue, RowExists
<1>6. StatusFollowsJob'
  BY DEF StatusFollowsJob, NothingBeforeQueue, RowExists
<1>7. EditsAreSettled'
  BY DEF EditsAreSettled, NothingBeforeQueue
<1>8. PatchIsSettled'
  BY DEF PatchIsSettled, NothingBeforeQueue
<1>9. RemovedByDelete'
  BY DEF RemovedByDelete, NothingBeforeQueue, RowExists
<1> QED
  BY <1>1, <1>2, <1>3, <1>4, <1>5, <1>6, <1>7, <1>8, <1>9

\* The findFirst of remove, update and getInvoiceFile.
LEMMA FindQueue ==
  ASSUME QueueInv, TypeOK', NEW r \in Requests, NEW i \in Invoices,
         DeleteFind(r, i) \/ PatchFind(r, i) \/ FileFind(r, i)
  PROVE  QueueInv'
<1> USE DEF QueueInv, TypeOK, Queued, Runs, OneDelivery,
           DeleteFind, PatchFind, FileFind, Begin, GoTo, rowVars, workerVars, reqVars, queueVars
<1>1. WorkersRunInvoices'
  BY DEF WorkersRunInvoices
<1>2. NothingBeforeQueue'
  BY DEF NothingBeforeQueue, RowExists
<1>3. LockedIsActive'
  BY DEF LockedIsActive
<1>4. OneRunner'
  BY DEF OneRunner
<1>5. StatusFollowsRun'
  BY DEF StatusFollowsRun, RowExists
<1>6. StatusFollowsJob'
  BY DEF StatusFollowsJob, RowExists
<1>7. EditsAreSettled'
  BY DEF EditsAreSettled
<1>8. PatchIsSettled'
  BY DEF PatchIsSettled, NothingBeforeQueue
<1>9. RemovedByDelete'
  BY DEF RemovedByDelete, RowExists
<1> QED
  BY <1>1, <1>2, <1>3, <1>4, <1>5, <1>6, <1>7, <1>8, <1>9

\* job.remove().
LEMMA RemoveJobQueue ==
  ASSUME QueueInv, TypeOK', NEW r \in Requests, RemoveJob(r)
  PROVE  QueueInv'
<1> USE DEF QueueInv, TypeOK, Queued, Runs, OneDelivery, RemoveJob, GoTo,
           rowVars, workerVars
<1>1. WorkersRunInvoices'
  BY DEF WorkersRunInvoices
<1>2. NothingBeforeQueue'
  BY DEF NothingBeforeQueue, RowExists
<1>3. LockedIsActive'
  BY DEF LockedIsActive
<1>4. OneRunner'
  BY DEF OneRunner
<1>5. StatusFollowsRun'
  BY DEF StatusFollowsRun, RowExists
<1>6. StatusFollowsJob'
  BY DEF StatusFollowsJob, RowExists
<1>7. EditsAreSettled'
  BY DEF EditsAreSettled
<1>8. PatchIsSettled'
  BY DEF PatchIsSettled
<1>9. RemovedByDelete'
  BY DEF RemovedByDelete, RowExists
<1> QED
  BY <1>1, <1>2, <1>3, <1>4, <1>5, <1>6, <1>7, <1>8, <1>9

\* The steps of a request on the file.
LEMMA FileRequestQueue ==
  ASSUME QueueInv, TypeOK', NEW r \in Requests, DeleteFile(r) \/ FileRead(r)
  PROVE  QueueInv'
<1> USE DEF QueueInv, TypeOK, Queued, Runs, OneDelivery, DeleteFile, FileRead, GoTo,
           rowVars, workerVars, queueVars
<1>1. WorkersRunInvoices'
  BY DEF WorkersRunInvoices
<1>2. NothingBeforeQueue'
  BY DEF NothingBeforeQueue, RowExists
<1>3. LockedIsActive'
  BY DEF LockedIsActive
<1>4. OneRunner'
  BY DEF OneRunner
<1>5. StatusFollowsRun'
  BY DEF StatusFollowsRun, RowExists
<1>6. StatusFollowsJob'
  BY DEF StatusFollowsJob, RowExists
<1>7. EditsAreSettled'
  BY DEF EditsAreSettled
<1>8. PatchIsSettled'
  BY DEF PatchIsSettled
<1>9. RemovedByDelete'
  BY DEF RemovedByDelete, RowExists
<1> QED
  BY <1>1, <1>2, <1>3, <1>4, <1>5, <1>6, <1>7, <1>8, <1>9

\* The update of PATCH.
LEMMA PatchWriteQueue ==
  ASSUME QueueInv, TypeOK', NEW r \in Requests, PatchWrite(r)
  PROVE  QueueInv'
<1> USE DEF QueueInv, TypeOK, Queued, Runs, OneDelivery, PatchWrite, GoTo,
           workerVars, queueVars
<1>1. WorkersRunInvoices'
  BY DEF WorkersRunInvoices
<1>2. NothingBeforeQueue'
  BY DEF NothingBeforeQueue, RowExists
<1>3. LockedIsActive'
  BY DEF LockedIsActive
<1>4. OneRunner'
  BY DEF OneRunner
<1>5. StatusFollowsRun'
  BY DEF StatusFollowsRun, RowExists
<1>6. StatusFollowsJob'
  BY DEF StatusFollowsJob, RowExists
<1>7. EditsAreSettled'
  BY DEF EditsAreSettled, PatchIsSettled, RowExists
<1>8. PatchIsSettled'
  BY DEF PatchIsSettled
<1>9. RemovedByDelete'
  BY DEF RemovedByDelete, RowExists
<1> QED
  BY <1>1, <1>2, <1>3, <1>4, <1>5, <1>6, <1>7, <1>8, <1>9

\* A step that deletes rows, and does nothing else but end a DELETE whose row is
\* gone.
RowsOnlyGo ==
  /\ UNCHANGED <<upload, job, lock, stalled, workerPc, workerInv, reqInv>>
  /\ \A i \in Invoices :
       \/ ocrStatus'[i] = "ABSENT" /\ edited'[i] = FALSE
       \/ ocrStatus'[i] = ocrStatus[i] /\ edited'[i] = edited[i]
  /\ \A r \in Requests :
       reqPc'[r] # reqPc[r] =>
         /\ reqPc'[r] # "patchWrite"
         /\ \/ reqPc'[r] = "half"
            \/ reqInv[r] \in Invoices => ocrStatus'[reqInv[r]] = "ABSENT"

\* Deleting rows keeps what queue and processor rely on.
LEMMA RowsOnlyGoQueue ==
  ASSUME QueueInv, TypeOK', RowsOnlyGo
  PROVE  QueueInv'
<1> USE DEF QueueInv, TypeOK, Queued, Runs, OneDelivery, RowsOnlyGo
<1>1. WorkersRunInvoices'
  BY DEF WorkersRunInvoices
<1>2. NothingBeforeQueue'
  BY DEF NothingBeforeQueue, RowExists
<1>3. LockedIsActive'
  BY DEF LockedIsActive
<1>4. OneRunner'
  BY DEF OneRunner
<1>5. StatusFollowsRun'
  BY DEF StatusFollowsRun, RowExists
<1>6. StatusFollowsJob'
  BY DEF StatusFollowsJob, RowExists
<1>7. EditsAreSettled'
  BY DEF EditsAreSettled
<1>8. PatchIsSettled'
  BY DEF PatchIsSettled
<1>9. RemovedByDelete'
  BY DEF RemovedByDelete, RowExists
<1> QED
  BY <1>1, <1>2, <1>3, <1>4, <1>5, <1>6, <1>7, <1>8, <1>9

\* The delete of the row.
LEMMA DeleteRowQueue ==
  ASSUME QueueInv, TypeOK', NEW r \in Requests, DeleteRow(r)
  PROVE  QueueInv'
<1> USE DEF QueueInv, TypeOK
<1>1. RowsOnlyGo
  <2>1. \A q \in Requests :
          reqPc'[q] # reqPc[q] => q = r /\ reqPc'[r] \in {"deleted", "gone", "half"}
    BY DEF DeleteRow, GoTo
  <2>2. CASE DeleteRows({reqInv[r]})
    BY <2>1, <2>2 DEF RowsOnlyGo, DeleteRow, DeleteRows, queueVars, workerVars
  <2>3. CASE UNCHANGED rowVars /\ (reqPc'[r] = "half" \/ ~RowExists(reqInv[r]))
    BY <2>1, <2>3 DEF RowsOnlyGo, DeleteRow, RowExists, rowVars, queueVars, workerVars
  <2> QED
    BY <2>2, <2>3 DEF DeleteRow, GoTo
<1> QED
  BY <1>1, RowsOnlyGoQueue

\* The cleanup script.
LEMMA CleanupQueue ==
  ASSUME QueueInv, TypeOK', NEW u \in Users, CleanupDemoUser(u)
  PROVE  QueueInv'
<1>1. RowsOnlyGo
  BY DEF QueueInv, TypeOK, RowsOnlyGo, CleanupDemoUser, DeleteRows, queueVars, workerVars,
         reqVars
<1> QED
  BY <1>1, RowsOnlyGoQueue

\* A worker takes a job, for the first time or again.
LEMMA FetchQueue ==
  ASSUME QueueInv, TypeOK', NEW w \in Workers, NEW i \in Invoices, Fetch(w, i)
  PROVE  QueueInv'
<1> USE DEF QueueInv, TypeOK, Queued, Runs, OneDelivery, Fetch, rowVars, workerVars, reqVars, queueVars
<1>1. WorkersRunInvoices'
  BY WorkerAssumption DEF WorkersRunInvoices
<1>2. NothingBeforeQueue'
  BY DEF NothingBeforeQueue, RowExists
<1>3. LockedIsActive'
  BY WorkerAssumption DEF LockedIsActive, NothingBeforeQueue
<1>4. OneRunner'
  BY WorkerAssumption DEF OneRunner, WorkersRunInvoices, NothingBeforeQueue, LockedIsActive
<1>5. StatusFollowsRun'
  BY DEF StatusFollowsRun, RowExists, StatusFollowsJob, StatusAt
<1>6. StatusFollowsJob'
  BY DEF StatusFollowsJob, RowExists
<1>7. EditsAreSettled'
  BY DEF EditsAreSettled
<1>8. PatchIsSettled'
  BY DEF PatchIsSettled
<1>9. RemovedByDelete'
  BY DEF RemovedByDelete, RowExists
<1> QED
  BY <1>1, <1>2, <1>3, <1>4, <1>5, <1>6, <1>7, <1>8, <1>9

\* process() has ended.
LEMMA AckQueue ==
  ASSUME QueueInv, TypeOK', NEW w \in Workers, Ack(w)
  PROVE  QueueInv'
<1> USE DEF QueueInv, TypeOK, Queued, Runs, OneDelivery, Ack, rowVars, workerVars, reqVars, queueVars
<1>1. WorkersRunInvoices'
  BY WorkerAssumption DEF WorkersRunInvoices, NothingBeforeQueue
<1>2. NothingBeforeQueue'
  BY WorkerAssumption DEF NothingBeforeQueue, RowExists, WorkersRunInvoices
<1>3. LockedIsActive'
  BY WorkerAssumption DEF LockedIsActive, WorkersRunInvoices
<1>4. OneRunner'
  BY WorkerAssumption DEF OneRunner, WorkersRunInvoices, LockedIsActive
<1>5. StatusFollowsRun'
  BY WorkerAssumption DEF StatusFollowsRun, RowExists
<1>6. StatusFollowsJob'
  BY WorkerAssumption DEF StatusFollowsJob, RowExists, StatusFollowsRun, StatusAt, Terminal, WorkersRunInvoices
<1>7. EditsAreSettled'
  BY WorkerAssumption DEF EditsAreSettled
<1>8. PatchIsSettled'
  BY WorkerAssumption DEF PatchIsSettled
<1>9. RemovedByDelete'
  BY WorkerAssumption DEF RemovedByDelete, RowExists, WorkersRunInvoices
<1> QED
  BY <1>1, <1>2, <1>3, <1>4, <1>5, <1>6, <1>7, <1>8, <1>9

\* A lock runs out or is lost.
LEMMA LockQueue ==
  ASSUME QueueInv, TypeOK', NEW i \in Invoices, ExpireLock(i) \/ LoseLock(i)
  PROVE  QueueInv'
<1> USE DEF QueueInv, TypeOK, Queued, Runs, OneDelivery, ExpireLock, LoseLock, rowVars, workerVars, reqVars, queueVars
<1>1. WorkersRunInvoices'
  BY DEF WorkersRunInvoices
<1>2. NothingBeforeQueue'
  BY DEF NothingBeforeQueue, RowExists
<1>3. LockedIsActive'
  BY DEF LockedIsActive
<1>4. OneRunner'
  BY DEF OneRunner
<1>5. StatusFollowsRun'
  BY DEF StatusFollowsRun, RowExists
<1>6. StatusFollowsJob'
  BY DEF StatusFollowsJob, RowExists
<1>7. EditsAreSettled'
  BY DEF EditsAreSettled
<1>8. PatchIsSettled'
  BY DEF PatchIsSettled
<1>9. RemovedByDelete'
  BY DEF RemovedByDelete, RowExists
<1> QED
  BY <1>1, <1>2, <1>3, <1>4, <1>5, <1>6, <1>7, <1>8, <1>9

\* The stalled job checker: no more is said about the receipt.
LEMMA StallQueue ==
  ASSUME QueueInv, TypeOK', NEW i \in Invoices, Stall(i)
  PROVE  QueueInv'
<1> USE DEF QueueInv, TypeOK, Queued, Runs, OneDelivery, Stall, rowVars, workerVars, reqVars, queueVars
<1>1. WorkersRunInvoices'
  BY DEF WorkersRunInvoices
<1>2. NothingBeforeQueue'
  BY DEF NothingBeforeQueue, RowExists
<1>3. LockedIsActive'
  BY DEF LockedIsActive
<1>4. OneRunner'
  BY DEF OneRunner
<1>5. StatusFollowsRun'
  BY DEF StatusFollowsRun, RowExists
<1>6. StatusFollowsJob'
  BY DEF StatusFollowsJob, RowExists
<1>7. EditsAreSettled'
  BY DEF EditsAreSettled
<1>8. PatchIsSettled'
  BY DEF PatchIsSettled
<1>9. RemovedByDelete'
  BY DEF RemovedByDelete, RowExists
<1> QED
  BY <1>1, <1>2, <1>3, <1>4, <1>5, <1>6, <1>7, <1>8, <1>9

(* The OCR processor. *)

\* The steps of process() that only read.
LEMMA ReadingQueue ==
  ASSUME QueueInv, TypeOK', NEW w \in Workers,
         ReadFile(w) \/ Extract(w) \/ StillThere(w) \/ DupCheck(w)
  PROVE  QueueInv'
<1> USE DEF QueueInv, TypeOK, Queued, Runs, OneDelivery, ReadFile, Extract, StillThere, DupCheck,
           AtPc, StepTo, rowVars, queueVars, reqVars
<1>1. WorkersRunInvoices'
  BY DEF WorkersRunInvoices
<1>2. NothingBeforeQueue'
  BY DEF NothingBeforeQueue, RowExists
<1>3. LockedIsActive'
  BY DEF LockedIsActive
<1>4. OneRunner'
  BY DEF OneRunner
<1>5. StatusFollowsRun'
  BY DEF StatusFollowsRun, RowExists, StatusAt, OneRunner, Terminal
<1>6. StatusFollowsJob'
  BY DEF StatusFollowsJob, RowExists
<1>7. EditsAreSettled'
  BY DEF EditsAreSettled
<1>8. PatchIsSettled'
  BY DEF PatchIsSettled
<1>9. RemovedByDelete'
  BY DEF RemovedByDelete, RowExists
<1> QED
  BY <1>1, <1>2, <1>3, <1>4, <1>5, <1>6, <1>7, <1>8, <1>9

\* The update to PROCESSING.
LEMMA MarkProcessingQueue ==
  ASSUME QueueInv, TypeOK', NEW w \in Workers, MarkProcessing(w)
  PROVE  QueueInv'
<1> USE DEF QueueInv, TypeOK, Queued, Runs, OneDelivery, MarkProcessing, UpdateStatus, AtPc, StepTo,
           rowVars, queueVars, reqVars
<1>1. WorkersRunInvoices'
  BY DEF WorkersRunInvoices
<1>2. NothingBeforeQueue'
  BY DEF NothingBeforeQueue, RowExists
<1>3. LockedIsActive'
  BY DEF LockedIsActive
<1>4. OneRunner'
  BY DEF OneRunner
<1>5. StatusFollowsRun'
  BY DEF StatusFollowsRun, RowExists, StatusAt, OneRunner, Statuses
<1>6. StatusFollowsJob'
  BY DEF StatusFollowsJob, RowExists, OneRunner
<1>7. EditsAreSettled'
  BY DEF EditsAreSettled, StatusFollowsRun, StatusAt, RowExists
<1>8. PatchIsSettled'
  BY DEF PatchIsSettled, StatusFollowsRun, StatusAt, RowExists
<1>9. RemovedByDelete'
  BY DEF RemovedByDelete, RowExists
<1> QED
  BY <1>1, <1>2, <1>3, <1>4, <1>5, <1>6, <1>7, <1>8, <1>9

\* The update to COMPLETED or DUPLICATE.
LEMMA CompleteQueue ==
  ASSUME QueueInv, TypeOK', NEW w \in Workers, Complete(w)
  PROVE  QueueInv'
<1> USE DEF QueueInv, TypeOK, Queued, Runs, OneDelivery, Complete, UpdateStatus, AtPc, StepTo,
           rowVars, queueVars, reqVars
<1>1. WorkersRunInvoices'
  BY DEF WorkersRunInvoices
<1>2. NothingBeforeQueue'
  BY DEF NothingBeforeQueue, RowExists
<1>3. LockedIsActive'
  BY DEF LockedIsActive
<1>4. OneRunner'
  BY DEF OneRunner
<1>5. StatusFollowsRun'
  BY DEF StatusFollowsRun, RowExists, StatusAt, OneRunner, Terminal
<1>6. StatusFollowsJob'
  BY DEF StatusFollowsJob, RowExists, OneRunner
<1>7. EditsAreSettled'
  BY DEF EditsAreSettled, StatusFollowsRun, StatusAt, RowExists
<1>8. PatchIsSettled'
  BY DEF PatchIsSettled, StatusFollowsRun, StatusAt, RowExists
<1>9. RemovedByDelete'
  BY DEF RemovedByDelete, RowExists
<1> QED
  BY <1>1, <1>2, <1>3, <1>4, <1>5, <1>6, <1>7, <1>8, <1>9

\* The update to FAILED.
LEMMA CatchQueue ==
  ASSUME QueueInv, TypeOK', NEW w \in Workers, Catch(w)
  PROVE  QueueInv'
<1> USE DEF QueueInv, TypeOK, Queued, Runs, OneDelivery, Catch, UpdateStatus, AtPc, StepTo,
           rowVars, queueVars, reqVars
<1>1. WorkersRunInvoices'
  BY DEF WorkersRunInvoices
<1>2. NothingBeforeQueue'
  BY DEF NothingBeforeQueue, RowExists
<1>3. LockedIsActive'
  BY DEF LockedIsActive
<1>4. OneRunner'
  BY DEF OneRunner
<1>5. StatusFollowsRun'
  BY DEF StatusFollowsRun, RowExists, StatusAt, OneRunner, Terminal, Statuses
<1>6. StatusFollowsJob'
  BY DEF StatusFollowsJob, RowExists, OneRunner
<1>7. EditsAreSettled'
  BY DEF EditsAreSettled, StatusFollowsRun, StatusAt, RowExists
<1>8. PatchIsSettled'
  BY DEF PatchIsSettled, StatusFollowsRun, StatusAt, RowExists
<1>9. RemovedByDelete'
  BY DEF RemovedByDelete, RowExists
<1> QED
  BY <1>1, <1>2, <1>3, <1>4, <1>5, <1>6, <1>7, <1>8, <1>9

\* The server process dies.
LEMMA CrashQueue ==
  ASSUME QueueInv, TypeOK', NEW w \in Workers, WorkerCrash(w)
  PROVE  QueueInv'
<1> USE DEF QueueInv, TypeOK, Queued, Runs, OneDelivery, WorkerCrash, StepTo,
           rowVars, queueVars, reqVars
<1>1. WorkersRunInvoices'
  BY WorkerAssumption DEF WorkersRunInvoices
<1>2. NothingBeforeQueue'
  BY WorkerAssumption DEF NothingBeforeQueue, RowExists
<1>3. LockedIsActive'
  BY WorkerAssumption DEF LockedIsActive
<1>4. OneRunner'
  BY WorkerAssumption DEF OneRunner
<1>5. StatusFollowsRun'
  BY WorkerAssumption DEF StatusFollowsRun, RowExists
<1>6. StatusFollowsJob'
  BY WorkerAssumption DEF StatusFollowsJob, RowExists
<1>7. EditsAreSettled'
  BY WorkerAssumption DEF EditsAreSettled
<1>8. PatchIsSettled'
  BY WorkerAssumption DEF PatchIsSettled
<1>9. RemovedByDelete'
  BY WorkerAssumption DEF RemovedByDelete, RowExists
<1> QED
  BY <1>1, <1>2, <1>3, <1>4, <1>5, <1>6, <1>7, <1>8, <1>9

LEMMA ServiceQueueInv ==
  ASSUME QueueInv, TypeOK', ServiceNext
  PROVE  QueueInv'
<1>1. ASSUME NEW r \in Requests, RequestStep(r)
      PROVE  QueueInv'
  BY <1>1, RemoveJobQueue, FileRequestQueue, DeleteRowQueue, PatchWriteQueue
     DEF RequestStep
<1> QED
  BY <1>1, UploadQueue, FindQueue, CleanupQueue DEF ServiceNext

LEMMA ProcessorQueueInv ==
  ASSUME QueueInv, TypeOK', ProcessorNext
  PROVE  QueueInv'
BY ReadingQueue, MarkProcessingQueue, CompleteQueue, CatchQueue, CrashQueue
   DEF ProcessorNext, ProcessStep

LEMMA NextQueueInv == QueueInv /\ [Next]_vars => QueueInv'
<1> SUFFICES ASSUME QueueInv, [Next]_vars
             PROVE  QueueInv'
  OBVIOUS
<1>1. TypeOK'
  BY TypeOKStep DEF QueueInv
<1>2. CASE QueueNext
  BY <1>1, <1>2, FetchQueue, AckQueue, LockQueue, StallQueue DEF QueueNext
<1>3. CASE UNCHANGED vars
  <2>1. RowsOnlyGo
    BY <1>3 DEF RowsOnlyGo, vars, rowVars, queueVars, workerVars, reqVars
  <2> QED
    BY <1>1, <2>1, RowsOnlyGoQueue
<1> QED
  BY <1>1, <1>2, <1>3, ServiceQueueInv, ProcessorQueueInv DEF Next

LEMMA QueueInvariant == Spec => []QueueInv
BY InitQueueInv, NextQueueInv, PTL DEF Spec

-----------------------------------------------------------------------------
(* What follows from it. *)

\* A row that says PENDING or PROCESSING will be moved on by somebody, or one of
\* the failures listed has happened (all components).
THEOREM ProgressHasDriver == Spec => []InProgressHasDriver
<1>1. QueueInv => InProgressHasDriver
  <2> SUFFICES ASSUME QueueInv, NEW i \in Invoices, ocrStatus[i] \in InProgress
               PROVE  \/ Driven(i)
                      \/ LostItsJob(i)
                      \/ job[i] = "failed"
                      \/ job[i] = "completed" /\ stalled[i] > 0
    BY DEF InProgressHasDriver
  <2> USE DEF QueueInv, TypeOK
  <2>1. RowExists(i)
    BY DEF InProgress, RowExists
  <2>2. upload[i] \in {"enqueue", "rollback", "rolledBack", "leaked", "accepted", "unqueued"}
    BY <2>1 DEF NothingBeforeQueue, Queued, UploadPcs
  <2>3. CASE job[i] = "none"
    BY <2>1, <2>2, <2>3 DEF RemovedByDelete, Driven, LostItsJob
  <2>4. CASE job[i] = "completed"
    BY <2>1, <2>4 DEF StatusFollowsJob, OneDelivery, Terminal, InProgress
  <2> QED
    BY <2>3, <2>4 DEF Driven
<1> QED
  BY <1>1, QueueInvariant, PTL

\* The steps that change the status of a row that exists and leave it there.
LEMMA StatusSteps ==
  ASSUME QueueInv, [Next]_vars, NEW i \in Invoices,
         RowExists(i), ocrStatus'[i] # ocrStatus[i], ocrStatus'[i] # "ABSENT"
  PROVE  \E w \in Workers :
           /\ Runs(w, i)
           /\ \/ MarkProcessing(w) /\ ocrStatus'[i] = "PROCESSING"
              \/ Complete(w) /\ ocrStatus'[i] \in {"COMPLETED", "DUPLICATE"}
              \/ Catch(w) /\ ocrStatus'[i] = "FAILED"
<1> USE DEF QueueInv, TypeOK
<1>1. ~UNCHANGED ocrStatus
  OBVIOUS
<1>2. ASSUME NEW j \in Invoices, Create(j)
      PROVE  FALSE
  BY <1>2 DEF Create, NothingBeforeQueue, Queued, RowExists
<1>3. ASSUME NEW S, DeleteRows(S)
      PROVE  FALSE
  BY <1>3 DEF DeleteRows
<1>4. ~ServiceNext
  BY <1>1, <1>2, <1>3
     DEF ServiceNext, UploadStep, Put, Rollback, Enqueue, DeleteFind, PatchFind, FileFind,
         Begin, RequestStep, RemoveJob, DeleteFile, DeleteRow, PatchWrite, FileRead,
         CleanupDemoUser, rowVars
<1>5. ~QueueNext /\ ~UNCHANGED vars
  BY <1>1 DEF QueueNext, Fetch, Ack, ExpireLock, LoseLock, Stall, vars, rowVars
<1>6. PICK w \in Workers : MarkProcessing(w) \/ Complete(w) \/ Catch(w)
  BY <1>1, <1>4, <1>5
     DEF Next, ProcessorNext, ProcessStep, ReadFile, Extract, StillThere, DupCheck,
         WorkerCrash, rowVars
<1> QED
  BY <1>6 DEF MarkProcessing, Complete, Catch, UpdateStatus, Runs, rowVars

\* Within one delivery only the catch block changes a final status.
LEMMA FinalStatusStep ==
  ASSUME QueueInv, [Next]_vars, NEW i \in Invoices,
         ocrStatus[i] \in Terminal, ocrStatus'[i] # ocrStatus[i],
         ocrStatus'[i] # "ABSENT", ~(stalled[i] > 0)
  PROVE  "lostReply" \in Faults /\ ocrStatus'[i] = "FAILED"
<1>1. RowExists(i) /\ OneDelivery(i)
  BY DEF RowExists, Terminal, OneDelivery, QueueInv, TypeOK
<1>2. PICK w \in Workers :
        /\ Runs(w, i)
        /\ \/ MarkProcessing(w) /\ ocrStatus'[i] = "PROCESSING"
           \/ Complete(w) /\ ocrStatus'[i] \in {"COMPLETED", "DUPLICATE"}
           \/ Catch(w) /\ ocrStatus'[i] = "FAILED"
  BY <1>1, StatusSteps
<1>3. ocrStatus[i] \in StatusAt(workerPc[w])
  BY <1>1, <1>2 DEF QueueInv, StatusFollowsRun
<1>4. workerPc[w] = "catch" /\ ocrStatus'[i] = "FAILED"
  BY <1>2, <1>3 DEF MarkProcessing, Complete, Catch, AtPc, StatusAt, Terminal
<1> QED
  BY <1>3, <1>4 DEF StatusAt, Terminal

\* A final status only gives way to a delete, to a worker that runs a job which
\* was delivered again, or to the catch block after an update that was reported
\* as failed (process, remove).
THEOREM FinalStatus == Spec => TerminalIsFinal
<1>1. QueueInv /\ [Next]_vars =>
        \A i \in Invoices :
          ocrStatus[i] \in Terminal /\ ocrStatus'[i] # ocrStatus[i] =>
            ocrStatus'[i] = "ABSENT" \/ Overwriting(i)
  <2> SUFFICES ASSUME QueueInv, [Next]_vars, NEW i \in Invoices,
                      ocrStatus[i] \in Terminal, ocrStatus'[i] # ocrStatus[i],
                      ocrStatus'[i] # "ABSENT"
               PROVE  Overwriting(i)
    OBVIOUS
  <2>1. RowExists(i)
    BY DEF RowExists, Terminal
  <2>2. PICK w \in Workers :
          /\ Runs(w, i)
          /\ \/ MarkProcessing(w) /\ ocrStatus'[i] = "PROCESSING"
             \/ Complete(w) /\ ocrStatus'[i] \in {"COMPLETED", "DUPLICATE"}
             \/ Catch(w) /\ ocrStatus'[i] = "FAILED"
    BY <2>1, StatusSteps
  <2>3. workerPc[w] \in {"markProcessing", "complete", "catch"} /\ workerInv[w] = i
    BY <2>2 DEF MarkProcessing, Complete, Catch, AtPc, Runs
  <2>4. CASE stalled[i] > 0
    BY <2>3, <2>4 DEF Overwriting
  <2>5. CASE ~(stalled[i] > 0)
    <3>1. "lostReply" \in Faults /\ ocrStatus'[i] = "FAILED"
      BY <2>5, FinalStatusStep
    <3>2. Catch(w)
      BY <2>2, <3>1
    <3> QED
      BY <2>3, <3>1, <3>2 DEF Catch, AtPc, Overwriting
  <2> QED
    BY <2>4, <2>5
<1> QED
  BY <1>1, QueueInvariant, PTL DEF Spec, TerminalIsFinal

\* Within one delivery OCR does not overwrite what a user has entered (update,
\* mark-complete).
THEOREM EditsAreKept == Spec => EditsSurvive
<1>1. QueueInv /\ [Next]_vars =>
        \A i \in Invoices :
          edited[i] /\ ~edited'[i] => ocrStatus'[i] = "ABSENT" \/ stalled[i] > 0
  <2> SUFFICES ASSUME QueueInv, [Next]_vars, NEW i \in Invoices,
                      edited[i], ~edited'[i], ~(stalled[i] > 0)
               PROVE  ocrStatus'[i] = "ABSENT"
    OBVIOUS
  <2> USE DEF QueueInv, TypeOK
  <2>1. OneDelivery(i) /\ ocrStatus[i] \in {"COMPLETED", "FAILED"}
    BY DEF OneDelivery, EditsAreSettled
  <2>2. ASSUME NEW S, DeleteRows(S)
        PROVE  ocrStatus'[i] = "ABSENT"
    BY <2>2 DEF DeleteRows
  <2>3. ASSUME NEW r \in Requests, PatchWrite(r)
        PROVE  FALSE
    BY <2>3 DEF PatchWrite
  <2>4. ASSUME NEW w \in Workers, Complete(w)
        PROVE  FALSE
    <3>1. Runs(w, i) /\ workerPc[w] = "complete"
      BY <2>4 DEF Complete, AtPc, Runs, rowVars
    <3> QED
      BY <2>1, <3>1 DEF StatusFollowsRun, StatusAt, RowExists
  <2>5. CASE ServiceNext
    BY <2>2, <2>3, <2>5
       DEF ServiceNext, UploadStep, Put, Create, Rollback, Enqueue, DeleteFind, PatchFind,
           FileFind, Begin, RequestStep, RemoveJob, DeleteFile, DeleteRow, FileRead,
           CleanupDemoUser, rowVars
  <2>6. ~QueueNext /\ ~UNCHANGED vars
    BY DEF QueueNext, Fetch, Ack, ExpireLock, LoseLock, Stall, vars, rowVars
  <2>7. ~ProcessorNext
    BY <2>4 DEF ProcessorNext, ProcessStep, MarkProcessing, ReadFile, Extract, StillThere,
                DupCheck, Catch, WorkerCrash, rowVars
  <2> QED
    BY <2>5, <2>6, <2>7 DEF Next
<1> QED
  BY <1>1, QueueInvariant, PTL DEF Spec, EditsSurvive

\* Within one delivery a PATCH changes a COMPLETED or FAILED row only, though its
\* check and its write are two steps (update).
THEOREM EditsComeAfterOcr == Spec => EditsAfterOcr
<1>1. QueueInv /\ [Next]_vars =>
        \A i \in Invoices :
          edited'[i] /\ (~edited[i] \/ taxKey'[i] # taxKey[i]) =>
            ocrStatus[i] \in {"COMPLETED", "FAILED"} \/ stalled[i] > 0
  <2> SUFFICES ASSUME QueueInv, [Next]_vars, NEW i \in Invoices, edited'[i],
                      ~edited[i] \/ taxKey'[i] # taxKey[i], ~(stalled[i] > 0)
               PROVE  ocrStatus[i] \in {"COMPLETED", "FAILED"}
    OBVIOUS
  <2> USE DEF QueueInv, TypeOK
  <2>1. OneDelivery(i)
    BY DEF OneDelivery
  <2>2. ASSUME NEW S, DeleteRows(S)
        PROVE  FALSE
    BY <2>2 DEF DeleteRows
  <2>3. ASSUME NEW w \in Workers, Complete(w)
        PROVE  FALSE
    BY <2>3 DEF Complete, rowVars
  <2>4. PICK r \in Requests : PatchWrite(r)
    BY <2>2, <2>3
       DEF Next, ServiceNext, UploadStep, Put, Create, Rollback, Enqueue, DeleteFind,
           PatchFind, FileFind, Begin, RequestStep, RemoveJob, DeleteFile, DeleteRow,
           FileRead, CleanupDemoUser, QueueNext, Fetch, Ack, ExpireLock, LoseLock, Stall,
           ProcessorNext, ProcessStep, MarkProcessing, ReadFile, Extract, StillThere,
           DupCheck, Catch, WorkerCrash, vars, rowVars
  <2>5. reqInv[r] = i /\ reqPc[r] = "patchWrite" /\ RowExists(i)
    BY <2>4 DEF PatchWrite
  <2> QED
    BY <2>1, <2>5 DEF PatchIsSettled, RowExists
<1> QED
  BY <1>1, QueueInvariant, PTL DEF Spec, EditsAfterOcr

-----------------------------------------------------------------------------
(* When nothing is delivered twice: StallBudget = 0. *)

\* A job is active exactly while the worker that holds its lock runs it.
NothingStalls ==
  /\ losses = 0
  /\ \A i \in Invoices :
       /\ stalled[i] = 0
       /\ job[i] = "active" => lock[i] # NoWorker
       /\ lock[i] # NoWorker => workerInv[lock[i]] = i

\* Without lost replies a row exists only if the code knows that it does.
RowsAreKnown ==
  \A i \in Invoices : RowExists(i) => upload[i] \in {"enqueue", "accepted", "unqueued"}
NoRedelivery == StallBudget = 0 /\ "lostReply" \notin Faults

LifecycleInv == QueueInv /\ NothingStalls /\ RowsAreKnown

LEMMA InitLifecycleInv == Init => LifecycleInv
<1> SUFFICES ASSUME Init PROVE LifecycleInv
  OBVIOUS
<1> QED
  BY InitQueueInv DEF Init, LifecycleInv, NothingStalls, RowsAreKnown, RowExists

\* No lock is lost, so the checker never finds a job it could deliver again.
LEMMA NextNothingStalls ==
  ASSUME NoRedelivery, LifecycleInv, [Next]_vars
  PROVE  NothingStalls'
<1> USE DEF LifecycleInv, QueueInv, TypeOK, NothingStalls, NoRedelivery
<1>1. CASE UNCHANGED <<job, lock, stalled, losses, workerInv>>
  BY <1>1
<1>2. ASSUME NEW i \in Invoices, Enqueue(i)
      PROVE  NothingStalls'
  BY <1>2 DEF Enqueue, workerVars
<1>3. ASSUME NEW r \in Requests, RemoveJob(r)
      PROVE  NothingStalls'
  BY <1>3 DEF RemoveJob, workerVars
<1>4. CASE ServiceNext
  BY <1>1, <1>2, <1>3, <1>4
     DEF ServiceNext, UploadStep, Put, Create, Rollback, DeleteFind, PatchFind, FileFind,
         Begin, RequestStep, DeleteFile, DeleteRow, PatchWrite, FileRead, CleanupDemoUser,
         queueVars, workerVars
<1>5. ASSUME NEW w \in Workers, NEW i \in Invoices, Fetch(w, i)
      PROVE  NothingStalls'
  BY <1>5, WorkerAssumption DEF Fetch, WorkersRunInvoices, LockedIsActive
<1>6. ASSUME NEW w \in Workers, Ack(w)
      PROVE  NothingStalls'
  BY <1>6, WorkerAssumption DEF Ack, WorkersRunInvoices, LockedIsActive
<1>7. ASSUME NEW i \in Invoices, ExpireLock(i) \/ LoseLock(i) \/ Stall(i)
      PROVE  FALSE
  BY <1>7, WorkerAssumption
     DEF ExpireLock, LoseLock, Stall, HolderRuns, WorkersRunInvoices
<1>8. CASE QueueNext
  BY <1>5, <1>6, <1>7, <1>8 DEF QueueNext
<1>9. ASSUME NEW w \in Workers, ProcessStep(w)
      PROVE  NothingStalls'
  BY <1>1, <1>9 DEF ProcessStep, MarkProcessing, ReadFile, Extract, StillThere, DupCheck,
                    Complete, Catch, queueVars
<1>10. ASSUME NEW w \in Workers, WorkerCrash(w)
       PROVE  FALSE
  BY <1>10 DEF WorkerCrash
<1>11. CASE UNCHANGED vars
  BY <1>1, <1>11 DEF vars, queueVars, workerVars
<1> QED
  BY <1>4, <1>8, <1>9, <1>10, <1>11 DEF Next, ProcessorNext

LEMMA NextRowsAreKnown ==
  ASSUME NoRedelivery, LifecycleInv, [Next]_vars
  PROVE  RowsAreKnown'
<1> USE DEF LifecycleInv, QueueInv, TypeOK, RowsAreKnown, RowExists, NoRedelivery
<1>1. CASE /\ UNCHANGED upload
           /\ \A i \in Invoices : ocrStatus[i] = "ABSENT" => ocrStatus'[i] = "ABSENT"
  BY <1>1
<1>2. ASSUME NEW i \in Invoices, UploadStep(i)
      PROVE  RowsAreKnown'
  BY <1>2 DEF UploadStep, Put, Create, Rollback, Enqueue, rowVars
<1>3. ASSUME NEW S, DeleteRows(S)
      PROVE  \A i \in Invoices : ocrStatus[i] = "ABSENT" => ocrStatus'[i] = "ABSENT"
  BY <1>3 DEF DeleteRows
<1>4. CASE ServiceNext
  BY <1>1, <1>2, <1>3, <1>4
     DEF ServiceNext, DeleteFind, PatchFind, FileFind, Begin, RequestStep, RemoveJob,
         DeleteFile, DeleteRow, PatchWrite, FileRead, CleanupDemoUser, rowVars
<1>5. CASE QueueNext
  BY <1>1, <1>5 DEF QueueNext, Fetch, Ack, ExpireLock, LoseLock, Stall, rowVars
<1>6. ASSUME NEW w \in Workers, ProcessStep(w) \/ WorkerCrash(w)
      PROVE  RowsAreKnown'
  BY <1>1, <1>6 DEF ProcessStep, MarkProcessing, ReadFile, Extract, StillThere, DupCheck,
                    Complete, Catch, WorkerCrash, UpdateStatus, rowVars
<1>7. CASE UNCHANGED vars
  BY <1>1, <1>7 DEF vars, rowVars
<1> QED
  BY <1>4, <1>5, <1>6, <1>7 DEF Next, ProcessorNext

-----------------------------------------------------------------------------
(* The refinement mapping. *)

LEMMA PhaseValue ==
  ASSUME NEW i \in Invoices
  PROVE  Phase(i) = IF RowExists(i) THEN ocrStatus[i]
                    ELSE IF upload[i] \in {"enqueue", "accepted", "unqueued"}
                           THEN "deleted" ELSE "none"
BY DEF Phase

LEMMA NewPhaseValue ==
  ASSUME NEW i \in Invoices
  PROVE  Phase(i)' = IF ocrStatus'[i] # "ABSENT" THEN ocrStatus'[i]
                     ELSE IF upload'[i] \in {"enqueue", "accepted", "unqueued"}
                            THEN "deleted" ELSE "none"
BY DEF Phase, RowExists

\* No phase changes, or one does.
LEMMA SamePhases ==
  ASSUME \A i \in Invoices : Phase(i)' = Phase(i)
  PROVE  UNCHANGED [i \in Invoices |-> Phase(i)]
OBVIOUS

LEMMA OnePhase ==
  ASSUME NEW i \in Invoices, \A j \in Invoices \ {i} : Phase(j)' = Phase(j)
  PROVE  [j \in Invoices |-> Phase(j)]' =
           [[j \in Invoices |-> Phase(j)] EXCEPT ![i] = Phase(i)']
OBVIOUS

\* The upload: the row that is created is the receipt that is submitted.
LEMMA UploadRefines ==
  ASSUME NoRedelivery, LifecycleInv, NEW i \in Invoices, UploadStep(i)
  PROVE  [Lifecycle!LifecycleNext]_([j \in Invoices |-> Phase(j)])
<1> USE DEF LifecycleInv, QueueInv, TypeOK, RowExists, NoRedelivery
<1>1. \A j \in Invoices \ {i} : Phase(j)' = Phase(j)
  BY PhaseValue, NewPhaseValue
     DEF UploadStep, Put, Create, Rollback, Enqueue, rowVars
<1>2. CASE Create(i) /\ ocrStatus'[i] = "PENDING"
  <2>1. Phase(i) = "none" /\ Phase(i)' = "PENDING"
    BY <1>2, PhaseValue, NewPhaseValue DEF Create, NothingBeforeQueue, Queued
  <2> QED
    BY <1>1, <2>1, OnePhase DEF Lifecycle!LifecycleNext, Lifecycle!Submit
<1>3. CASE ~(Create(i) /\ ocrStatus'[i] = "PENDING")
  <2>1. Phase(i)' = Phase(i)
    BY <1>3, PhaseValue, NewPhaseValue
       DEF UploadStep, Put, Create, Rollback, Enqueue, rowVars, NothingBeforeQueue, Queued,
           RowsAreKnown
  <2> QED
    BY <1>1, <2>1, SamePhases
<1> QED
  BY <1>2, <1>3

\* A step that deletes the rows of S, and leaves the uploads alone.
LEMMA DeleteRefines ==
  ASSUME LifecycleInv, NEW S, DeleteRows(S), UNCHANGED upload
  PROVE  [Lifecycle!LifecycleNext]_([j \in Invoices |-> Phase(j)])
<1> USE DEF LifecycleInv, QueueInv, TypeOK, RowExists
<1> DEFINE D == {i \in Invoices \cap S : RowExists(i)}
<1>1. \A i \in D : Phase(i) \in Lifecycle!Live /\ Phase(i)' = "deleted"
  BY PhaseValue, NewPhaseValue DEF DeleteRows, RowsAreKnown, Lifecycle!Live, Statuses
<1>2. \A i \in Invoices \ D : Phase(i)' = Phase(i)
  BY PhaseValue, NewPhaseValue DEF DeleteRows
<1>3. CASE D = {}
  BY <1>2, <1>3, SamePhases
<1>4. CASE D # {}
  <2>1. [i \in Invoices |-> Phase(i)]' =
          [i \in Invoices |-> IF i \in D THEN "deleted"
                              ELSE [j \in Invoices |-> Phase(j)][i]]
    BY <1>1, <1>2
  <2>2. Lifecycle!Delete(D)
    BY <1>1, <1>4, <2>1 DEF Lifecycle!Delete
  <2> QED
    BY <2>2 DEF Lifecycle!LifecycleNext
<1> QED
  BY <1>3, <1>4

\* The processor: the three updates of a row that exists.
LEMMA ProcessRefines ==
  ASSUME NoRedelivery, LifecycleInv, [Next]_vars, NEW w \in Workers, ProcessStep(w)
  PROVE  [Lifecycle!LifecycleNext]_([j \in Invoices |-> Phase(j)])
<1> USE DEF LifecycleInv, QueueInv, TypeOK, RowExists
<1>1. /\ UNCHANGED upload
      /\ \A j \in Invoices :
           /\ j # workerInv[w] => ocrStatus'[j] = ocrStatus[j]
           /\ ocrStatus'[j] = "ABSENT" <=> ocrStatus[j] = "ABSENT"
  BY DEF ProcessStep, MarkProcessing, ReadFile, Extract, StillThere, DupCheck, Complete,
         Catch, UpdateStatus, rowVars
<1>2. \A j \in Invoices : ocrStatus'[j] = ocrStatus[j] => Phase(j)' = Phase(j)
  BY <1>1, PhaseValue, NewPhaseValue
<1>3. CASE \A j \in Invoices : ocrStatus'[j] = ocrStatus[j]
  BY <1>2, <1>3, SamePhases
<1>4. ASSUME NEW i \in Invoices, ocrStatus'[i] # ocrStatus[i]
      PROVE  Lifecycle!LifecycleNext
  <2>1. i = workerInv[w] /\ ocrStatus[i] # "ABSENT" /\ ocrStatus'[i] # "ABSENT"
    BY <1>1, <1>4
  <2>2. /\ Phase(i) = ocrStatus[i]
        /\ Phase(i)' = ocrStatus'[i]
        /\ \A j \in Invoices \ {i} : Phase(j)' = Phase(j)
    BY <1>1, <1>2, <2>1, PhaseValue, NewPhaseValue
  <2>3. ocrStatus[i] \in StatusAt(workerPc[w])
    BY <2>1 DEF StatusFollowsRun, OneDelivery, NothingStalls, Runs
  <2>4. \/ ocrStatus[i] = "PENDING" /\ ocrStatus'[i] = "PROCESSING"
        \/ /\ ocrStatus[i] = "PROCESSING"
           /\ ocrStatus'[i] \in {"COMPLETED", "FAILED", "DUPLICATE"}
    BY <1>4, <2>1, <2>3
       DEF ProcessStep, MarkProcessing, ReadFile, Extract, StillThere, DupCheck, Complete,
           Catch, UpdateStatus, AtPc, StatusAt, NoRedelivery, rowVars
  <2>5. [j \in Invoices |-> Phase(j)]' =
          [[j \in Invoices |-> Phase(j)] EXCEPT ![i] = ocrStatus'[i]]
    BY <2>2, OnePhase
  <2>6. Lifecycle!StartOcr(i) \/ Lifecycle!FinishOcr(i)
    BY <2>2, <2>4, <2>5 DEF Lifecycle!StartOcr, Lifecycle!FinishOcr
  <2> QED
    BY <2>6 DEF Lifecycle!LifecycleNext
<1> QED
  BY <1>3, <1>4

LEMMA NextRefines ==
  ASSUME NoRedelivery, LifecycleInv, [Next]_vars
  PROVE  [Lifecycle!LifecycleNext]_([j \in Invoices |-> Phase(j)])
<1>1. CASE UNCHANGED <<ocrStatus, upload>>
  BY <1>1, SamePhases, PhaseValue, NewPhaseValue DEF RowExists
<1>2. CASE ServiceNext
  BY <1>1, <1>2, UploadRefines, DeleteRefines
     DEF ServiceNext, DeleteFind, PatchFind, FileFind, Begin, RequestStep, RemoveJob,
         DeleteFile, DeleteRow, PatchWrite, FileRead, CleanupDemoUser, rowVars
<1>3. CASE QueueNext
  BY <1>1, <1>3 DEF QueueNext, Fetch, Ack, ExpireLock, LoseLock, Stall, rowVars
<1>4. ASSUME NEW w \in Workers, WorkerCrash(w)
      PROVE  UNCHANGED <<ocrStatus, upload>>
  BY <1>4 DEF WorkerCrash, rowVars
<1>5. CASE UNCHANGED vars
  BY <1>1, <1>5 DEF vars, rowVars
<1> QED
  BY <1>1, <1>2, <1>3, <1>4, <1>5, ProcessRefines DEF Next, ProcessorNext

\* Whatever fails, as long as nothing is delivered twice and no reply is lost,
\* every behaviour of the pipeline is one of the promised life cycles (all
\* components).
THEOREM LifecycleRefinement ==
  ASSUME NoRedelivery
  PROVE  Spec => ImplementsLifecycle
<1>1. Init => Lifecycle!LifecycleInit
  <2> SUFFICES ASSUME Init PROVE Lifecycle!LifecycleInit
    OBVIOUS
  <2>1. \A i \in Invoices : Phase(i) = "none"
    BY PhaseValue DEF Init, RowExists
  <2> QED
    BY <2>1 DEF Lifecycle!LifecycleInit
<1>2. LifecycleInv /\ [Next]_vars => LifecycleInv'
  BY NextQueueInv, NextNothingStalls, NextRowsAreKnown DEF LifecycleInv
<1>3. LifecycleInv /\ [Next]_vars
        => [Lifecycle!LifecycleNext]_([i \in Invoices |-> Phase(i)])
  BY NextRefines
<1> QED
  <2>1. Spec => []LifecycleInv
    BY InitLifecycleInv, <1>2, PTL DEF Spec
  <2>2. Spec => [][Lifecycle!LifecycleNext]_([i \in Invoices |-> Phase(i)])
    BY <1>3, <2>1, PTL DEF Spec
  <2>3. Spec => Lifecycle!LifecycleInit
    BY <1>1, PTL DEF Spec
  <2> QED
    BY <2>2, <2>3, PTL DEF ImplementsLifecycle, Lifecycle!LifecycleSpec
=============================================================================
