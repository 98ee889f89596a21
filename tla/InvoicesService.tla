-------------------------- MODULE InvoicesService ---------------------------
(***************************************************************************)
(* src/invoices/invoices.service.ts: enqueueUpload, remove (DELETE), update *)
(* (PATCH) and getInvoiceFile, and the cleanup script that deletes the demo *)
(* account.  A step ends at each await, which is where other calls run.     *)
(* A request for a row that is not there, or not the caller's, ends with    *)
(* 404 and touches nothing: such requests stay "idle".                      *)
(***************************************************************************)
EXTENDS InvoiceState

-----------------------------------------------------------------------------
(* enqueueUpload *)

\* fileStorage.put.  The guard has loaded the account for this request.  A
\* failed put stores nothing, or leaves an object, whole or truncated.
Put(i) ==
  /\ upload[i] = "idle"
  /\ Owner[i] \in users
  /\ \/ /\ objects' = objects \cup {i}
        /\ upload' = [upload EXCEPT ![i] = "create"]
     \/ /\ "storage" \in Faults
        /\ upload' = [upload EXCEPT ![i] = "rejected"]
        /\ UNCHANGED objects
     \/ /\ "storage" \in Faults
        /\ objects' = objects \cup {i}
        /\ upload' = [upload EXCEPT ![i] = "leaked"]
  /\ UNCHANGED <<users, rowVars, queueVars, workerVars, reqVars>>

\* Mutated Create: a failed create is reported without undoing the put.
Create_NoRollback(i) ==
  /\ upload[i] = "create"
  /\ \/ /\ Owner[i] \in users
        /\ ocrStatus' = [ocrStatus EXCEPT ![i] = "PENDING"]
        /\ upload' = [upload EXCEPT ![i] = "enqueue"]
     \/ /\ Owner[i] \notin users \/ "database" \in Faults
        /\ upload' = [upload EXCEPT ![i] = "rejected"]
        /\ UNCHANGED ocrStatus
  /\ UNCHANGED <<users, taxKey, edited, objects, queueVars, workerVars, reqVars>>

\* prisma.invoice.create.  It fails when the account is gone (foreign key),
\* when the database is away, or after it took effect.
Create(i) ==
  /\ upload[i] = "create"
  /\ \/ /\ Owner[i] \in users
        /\ ocrStatus' = [ocrStatus EXCEPT ![i] = "PENDING"]
        /\ \/ upload' = [upload EXCEPT ![i] = "enqueue"]
           \/ /\ "lostReply" \in Faults
              /\ upload' = [upload EXCEPT ![i] = "rollback"]
     \/ /\ Owner[i] \notin users \/ "database" \in Faults
        /\ upload' = [upload EXCEPT ![i] = "rollback"]
        /\ UNCHANGED ocrStatus
     \/ /\ "crash" \in Faults
        /\ upload' = [upload EXCEPT ![i] = "leaked"]
        /\ UNCHANGED ocrStatus
  /\ UNCHANGED <<users, taxKey, edited, objects, queueVars, workerVars, reqVars>>

\* The catch block: fileStorage.delete(...).catch(() => undefined).
Rollback(i) ==
  /\ upload[i] = "rollback"
  /\ \/ /\ objects' = objects \ {i}
        /\ upload' = [upload EXCEPT ![i] = "rolledBack"]
     \/ /\ Faults \cap {"storage", "crash"} # {}
        /\ upload' = [upload EXCEPT ![i] = "leaked"]
        /\ UNCHANGED objects
  /\ UNCHANGED <<users, rowVars, queueVars, workerVars, reqVars>>

\* Mutated Enqueue: an error of queue.add is compensated like one of create.
Enqueue_Rollback(i) ==
  /\ upload[i] = "enqueue"
  /\ \/ /\ job' = [job EXCEPT ![i] = "waiting"]
        /\ upload' = [upload EXCEPT ![i] = "accepted"]
     \/ /\ Faults \cap {"redis", "crash"} # {}
        /\ upload' = [upload EXCEPT ![i] = "rollback"]
        /\ UNCHANGED job
  /\ UNCHANGED <<users, rowVars, objects, lock, stalled, losses, workerVars, reqVars>>

\* invoiceOcrQueue.add, outside the try: an error leaves the row as it is.
Enqueue(i) ==
  /\ upload[i] = "enqueue"
  /\ \/ /\ job' = [job EXCEPT ![i] = "waiting"]
        /\ \/ upload' = [upload EXCEPT ![i] = "accepted"]
           \/ /\ "lostReply" \in Faults
              /\ upload' = [upload EXCEPT ![i] = "unqueued"]
     \/ /\ Faults \cap {"redis", "crash"} # {}
        /\ upload' = [upload EXCEPT ![i] = "unqueued"]
        /\ UNCHANGED job
  /\ UNCHANGED <<users, rowVars, objects, lock, stalled, losses, workerVars, reqVars>>

-----------------------------------------------------------------------------
(* remove, update, getInvoiceFile: r is the request, i the invoice. *)

GoTo(r, pc) == reqPc' = [reqPc EXCEPT ![r] = pc]

\* findFirst({ id, userId }) of the three handlers finds the caller's row.
Begin(r, i, pc) ==
  /\ reqPc[r] = "idle"
  /\ RowExists(i)
  /\ GoTo(r, pc)
  /\ reqInv' = [reqInv EXCEPT ![r] = i]
  /\ UNCHANGED <<users, rowVars, objects, queueVars, upload, workerVars>>

\* Mutated DeleteFind: the storage delete is skipped unless OCR is under way.
DeleteFind_KeepFile(r, i) ==
  /\ "delete" \in Ops
  /\ Begin(r, i, IF ocrStatus[i] \in InProgress THEN "removeJob" ELSE "deleteRow")

\* remove skips the queue unless the row says OCR is not over.
DeleteFind(r, i) ==
  /\ "delete" \in Ops
  /\ Begin(r, i, IF ocrStatus[i] \in InProgress THEN "removeJob" ELSE "deleteFile")

\* getJob and job.remove(), which refuses a job that a worker has locked.
RemoveJob(r) ==
  LET i == reqInv[r]
  IN  /\ reqPc[r] = "removeJob"
      /\ \/ /\ lock[i] = NoWorker
            /\ job' = [job EXCEPT ![i] = "none"]
            /\ \/ GoTo(r, "deleteFile")
               \/ "lostReply" \in Faults /\ GoTo(r, "aborted")
         \/ /\ lock[i] # NoWorker \/ Faults \cap {"redis", "crash"} # {}
            /\ GoTo(r, "refused")
            /\ UNCHANGED job
      /\ UNCHANGED <<users, rowVars, objects, lock, stalled, losses, upload,
                     workerVars, reqInv>>

\* Mutated DeleteFile: a file that is not there ends the request.
DeleteFile_MissingIsError(r) ==
  /\ reqPc[r] = "deleteFile"
  /\ GoTo(r, IF reqInv[r] \in objects THEN "deleteRow" ELSE "aborted")
  /\ objects' = objects \ {reqInv[r]}
  /\ UNCHANGED <<users, rowVars, queueVars, upload, workerVars, reqInv>>

\* fileStorage.delete; a file that is not there is no error.
DeleteFile(r) ==
  LET i == reqInv[r]
  IN  /\ reqPc[r] = "deleteFile"
      /\ \/ /\ objects' = objects \ {i}
            /\ \/ GoTo(r, "deleteRow")
               \/ /\ "lostReply" \in Faults
                  /\ GoTo(r, "half")
         \/ /\ Faults \cap {"storage", "crash"} # {}
            /\ GoTo(r, "aborted")
            /\ UNCHANGED objects
      /\ UNCHANGED <<users, rowVars, queueVars, upload, workerVars, reqInv>>

\* prisma.invoice.delete; it throws P2025 when the row is already gone.
DeleteRow(r) ==
  LET i == reqInv[r]
  IN  /\ reqPc[r] = "deleteRow"
      /\ \/ /\ RowExists(i)
            /\ DeleteRows({i})
            /\ \/ GoTo(r, "deleted")
               \/ "lostReply" \in Faults /\ GoTo(r, "gone")
         \/ /\ ~RowExists(i)
            /\ GoTo(r, "gone")
            /\ UNCHANGED rowVars
         \/ /\ Faults \cap {"database", "crash"} # {}
            /\ GoTo(r, "half")
            /\ UNCHANGED rowVars
      /\ UNCHANGED <<users, objects, queueVars, upload, workerVars, reqInv>>

\* Mutated PatchFind: without the conditions on the status.
PatchFind_AnyStatus(r, i) ==
  /\ "patch" \in Ops
  /\ Begin(r, i, "patchWrite")

\* update: only a row whose OCR is over, and not a duplicate, passes.
PatchFind(r, i) ==
  /\ "patch" \in Ops
  /\ ocrStatus[i] \in {"COMPLETED", "FAILED"}
  /\ Begin(r, i, "patchWrite")

\* Mutated PatchWrite: an edit sends the receipt back to OCR.
PatchWrite_Reopen(r) ==
  LET i == reqInv[r]
  IN  /\ reqPc[r] = "patchWrite"
      /\ GoTo(r, "done")
      /\ RowExists(i)
      /\ ocrStatus' = [ocrStatus EXCEPT ![i] = "PENDING"]
      /\ UNCHANGED <<users, taxKey, edited, objects, queueVars, upload, workerVars,
                     reqInv>>

\* Mutated PatchWrite: an edit discards the file it was read from.
PatchWrite_DropsFile(r) ==
  LET i == reqInv[r]
  IN  /\ reqPc[r] = "patchWrite"
      /\ GoTo(r, "done")
      /\ RowExists(i)
      /\ edited' = [edited EXCEPT ![i] = TRUE]
      /\ objects' = objects \ {i}
      /\ UNCHANGED <<users, ocrStatus, taxKey, queueVars, upload, workerVars, reqInv>>

\* prisma.invoice.update where { id }, with no condition on the status.  The
\* body has an edit of either number of the pair (k), or of other fields only.
PatchWrite(r) ==
  LET i == reqInv[r]
  IN  /\ reqPc[r] = "patchWrite"
      /\ GoTo(r, "done")
      /\ \/ /\ RowExists(i)
            /\ \E k \in Keys \cup {NoKey} : taxKey' = [taxKey EXCEPT ![i] = k]
            /\ edited' = [edited EXCEPT ![i] = TRUE]
         \/ /\ ~RowExists(i) \/ Faults \cap {"database", "crash"} # {}
            /\ UNCHANGED <<taxKey, edited>>
      /\ UNCHANGED <<users, ocrStatus, objects, queueVars, upload, workerVars, reqInv>>

FileFind(r, i) ==
  /\ "getFile" \in Ops
  /\ Begin(r, i, "readFile")

\* fileStorage.get of the key the row held at FileFind; it may fail otherwise.
FileRead(r) ==
  /\ reqPc[r] = "readFile"
  /\ \/ GoTo(r, IF reqInv[r] \in objects THEN "done" ELSE "fileMissing")
     \/ "storage" \in Faults /\ GoTo(r, "done")
  /\ UNCHANGED <<users, rowVars, objects, queueVars, upload, workerVars, reqInv>>

-----------------------------------------------------------------------------
\* scripts/cleanup-demo-user.ts: one user.delete, and the schema cascades to
\* the rows.  Objects and jobs are not touched.
CleanupDemoUser(u) ==
  /\ u \in DemoUser \cap users
  /\ users' = users \ {u}
  /\ DeleteRows({i \in Invoices : Owner[i] = u})
  /\ UNCHANGED <<objects, queueVars, upload, workerVars, reqVars>>

UploadStep(i)  == Put(i) \/ Create(i) \/ Rollback(i) \/ Enqueue(i)
RequestStep(r) == RemoveJob(r) \/ DeleteFile(r) \/ DeleteRow(r)
                    \/ PatchWrite(r) \/ FileRead(r)

ServiceNext ==
  \/ \E i \in Invoices : UploadStep(i)
  \/ \E r \in Requests, i \in Invoices :
       DeleteFind(r, i) \/ PatchFind(r, i) \/ FileFind(r, i)
  \/ \E r \in Requests : RequestStep(r)
  \/ \E u \in Users : CleanupDemoUser(u)
=============================================================================
