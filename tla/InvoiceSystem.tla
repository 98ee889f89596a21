--------------------------- MODULE InvoiceSystem ----------------------------
(***************************************************************************)
(* The receipt pipeline: the upload, delete, edit and file calls of         *)
(* InvoicesService, the queue and the OCR processor, interleaved at their   *)
(* awaits, over one database, one object store and one queue; and what the  *)
(* pipeline must guarantee.                                                 *)
(***************************************************************************)
EXTENDS InvoicesService, OcrQueue, InvoiceOcrProcessor

Next == ServiceNext \/ QueueNext \/ ProcessorNext

Spec == Init /\ [][Next]_vars

\* A call that was begun goes on (the Node event loop), a worker polls the
\* queue, and BullMQ runs its stalled checker on a timer.  Nothing obliges a
\* client to send a request, an account to be removed or a worker to crash.
Fairness ==
  /\ \A i \in Invoices :
       /\ WF_vars(Create(i) \/ Rollback(i) \/ Enqueue(i))
       /\ WF_vars(ExpireLock(i))
       /\ WF_vars(Stall(i))
  /\ \A w \in Workers :
       /\ WF_vars(ProcessStep(w))
       /\ WF_vars(Ack(w))
       /\ \A i \in Invoices : WF_vars(Fetch(w, i))
  /\ \A r \in Requests : WF_vars(RequestStep(r))

-----------------------------------------------------------------------------
(* Database and object store. *)

\* An object in the store has its row, except while its upload is running or
\* when that was cut short (put or the compensating delete failed, the process
\* died), or when the cleanup script took the row with the account: no request
\* ever separates a stored receipt from its row, and an upload whose account is
\* removed before its row is created leaves nothing (enqueueUpload, remove).
NoOrphanObject ==
  \A i \in objects :
    \/ RowExists(i)
    \/ upload[i] \in {"create", "rollback", "leaked"}
    \/ Owner[i] \notin users /\ upload[i] \in {"enqueue", "accepted", "unqueued"}

\* A row has its object, except between the two deletes of a DELETE or after a
\* DELETE failed there (remove), and except when the row was created although
\* the database reported an error (enqueueUpload's compensation).
NoDanglingRow ==
  \A i \in Invoices \ objects :
    RowExists(i) =>
      \/ \E r \in Requests : reqInv[r] = i /\ reqPc[r] \in {"deleteRow", "half"}
      \/ upload[i] = "rolledBack" /\ "lostReply" \in Faults

\* A file request that found the row but not the file (getInvoiceFile) raced a
\* DELETE of the same receipt that is past its storage delete; no other call
\* makes a listed receipt unreadable.
FileMissingOnlyAfterDelete ==
  \A r \in Requests :
    reqPc[r] = "fileMissing" =>
      \/ \E d \in Requests \ {r} :
           reqInv[d] = reqInv[r] /\ reqPc[d] \in {"deleteRow", "half", "deleted", "gone"}
      \/ upload[reqInv[r]] = "rolledBack" /\ "lostReply" \in Faults

\* Once a DELETE has answered 204 nothing of the receipt is left, whatever the
\* upload, the worker or other requests were doing and still do (remove).
DeletedLeavesNothing ==
  \A r \in Requests :
    reqPc[r] = "deleted" => ~RowExists(reqInv[r]) /\ reqInv[r] \notin objects

-----------------------------------------------------------------------------
(* Status and queue. *)

\* Something is still going to move the row of invoice i on.
Driven(i) ==
  \/ upload[i] = "enqueue"
  \/ job[i] \in {"waiting", "active"}
  \/ \E w \in Workers : workerInv[w] = i /\ workerPc[w] # "idle"
  \/ \E r \in Requests : reqInv[r] = i /\ reqPc[r] \in {"deleteFile", "deleteRow"}

\* A row without a job was left so: by an upload that failed between the row and
\* the job, or by a DELETE that removed the job and failed later.
LostItsJob(i) ==
  /\ job[i] = "none"
  /\ \/ upload[i] \in {"rollback", "rolledBack", "leaked", "unqueued"}
     \/ \E r \in Requests : reqInv[r] = i /\ reqPc[r] \in {"aborted", "half"}

\* A row says PENDING or PROCESSING only while something will move it on, or
\* after one of the failures the code has no answer to: it lost its job, its job
\* failed, or its job was delivered again and completed by one worker while the
\* worker it was taken from still ran, reset the row and then stopped.
InProgressHasDriver ==
  \A i \in Invoices :
    ocrStatus[i] \in InProgress =>
      \/ Driven(i)
      \/ LostItsJob(i)
      \/ job[i] = "failed"
      \/ job[i] = "completed" /\ stalled[i] > 0

\* A worker that may overwrite a final status of i: it runs the job after that
\* was delivered again (process does not look at the status it finds), or it is
\* in the catch block because the update it made was reported as failed.
Overwriting(i) ==
  \E w \in Workers :
    /\ workerInv[w] = i
    /\ \/ stalled[i] > 0 /\ workerPc[w] \in {"markProcessing", "complete", "catch"}
       \/ "lostReply" \in Faults /\ workerPc[w] = "catch"

\* A final status is final: it changes only when the row is deleted, or when a
\* worker overwrites it in one of these two cases; no edit, no DELETE that fails
\* and no worker within its first delivery changes it (process, update, remove).
TerminalIsFinal ==
  [][\A i \in Invoices :
       ocrStatus[i] \in Terminal /\ ocrStatus'[i] # ocrStatus[i] =>
         ocrStatus'[i] = "ABSENT" \/ Overwriting(i)]_vars

\* Values a user entered with PATCH are overwritten by OCR only when the queue
\* has delivered the job again (update, mark-complete).
EditsSurvive ==
  [][\A i \in Invoices :
       edited[i] /\ ~edited'[i] => ocrStatus'[i] = "ABSENT" \/ stalled[i] > 0]_vars

\* An edit changes a row in COMPLETED or FAILED only, as update checks, although
\* the check and the write are two steps; again up to a second delivery.
EditsAfterOcr ==
  [][\A i \in Invoices :
       edited'[i] /\ (~edited[i] \/ taxKey'[i] # taxKey[i]) =>
         ocrStatus[i] \in {"COMPLETED", "FAILED"} \/ stalled[i] > 0]_vars

-----------------------------------------------------------------------------
(* Duplicates; see also OriginalHistory. *)

SameReceipt(i, j) ==
  i # j /\ Owner[i] = Owner[j] /\ taxKey[i] = taxKey[j] /\ taxKey[i] # NoKey

\* With one worker, OCR never completes two rows of an account with the same
\* pair of numbers, even when it is interrupted and run again: of two COMPLETED
\* rows with one pair, the user has edited at least one.
UniqueCompleted ==
  \A i, j \in Invoices :
    SameReceipt(i, j) /\ ocrStatus[i] = "COMPLETED" /\ ocrStatus[j] = "COMPLETED"
      => edited[i] \/ edited[j]

-----------------------------------------------------------------------------
(* Statements of the repository's comments that the code does not keep. *)

\* "Can be deleted in every ocrStatus" (invoices.service.ts:292): without any
\* fault, no DELETE of an existing row is refused.
DeleteInEveryStatus == \A r \in Requests : reqPc[r] # "refused"

\* A receipt whose pair matches an earlier one of the user is DUPLICATE
\* (schema.prisma:22): no two COMPLETED rows of a user carry one pair.
DuplicatesAreMarked ==
  \A i, j \in Invoices :
    SameReceipt(i, j) => {ocrStatus[i], ocrStatus[j]} # {"COMPLETED"}

-----------------------------------------------------------------------------
(* The abstract specification. *)

Phase(i) ==
  CASE RowExists(i) -> ocrStatus[i]
    [] ~RowExists(i) /\ upload[i] \in {"enqueue", "accepted", "unqueued"} -> "deleted"
    [] OTHER -> "none"

Lifecycle == INSTANCE InvoiceLifecycle WITH phase <- [i \in Invoices |-> Phase(i)]

\* Without redelivery and lost replies every behaviour of the pipeline is one of
\* the promised life cycles, whatever else fails (all components).
ImplementsLifecycle == Lifecycle!LifecycleSpec

-----------------------------------------------------------------------------
(* Liveness, while the database answers and DELETEs are repeated (DeleteRetry). *)

\* A receipt whose upload was accepted ends in a final status or is deleted,
\* through OCR errors, worker crashes and a DELETE that fails half way.
AcceptedIsSettled ==
  \A i \in Invoices :
    upload[i] = "accepted" ~> ocrStatus[i] \in Terminal \cup {"ABSENT"}
=============================================================================
