---------------------------- MODULE DeleteRetry -----------------------------
(***************************************************************************)
(* A client that repeats its DELETE until the receipt is gone, over the     *)
(* whole pipeline: a DELETE that was refused by the queue, failed at any    *)
(* store, or was cut off half way leaves a state the next one can finish.   *)
(***************************************************************************)
EXTENDS InvoiceSystem

ASSUME OnlyDeletes == Ops = {"delete"}

\* DELETE is sent again: findFirst still finds the row.
Retry(r) ==
  LET i == reqInv[r]
  IN  /\ reqPc[r] \in {"refused", "aborted", "half"}
      /\ RowExists(i)
      /\ GoTo(r, IF ocrStatus[i] \in InProgress THEN "removeJob" ELSE "deleteFile")
      /\ UNCHANGED <<users, rowVars, objects, queueVars, upload, workerVars, reqInv>>

RetryNext == Next \/ \E r \in Requests : Retry(r)

\* A client that got an error goes on asking, and a call that is made again and
\* again succeeds some time: Redis, the store and the database come back.
\* job.remove() succeeds only while no worker holds the job's lock.
RetryFairness ==
  \A r \in Requests :
    /\ WF_vars(Retry(r))
    /\ SF_vars(RemoveJob(r) /\ reqPc'[r] = "deleteFile")
    /\ SF_vars(DeleteFile(r) /\ reqPc'[r] = "deleteRow")
    /\ SF_vars(DeleteRow(r) /\ reqPc'[r] = "deleted")

RetrySpec == Init /\ [][RetryNext]_vars /\ Fairness /\ RetryFairness

\* A DELETE that is repeated removes the receipt in the end, row and object,
\* whatever failed on the way and whatever OCR and other DELETEs do meanwhile:
\* no attempt leaves the receipt in a state that blocks the next one (remove).
DeleteConverges ==
  \A i \in Invoices :
    (\E r \in Requests : reqInv[r] = i) ~> ~RowExists(i) /\ i \notin objects
=============================================================================
