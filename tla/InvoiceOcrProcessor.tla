------------------------ MODULE InvoiceOcrProcessor -------------------------
(***************************************************************************)
(* src/queue/invoice-ocr.processor.ts: process(job).  One step per await on *)
(* the database, the store or Gemini.  Two successive reads that both end   *)
(* the run when the row is gone, and a check of the row right before an     *)
(* update that makes the same check, are one step: a row never comes back,  *)
(* so the later of the two decides.                                         *)
(* safeInvoiceUpdate returns false when there is no row (P2025) and throws  *)
(* on every other error; before the try that ends the job as failed, in the *)
(* try it leads to the catch block, in the catch block it fails the job.    *)
(***************************************************************************)
EXTENDS InvoiceState

UpdateStatus(i, s) == ocrStatus' = [ocrStatus EXCEPT ![i] = s]

AtPc(w, pc)   == workerPc[w] = pc
StepTo(w, pc) == workerPc' = [workerPc EXCEPT ![w] = pc]

DatabaseErrors == Faults \cap {"database", "lostReply"}

\* safeInvoiceUpdate(id, { ocrStatus: PROCESSING }), before the try: whatever
\* the status was, and whether or not another worker runs the same job.
MarkProcessing(w) ==
  LET i == workerInv[w]
  IN  /\ AtPc(w, "markProcessing")
      /\ \/ /\ RowExists(i)
            /\ UpdateStatus(i, "PROCESSING")
            /\ \/ StepTo(w, "readFile")
               \/ "lostReply" \in Faults /\ StepTo(w, "threw")
         \/ /\ ~RowExists(i)
            /\ StepTo(w, "returned")
            /\ UNCHANGED ocrStatus
         \/ /\ "database" \in Faults
            /\ StepTo(w, "threw")
            /\ UNCHANGED ocrStatus
      /\ UNCHANGED <<users, taxKey, edited, objects, queueVars, upload,
                     workerInv, workerKey, workerDup, reqVars>>

\* fileStorage.get(storageKey).
ReadFile(w) ==
  /\ AtPc(w, "readFile")
  /\ \/ /\ workerInv[w] \in objects
        /\ StepTo(w, "extract")
     \/ /\ workerInv[w] \notin objects \/ "storage" \in Faults
        /\ StepTo(w, "catch")
  /\ UNCHANGED <<users, rowVars, objects, queueVars, upload,
                 workerInv, workerKey, workerDup, reqVars>>

\* geminiService.extractReceipt: any pair of numbers, or an error (quota, an
\* empty answer, text that is no JSON).  taxId and invoiceNumber count only
\* when both are there after trim().
Extract(w) ==
  /\ AtPc(w, "extract")
  /\ \/ /\ \E k \in Keys \cup {NoKey} : workerKey' = [workerKey EXCEPT ![w] = k]
        /\ StepTo(w, "stillThere")
     \/ /\ StepTo(w, "catch")
        /\ UNCHANGED workerKey
  /\ UNCHANGED <<users, rowVars, objects, queueVars, upload,
                 workerInv, workerDup, reqVars>>

\* Mutated StillThere: the duplicate check is left out.
StillThere_NoDupCheck(w) ==
  /\ AtPc(w, "stillThere")
  /\ \/ RowExists(workerInv[w]) /\ StepTo(w, "complete")
     \/ ~RowExists(workerInv[w]) /\ StepTo(w, "returned")
  /\ workerDup' = [workerDup EXCEPT ![w] = FALSE]
  /\ UNCHANGED <<users, rowVars, objects, queueVars, upload,
                 workerInv, workerKey, reqVars>>

\* isInvoiceDeleted('after-extract') and the findUnique for the owner.
StillThere(w) ==
  /\ AtPc(w, "stillThere")
  /\ \/ /\ RowExists(workerInv[w])
        /\ StepTo(w, IF workerKey[w] = NoKey THEN "complete" ELSE "dupCheck")
     \/ ~RowExists(workerInv[w]) /\ StepTo(w, "returned")
     \/ DatabaseErrors # {} /\ StepTo(w, "catch")
  /\ workerDup' = [workerDup EXCEPT ![w] = FALSE]
  /\ UNCHANGED <<users, rowVars, objects, queueVars, upload,
                 workerInv, workerKey, reqVars>>

\* Mutated IsDuplicateOf: without the condition on userId.
IsDuplicateOf_AnyOwner(i, k, j) ==
  j # i /\ taxKey[j] = k /\ ocrStatus[j] \in {"COMPLETED", "DUPLICATE"}

\* Row j of the same account, other than i, carries the pair k and counts.
IsDuplicateOf(i, k, j) ==
  /\ j # i
  /\ Owner[j] = Owner[i]
  /\ taxKey[j] = k
  /\ ocrStatus[j] \in {"COMPLETED", "DUPLICATE"}

\* The duplicate findFirst.
DupCheck(w) ==
  /\ AtPc(w, "dupCheck")
  /\ \/ /\ workerDup' = [workerDup EXCEPT ![w] =
                           \E j \in Invoices :
                             IsDuplicateOf(workerInv[w], workerKey[w], j)]
        /\ StepTo(w, "complete")
     \/ /\ DatabaseErrors # {}
        /\ StepTo(w, "catch")
        /\ UNCHANGED workerDup
  /\ UNCHANGED <<users, rowVars, objects, queueVars, upload,
                 workerInv, workerKey, reqVars>>

\* Mutated Complete: an upsert, which brings a deleted row back.
Complete_Upsert(w) ==
  LET i == workerInv[w]
  IN  /\ AtPc(w, "complete")
      /\ UpdateStatus(i, IF workerDup[w] THEN "DUPLICATE" ELSE "COMPLETED")
      /\ taxKey' = [taxKey EXCEPT ![i] = workerKey[w]]
      /\ edited' = [edited EXCEPT ![i] = FALSE]
      /\ StepTo(w, "returned")
      /\ UNCHANGED <<users, objects, queueVars, upload,
                     workerInv, workerKey, workerDup, reqVars>>

\* isInvoiceDeleted('before-complete') and the update 'mark-complete', which
\* overwrites every field a user can edit.  The update fails without a fault
\* too: an invoiceDate that is no date, an amount wider than Decimal(12, 2).
Complete(w) ==
  LET i == workerInv[w]
  IN  /\ AtPc(w, "complete")
      /\ \/ /\ RowExists(i)
            /\ UpdateStatus(i, IF workerDup[w] THEN "DUPLICATE" ELSE "COMPLETED")
            /\ taxKey' = [taxKey EXCEPT ![i] = workerKey[w]]
            /\ edited' = [edited EXCEPT ![i] = FALSE]
            /\ \/ StepTo(w, "returned")
               \/ "lostReply" \in Faults /\ StepTo(w, "catch")
         \/ /\ ~RowExists(i)
            /\ StepTo(w, "returned")
            /\ UNCHANGED rowVars
         \/ /\ StepTo(w, "catch")
            /\ UNCHANGED rowVars
      /\ UNCHANGED <<users, objects, queueVars, upload,
                     workerInv, workerKey, workerDup, reqVars>>

\* Mutated Catch: a status the enum OcrStatus does not have.
Catch_BadStatus(w) ==
  /\ AtPc(w, "catch")
  /\ UpdateStatus(workerInv[w], "ERROR")
  /\ StepTo(w, "returned")
  /\ UNCHANGED <<users, taxKey, edited, objects, queueVars, upload,
                 workerInv, workerKey, workerDup, reqVars>>

\* Mutated Catch: the error is logged, the row keeps its status.
Catch_Silent(w) ==
  /\ AtPc(w, "catch")
  /\ StepTo(w, "returned")
  /\ UNCHANGED <<users, rowVars, objects, queueVars, upload,
                 workerInv, workerKey, workerDup, reqVars>>

\* The catch block: isInvoiceDeleted('after-error') and 'mark-failed'.
Catch(w) ==
  LET i == workerInv[w]
  IN  /\ AtPc(w, "catch")
      /\ \/ /\ RowExists(i)
            /\ UpdateStatus(i, "FAILED")
            /\ \/ StepTo(w, "returned")
               \/ "lostReply" \in Faults /\ StepTo(w, "threw")
         \/ /\ ~RowExists(i)
            /\ StepTo(w, "returned")
            /\ UNCHANGED ocrStatus
         \/ /\ "database" \in Faults
            /\ StepTo(w, "threw")
            /\ UNCHANGED ocrStatus
      /\ UNCHANGED <<users, taxKey, edited, objects, queueVars, upload,
                     workerInv, workerKey, workerDup, reqVars>>

\* The server process dies, between any two steps, and a new one starts.
WorkerCrash(w) ==
  /\ workerPc[w] # "idle"
  /\ losses < StallBudget
  /\ losses' = losses + 1
  /\ StepTo(w, "idle")
  /\ workerInv' = [workerInv EXCEPT ![w] = NoInvoice]
  /\ UNCHANGED <<users, rowVars, objects, job, lock, stalled, upload,
                 workerKey, workerDup, reqVars>>

ProcessStep(w) ==
  \/ MarkProcessing(w) \/ ReadFile(w) \/ Extract(w) \/ StillThere(w)
  \/ DupCheck(w) \/ Complete(w) \/ Catch(w)

ProcessorNext == \E w \in Workers : ProcessStep(w) \/ WorkerCrash(w)
=============================================================================
