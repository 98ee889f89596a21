----------------------- MODULE InvoiceDuplicateProofs -----------------------
(***************************************************************************)
(* With one OCR worker UniqueCompleted is an invariant of InvoiceSystem:    *)
(* whatever fails, and however often the queue delivers a job, OCR does not *)
(* complete two rows of an account with the same pair of numbers.  With any *)
(* number of workers DuplicateHasOriginal is one of OriginalHistory.        *)
(***************************************************************************)
EXTENDS InvoiceQueueProofs, OriginalHistory

\* One server process (the queue's concurrency is 1 per process).
OneWorker == \A v, w \in Workers : v = w

\* A worker about to complete its row as no duplicate is still right: every
\* COMPLETED row that carries the pair now has been edited since the check.
VerdictHolds ==
  \A w \in Workers, j \in Invoices :
    /\ workerPc[w] = "complete" /\ workerKey[w] # NoKey /\ ~workerDup[w]
    /\ j # workerInv[w] /\ Owner[j] = Owner[workerInv[w]]
    /\ taxKey[j] = workerKey[w] /\ ocrStatus[j] = "COMPLETED"
    => edited[j]

DuplicateInv == TypeOK /\ VerdictHolds /\ UniqueCompleted

\* A step after which every COMPLETED row was COMPLETED before, and carries the
\* same pair or an edit.
NoNewCompletion ==
  \A i \in Invoices :
    ocrStatus'[i] = "COMPLETED" =>
      /\ ocrStatus[i] = "COMPLETED"
      /\ edited'[i] \/ (taxKey'[i] = taxKey[i] /\ (edited[i] => edited'[i]))

\* A step that brings no worker to its completing update.
NoNewVerdict ==
  \A w \in Workers :
    workerPc'[w] = "complete" =>
      /\ workerPc[w] = "complete"
      /\ workerInv'[w] = workerInv[w]
      /\ workerKey'[w] = workerKey[w]
      /\ workerDup'[w] = workerDup[w]

LEMMA InitDuplicateInv == Init => DuplicateInv
<1> SUFFICES ASSUME Init PROVE DuplicateInv
  OBVIOUS
<1>1. TypeOK
  BY InitTypeOK
<1> QED
  BY <1>1 DEF Init, DuplicateInv, VerdictHolds, UniqueCompleted

LEMMA QuietStep ==
  ASSUME DuplicateInv, TypeOK', NoNewCompletion, NoNewVerdict
  PROVE  DuplicateInv'
<1> USE DEF DuplicateInv, TypeOK, NoNewCompletion
<1>1. VerdictHolds'
  BY DEF VerdictHolds, NoNewVerdict
<1>2. UniqueCompleted'
  BY DEF UniqueCompleted, SameReceipt
<1> QED
  BY <1>1, <1>2

\* No service call completes a row, and one that changes a pair marks the edit.
LEMMA ServiceIsQuiet ==
  ASSUME TypeOK, ServiceNext
  PROVE  NoNewCompletion /\ NoNewVerdict
<1>1. NoNewVerdict
  <2>1. UNCHANGED workerVars
    BY DEF ServiceNext, UploadStep, RequestStep, Put, Create, Rollback, Enqueue, Begin,
           DeleteFind, PatchFind, FileFind, RemoveJob, DeleteFile, DeleteRow, PatchWrite,
           FileRead, CleanupDemoUser
  <2> QED
    BY <2>1 DEF NoNewVerdict, workerVars
<1> USE DEF TypeOK, NoNewCompletion
<1>2. ASSUME UNCHANGED rowVars
      PROVE  NoNewCompletion
  BY <1>2 DEF rowVars
<1>3. ASSUME NEW S, DeleteRows(S)
      PROVE  NoNewCompletion
  BY <1>3 DEF DeleteRows
<1>4. ASSUME NEW i \in Invoices, UploadStep(i)
      PROVE  NoNewCompletion
  <2>1. CASE Create(i)
    BY <2>1 DEF Create
  <2> QED
    BY <1>2, <1>4, <2>1 DEF UploadStep, Put, Rollback, Enqueue
<1>5. ASSUME NEW r \in Requests, RequestStep(r)
      PROVE  NoNewCompletion
  <2>1. CASE PatchWrite(r)
    BY <2>1 DEF PatchWrite
  <2>2. CASE DeleteRow(r)
    BY <1>2, <1>3, <2>2 DEF DeleteRow
  <2> QED
    BY <1>2, <1>5, <2>1, <2>2 DEF RequestStep, RemoveJob, DeleteFile, FileRead
<1>6. ASSUME NEW r \in Requests, NEW i \in Invoices,
             DeleteFind(r, i) \/ PatchFind(r, i) \/ FileFind(r, i)
      PROVE  NoNewCompletion
  BY <1>2, <1>6 DEF DeleteFind, PatchFind, FileFind, Begin
<1>7. ASSUME NEW u \in Users, CleanupDemoUser(u)
      PROVE  NoNewCompletion
  BY <1>3, <1>7 DEF CleanupDemoUser
<1> QED
  BY <1>1, <1>4, <1>5, <1>6, <1>7 DEF ServiceNext

LEMMA QueueIsQuiet ==
  ASSUME TypeOK, QueueNext
  PROVE  NoNewCompletion /\ NoNewVerdict
<1>1. NoNewCompletion
  BY DEF QueueNext, Fetch, Ack, ExpireLock, LoseLock, Stall, rowVars, NoNewCompletion
<1>2. NoNewVerdict
  BY DEF QueueNext, Fetch, Ack, ExpireLock, LoseLock, Stall, workerVars, TypeOK,
         NoNewVerdict
<1> QED
  BY <1>1, <1>2

\* The processor: every step is quiet but the duplicate check and the update.
LEMMA ProcessStepDuplicateInv ==
  ASSUME OneWorker, DuplicateInv, TypeOK', NEW w \in Workers, ProcessStep(w)
  PROVE  DuplicateInv'
<1> USE DEF TypeOK, AtPc, StepTo
<1>0. TypeOK
  BY DEF DuplicateInv
<1>1. CASE MarkProcessing(w) \/ Catch(w)
  <2>1. NoNewCompletion
    BY <1>0, <1>1 DEF MarkProcessing, Catch, UpdateStatus, NoNewCompletion
  <2>2. NoNewVerdict
    BY <1>0, <1>1 DEF MarkProcessing, Catch, NoNewVerdict
  <2> QED
    BY <2>1, <2>2, QuietStep
<1>2. CASE ReadFile(w) \/ Extract(w)
  <2>1. NoNewCompletion /\ NoNewVerdict
    BY <1>0, <1>2 DEF ReadFile, Extract, rowVars, NoNewCompletion, NoNewVerdict
  <2> QED
    BY <2>1, QuietStep
<1>3. CASE StillThere(w)
  <2>1. VerdictHolds'
    BY <1>0, <1>3 DEF StillThere, rowVars, DuplicateInv, VerdictHolds
  <2>2. UniqueCompleted'
    BY <1>3 DEF StillThere, rowVars, DuplicateInv, UniqueCompleted, SameReceipt
  <2> QED
    BY <2>1, <2>2 DEF DuplicateInv
<1>4. CASE DupCheck(w)
  <2>1. VerdictHolds'
    BY <1>0, <1>4 DEF DupCheck, IsDuplicateOf, rowVars, DuplicateInv, VerdictHolds
  <2>2. UniqueCompleted'
    BY <1>4 DEF DupCheck, rowVars, DuplicateInv, UniqueCompleted, SameReceipt
  <2> QED
    BY <2>1, <2>2 DEF DuplicateInv
<1>5. CASE Complete(w)
  <2>1. \A v \in Workers : workerPc'[v] # "complete"
    BY <1>0, <1>5 DEF Complete, OneWorker
  <2>2. VerdictHolds'
    BY <2>1 DEF VerdictHolds
  <2>3. UniqueCompleted'
    BY <1>0, <1>5 DEF Complete, UpdateStatus, rowVars, DuplicateInv, VerdictHolds,
                      UniqueCompleted, SameReceipt
  <2> QED
    BY <2>2, <2>3 DEF DuplicateInv
<1> QED
  BY <1>1, <1>2, <1>3, <1>4, <1>5 DEF ProcessStep

LEMMA NextDuplicateInv ==
  ASSUME OneWorker, DuplicateInv, [Next]_vars
  PROVE  DuplicateInv'
<1>1. TypeOK /\ TypeOK'
  BY TypeOKStep DEF DuplicateInv
<1>2. CASE ServiceNext \/ QueueNext
  BY <1>1, <1>2, ServiceIsQuiet, QueueIsQuiet, QuietStep
<1>3. ASSUME NEW w \in Workers, WorkerCrash(w)
      PROVE  DuplicateInv'
  <2>1. NoNewCompletion /\ NoNewVerdict
    BY <1>1, <1>3 DEF WorkerCrash, StepTo, TypeOK, rowVars, NoNewCompletion, NoNewVerdict
  <2> QED
    BY <1>1, <2>1, QuietStep
<1>4. CASE UNCHANGED vars
  <2>1. NoNewCompletion /\ NoNewVerdict
    BY <1>4 DEF vars, rowVars, workerVars, NoNewCompletion, NoNewVerdict
  <2> QED
    BY <1>1, <2>1, QuietStep
<1> QED
  BY <1>1, <1>2, <1>3, <1>4, ProcessStepDuplicateInv DEF Next, ProcessorNext

\* OCR never completes one receipt twice, as long as one worker runs: of two
\* COMPLETED rows of an account with one pair the user has edited at least one
\* (process: duplicate check and mark-complete).
THEOREM OneWorkerUniqueCompleted ==
  ASSUME OneWorker
  PROVE  Spec => []UniqueCompleted
<1>1. DuplicateInv /\ [Next]_vars => DuplicateInv'
  BY NextDuplicateInv
<1>2. DuplicateInv => UniqueCompleted
  BY DEF DuplicateInv
<1> QED
  BY InitDuplicateInv, <1>1, <1>2, PTL DEF Spec

-----------------------------------------------------------------------------
(* Copies and their originals, with any number of workers. *)

\* The account u has, or had, a receipt that was COMPLETED with the pair k (or one
\* that an edit made the source of copies with k).
HadOriginal(u, k) ==
  \E j \in Invoices :
    /\ Owner[j] = u
    /\ \/ k \in Keys /\ ocrStatus[j] = "COMPLETED" /\ taxKey[j] = k
       \/ k \in retired[j] \cup redone[j]

CopiesHaveOriginals ==
  \A i \in Invoices : ocrStatus[i] = "DUPLICATE" => HadOriginal(Owner[i], taxKey[i])

\* A worker that is about to mark a copy is right, whatever happened since it looked.
VerdictsHaveOriginals ==
  \A i \in Invoices, w \in Workers :
    Runs(w, i) /\ workerPc[w] = "complete" /\ workerDup[w]
      => HadOriginal(Owner[i], workerKey[w])

CheckedPairs == \A w \in Workers : workerPc[w] = "dupCheck" => workerKey[w] # NoKey

\* Within one delivery a receipt that a user retired does not become a copy.
RetiredIsSettled ==
  \A i \in Invoices :
    retired[i] # {} =>
      /\ Queued(i)
      /\ OneDelivery(i) => ocrStatus[i] \in {"COMPLETED", "FAILED", "ABSENT"}

\* OCR takes a pair away in a second delivery, or after a lost reply.
RedoneIsRedelivered ==
  \A i \in Invoices : redone[i] # {} => stalled[i] > 0 \/ "lostReply" \in Faults

\* The inductive strengthening of DuplicateHasOriginal.
OriginalInv ==
  /\ QueueInv
  /\ HistoryTypeOK
  /\ CheckedPairs
  /\ CopiesHaveOriginals
  /\ VerdictsHaveOriginals
  /\ RetiredIsSettled
  /\ RedoneIsRedelivered

LEMMA InitOriginalInv == HistoryInit => OriginalInv
<1> SUFFICES ASSUME HistoryInit PROVE OriginalInv
  OBVIOUS
<1>1. QueueInv
  BY InitQueueInv DEF HistoryInit
<1> QED
  BY <1>1 DEF HistoryInit, Init, OriginalInv, HistoryTypeOK, CheckedPairs,
              CopiesHaveOriginals, VerdictsHaveOriginals, RetiredIsSettled,
              RedoneIsRedelivered

\* The history restricts no step.
LEMMA HistoryStep == [HistoryNext]_<<vars, historyVars>> => [Next]_vars
BY DEF HistoryNext, UserStep, OcrStep, Next

LEMMA NextHistoryTypeOK ==
  ASSUME HistoryTypeOK, [HistoryNext]_<<vars, historyVars>>
  PROVE  /\ HistoryTypeOK'
         /\ \A j \in Invoices : retired[j] \subseteq retired'[j] /\ redone[j] \subseteq redone'[j]
<1> USE DEF HistoryTypeOK
<1>1. \A j \in Invoices : TakenFrom(j) \subseteq Keys /\ GivenToCopy(j) \subseteq Keys \cup {NoKey}
  BY DEF TakenFrom, GivenToCopy
<1>2. CASE UserStep
  BY <1>1, <1>2 DEF UserStep
<1>3. CASE OcrStep
  BY <1>1, <1>3 DEF OcrStep
<1>4. CASE UNCHANGED historyVars
  BY <1>4 DEF historyVars
<1> QED
  BY <1>2, <1>3, <1>4 DEF HistoryNext

\* A row that is queued does not come back, and stays queued; stalls are counted.
LEMMA QueuedSteps ==
  ASSUME QueueInv, [Next]_vars, NEW j \in Invoices
  PROVE  /\ stalled'[j] >= stalled[j]
         /\ Queued(j) => Queued(j)'
         /\ Queued(j) /\ ~RowExists(j) => ~RowExists(j)'
<1> USE DEF QueueInv, TypeOK, RowExists, Queued
<1>1. stalled'[j] >= stalled[j]
  <2>1. ASSUME NEW i \in Invoices, Stall(i)
        PROVE  stalled'[j] >= stalled[j]
    BY <2>1 DEF Stall
  <2>2. \/ UNCHANGED stalled
        \/ \E i \in Invoices : Stall(i)
    BY DEF Next, ServiceNext, UploadStep, Put, Create, Rollback, Enqueue, DeleteFind,
           PatchFind, FileFind, Begin, RequestStep, RemoveJob, DeleteFile, DeleteRow,
           PatchWrite, FileRead, CleanupDemoUser, QueueNext, Fetch, Ack, ExpireLock,
           LoseLock, ProcessorNext, ProcessStep, MarkProcessing, ReadFile, Extract,
           StillThere, DupCheck, Complete, Catch, WorkerCrash, vars, queueVars
  <2> QED
    BY <2>1, <2>2
<1>2. ASSUME NEW i \in Invoices, UploadStep(i), Queued(j)
      PROVE  Queued(j)' /\ (~RowExists(j) => ~RowExists(j)')
  BY <1>2 DEF UploadStep, Put, Create, Rollback, Enqueue, rowVars
<1>3. ASSUME NEW S, DeleteRows(S), ~RowExists(j)
      PROVE  ~RowExists(j)'
  BY <1>3 DEF DeleteRows
<1>4. CASE ServiceNext
  BY <1>1, <1>2, <1>3, <1>4
     DEF ServiceNext, DeleteFind, PatchFind, FileFind, Begin, RequestStep, RemoveJob,
         DeleteFile, DeleteRow, PatchWrite, FileRead, CleanupDemoUser, rowVars
<1>5. CASE QueueNext \/ UNCHANGED vars
  BY <1>1, <1>5 DEF QueueNext, Fetch, Ack, ExpireLock, LoseLock, Stall, vars, rowVars
<1>6. ASSUME NEW w \in Workers, ProcessStep(w) \/ WorkerCrash(w)
      PROVE  (Queued(j) => Queued(j)') /\ (~RowExists(j) => ~RowExists(j)')
  BY <1>6 DEF ProcessStep, MarkProcessing, ReadFile, Extract, StillThere, DupCheck,
              Complete, Catch, WorkerCrash, UpdateStatus, rowVars
<1> QED
  BY <1>1, <1>4, <1>5, <1>6 DEF Next, ProcessorNext

\* A new row is PENDING.
LEMMA NewRowSteps ==
  ASSUME TypeOK, [Next]_vars, NEW i \in Invoices, ~RowExists(i), RowExists(i)'
  PROVE  ocrStatus'[i] = "PENDING"
<1> USE DEF TypeOK, RowExists
<1>1. ASSUME NEW S, DeleteRows(S)
      PROVE  FALSE
  BY <1>1 DEF DeleteRows
<1>2. ASSUME NEW w \in Workers, ProcessStep(w) \/ WorkerCrash(w)
      PROVE  FALSE
  BY <1>2 DEF ProcessStep, MarkProcessing, ReadFile, Extract, StillThere, DupCheck,
              Complete, Catch, WorkerCrash, UpdateStatus, rowVars
<1>3. \E j \in Invoices : Create(j)
  BY <1>1, <1>2
     DEF Next, ServiceNext, UploadStep, Put, Rollback, Enqueue, DeleteFind, PatchFind,
         FileFind, Begin, RequestStep, RemoveJob, DeleteFile, DeleteRow, PatchWrite,
         FileRead, CleanupDemoUser, QueueNext, Fetch, Ack, ExpireLock, LoseLock, Stall,
         ProcessorNext, vars, rowVars
<1> QED
  BY <1>3 DEF Create

LEMMA NextCheckedPairs ==
  ASSUME TypeOK, CheckedPairs, [Next]_vars
  PROVE  CheckedPairs'
<1> USE DEF TypeOK, CheckedPairs
<1>1. CASE UNCHANGED workerVars
  BY <1>1 DEF workerVars
<1>2. CASE ServiceNext
  BY <1>1, <1>2
     DEF ServiceNext, UploadStep, Put, Create, Rollback, Enqueue, DeleteFind, PatchFind,
         FileFind, Begin, RequestStep, RemoveJob, DeleteFile, DeleteRow, PatchWrite,
         FileRead, CleanupDemoUser
<1>3. CASE QueueNext
  BY <1>1, <1>3 DEF QueueNext, Fetch, Ack, ExpireLock, LoseLock, Stall
<1>4. ASSUME NEW w \in Workers, ProcessStep(w) \/ WorkerCrash(w)
      PROVE  CheckedPairs'
  BY <1>4 DEF ProcessStep, MarkProcessing, ReadFile, Extract, StillThere, DupCheck,
              Complete, Catch, WorkerCrash, AtPc, StepTo
<1> QED
  BY <1>1, <1>2, <1>3, <1>4 DEF Next, ProcessorNext, vars

\* What had an original still has it, or the step that took it is recorded.
LEMMA OriginalStays ==
  ASSUME OriginalInv, [HistoryNext]_<<vars, historyVars>>,
         NEW u, NEW k, HadOriginal(u, k)
  PROVE  HadOriginal(u, k)'
<1> USE DEF OriginalInv, HistoryTypeOK
<1>1. PICK j \in Invoices :
        /\ Owner[j] = u
        /\ \/ k \in Keys /\ ocrStatus[j] = "COMPLETED" /\ taxKey[j] = k
           \/ k \in retired[j] \cup redone[j]
  BY DEF HadOriginal
<1>2. CASE k \in retired[j] \cup redone[j]
  BY <1>1, <1>2, NextHistoryTypeOK DEF HadOriginal
<1>3. CASE ocrStatus'[j] = "COMPLETED" /\ taxKey'[j] = k /\ k \in Keys
  BY <1>1, <1>3 DEF HadOriginal
<1>4. CASE /\ k \in Keys /\ ocrStatus[j] = "COMPLETED" /\ taxKey[j] = k
           /\ ocrStatus'[j] # "COMPLETED" \/ taxKey'[j] # k
  <2>1. k \in TakenFrom(j)
    BY <1>4 DEF TakenFrom
  <2>2. CASE UserStep \/ OcrStep
    <3>1. k \in retired'[j] \cup redone'[j]
      BY <2>1, <2>2 DEF UserStep, OcrStep
    <3> QED
      BY <1>1, <3>1 DEF HadOriginal
  <2>3. CASE QueueNext \/ UNCHANGED vars
    BY <1>4, <2>3 DEF QueueNext, Fetch, Ack, ExpireLock, LoseLock, Stall, vars, rowVars
  <2> QED
    BY <2>2, <2>3 DEF HistoryNext
<1> QED
  BY <1>1, <1>2, <1>3, <1>4

LEMMA NextVerdictsHaveOriginals ==
  ASSUME OriginalInv, [HistoryNext]_<<vars, historyVars>>
  PROVE  VerdictsHaveOriginals'
<1> SUFFICES ASSUME NEW i \in Invoices, NEW w \in Workers, Runs(w, i)',
                    workerPc'[w] = "complete", workerDup'[w],
                    NEW u, u = Owner[i], NEW k, k = workerKey'[w]
             PROVE  HadOriginal(u, k)'
  BY DEF VerdictsHaveOriginals, HadOriginal
<1> SUFFICES HadOriginal(u, k)
  BY OriginalStays
<1> USE DEF OriginalInv, QueueInv, TypeOK
<1>0. ASSUME Runs(w, i), workerPc[w] = "complete", workerDup[w], workerKey[w] = k
      PROVE  HadOriginal(u, k)
  BY <1>0 DEF VerdictsHaveOriginals, HadOriginal
<1>1. CASE NoNewVerdict
  BY <1>0, <1>1 DEF NoNewVerdict, Runs
<1>2. ASSUME NEW v \in Workers, DupCheck(v)
      PROVE  HadOriginal(u, k)
  <2>1. Runs(w, i) /\ workerKey[w] = k
    BY <1>2 DEF DupCheck, Runs
  <2>2. CASE w = v
    <3>1. PICK j \in Invoices : IsDuplicateOf(i, k, j)
      BY <1>2, <2>1, <2>2 DEF DupCheck, AtPc, StepTo, Runs
    <3>2. k \in Keys
      BY <1>2, <2>1, <2>2 DEF DupCheck, AtPc, CheckedPairs
    <3>3. CASE ocrStatus[j] = "COMPLETED"
      BY <3>1, <3>2, <3>3 DEF IsDuplicateOf, HadOriginal
    <3>4. CASE ocrStatus[j] = "DUPLICATE"
      BY <3>1, <3>4 DEF IsDuplicateOf, CopiesHaveOriginals, HadOriginal
    <3> QED
      BY <3>1, <3>3, <3>4 DEF IsDuplicateOf
  <2>3. CASE w # v
    BY <1>0, <1>2, <2>1, <2>3 DEF DupCheck, StepTo
  <2> QED
    BY <2>2, <2>3
<1>3. ASSUME NEW v \in Workers, StillThere(v)
      PROVE  HadOriginal(u, k)
  BY <1>0, <1>3 DEF StillThere, StepTo, Runs
<1>4. ASSUME NEW v \in Workers,
             \/ MarkProcessing(v) \/ ReadFile(v) \/ Extract(v) \/ Complete(v) \/ Catch(v)
             \/ WorkerCrash(v)
      PROVE  NoNewVerdict
  BY <1>4 DEF MarkProcessing, ReadFile, Extract, Complete, Catch, WorkerCrash, AtPc, StepTo,
              NoNewVerdict
<1>5. CASE UNCHANGED vars
  BY <1>1, <1>5 DEF vars, workerVars, NoNewVerdict
<1> QED
  BY <1>1, <1>2, <1>3, <1>4, <1>5, HistoryStep, ServiceIsQuiet, QueueIsQuiet
     DEF Next, ProcessorNext, ProcessStep

\* A row becomes a copy, or carries another pair as one, by the completing update,
\* which has a verdict, or by an edit, which is recorded.
LEMMA NextCopiesHaveOriginals ==
  ASSUME OriginalInv, [HistoryNext]_<<vars, historyVars>>
  PROVE  CopiesHaveOriginals'
<1> SUFFICES ASSUME NEW i \in Invoices, ocrStatus'[i] = "DUPLICATE",
                    NEW u, u = Owner[i], NEW k, k = taxKey'[i]
             PROVE  HadOriginal(u, k)'
  BY DEF CopiesHaveOriginals, HadOriginal
<1> USE DEF OriginalInv, QueueInv, TypeOK
<1>1. CASE ocrStatus[i] = "DUPLICATE" /\ taxKey[i] = k
  <2>1. HadOriginal(u, k)
    BY <1>1 DEF CopiesHaveOriginals, HadOriginal
  <2> QED
    BY <2>1, OriginalStays
<1>2. ASSUME NEW w \in Workers, Complete(w), Runs(w, i)
      PROVE  HadOriginal(u, k)'
  <2>1. CASE UNCHANGED rowVars
    BY <1>1, <2>1 DEF rowVars
  <2>2. CASE ~UNCHANGED rowVars
    <3>1. workerPc[w] = "complete" /\ workerDup[w] /\ workerKey[w] = k
      BY <1>2, <2>2 DEF Complete, UpdateStatus, AtPc, Runs
    <3>2. HadOriginal(u, k)
      BY <1>2, <3>1 DEF VerdictsHaveOriginals, HadOriginal
    <3> QED
      BY <3>2, OriginalStays
  <2> QED
    BY <2>1, <2>2
<1>3. CASE ocrStatus[i] # "DUPLICATE"
  <2>1. RowExists(i)
    BY NewRowSteps, HistoryStep DEF RowExists
  <2>2. PICK w \in Workers : Runs(w, i) /\ Complete(w)
    BY <1>3, <2>1, StatusSteps, HistoryStep
  <2> QED
    BY <1>2, <2>2
<1>4. CASE ocrStatus[i] = "DUPLICATE" /\ taxKey[i] # k
  <2>1. CASE UserStep
    <3>1. k \in GivenToCopy(i)
      BY <1>4, TypeOKStep, HistoryStep DEF GivenToCopy
    <3>2. k \in redone'[i]
      BY <2>1, <3>1 DEF UserStep
    <3> QED
      BY <3>2 DEF HadOriginal
  <2>2. CASE OcrStep
    <3>1. PICK w \in Workers : ProcessStep(w) \/ WorkerCrash(w)
      BY <2>2 DEF OcrStep, ProcessorNext
    <3>2. Complete(w) /\ Runs(w, i)
      BY <1>4, <3>1
         DEF ProcessStep, MarkProcessing, ReadFile, Extract, StillThere, DupCheck, Complete,
             Catch, WorkerCrash, Runs, rowVars
    <3> QED
      BY <1>2, <3>2
  <2>3. CASE QueueNext \/ UNCHANGED vars
    BY <1>4, <2>3 DEF QueueNext, Fetch, Ack, ExpireLock, LoseLock, Stall, vars, rowVars
  <2> QED
    BY <2>1, <2>2, <2>3 DEF HistoryNext
<1> QED
  BY <1>1, <1>3, <1>4

LEMMA NextRetiredIsSettled ==
  ASSUME OriginalInv, [HistoryNext]_<<vars, historyVars>>
  PROVE  RetiredIsSettled'
<1> SUFFICES ASSUME NEW i \in Invoices, retired'[i] # {}
             PROVE  /\ Queued(i)'
                    /\ OneDelivery(i)' =>
                         ocrStatus'[i] \in {"COMPLETED", "FAILED", "ABSENT"}
  BY DEF RetiredIsSettled
<1> USE DEF OriginalInv, QueueInv, TypeOK
<1>1. Queued(i) /\ (OneDelivery(i) => ocrStatus[i] \in {"COMPLETED", "FAILED", "ABSENT"})
  <2>1. CASE retired[i] # {}
    BY <2>1 DEF RetiredIsSettled
  <2>2. CASE retired[i] = {}
    <3>1. TakenFrom(i) # {}
      BY <2>2 DEF HistoryNext, UserStep, OcrStep, historyVars, HistoryTypeOK
    <3>2. ocrStatus[i] = "COMPLETED"
      BY <3>1 DEF TakenFrom
    <3> QED
      BY <3>2 DEF NothingBeforeQueue
  <2> QED
    BY <2>1, <2>2
<1>2. Queued(i)' /\ (OneDelivery(i)' => OneDelivery(i))
  BY <1>1, QueuedSteps, HistoryStep, TypeOKStep DEF OneDelivery
<1>3. CASE OneDelivery(i) /\ ocrStatus[i] = "ABSENT"
  BY <1>1, <1>2, <1>3, QueuedSteps, HistoryStep DEF RowExists
<1>4. CASE OneDelivery(i) /\ ocrStatus[i] \in {"COMPLETED", "FAILED"}
  <2>1. ocrStatus[i] \in Terminal /\ ~(stalled[i] > 0)
    BY <1>4 DEF Terminal, OneDelivery
  <2>2. ocrStatus'[i] \in {ocrStatus[i], "ABSENT", "FAILED"}
    BY <2>1, FinalStatusStep, HistoryStep
  <2> QED
    BY <1>2, <1>4, <2>2
<1> QED
  BY <1>1, <1>2, <1>3, <1>4

\* Within one delivery OCR takes no pair from a COMPLETED row, unless a reply was
\* lost, and no edit reaches a copy.
LEMMA NextRedoneIsRedelivered ==
  ASSUME OriginalInv, [HistoryNext]_<<vars, historyVars>>
  PROVE  RedoneIsRedelivered'
<1> SUFFICES ASSUME NEW i \in Invoices, redone'[i] # {}, "lostReply" \notin Faults
             PROVE  stalled'[i] > 0
  BY DEF RedoneIsRedelivered
<1> USE DEF OriginalInv, QueueInv, TypeOK
<1>1. stalled'[i] >= stalled[i] /\ stalled'[i] \in Nat
  BY QueuedSteps, HistoryStep, TypeOKStep
<1>2. SUFFICES ASSUME OneDelivery(i)
               PROVE  redone[i] # {}
  BY <1>1 DEF OneDelivery, RedoneIsRedelivered
<1>3. ASSUME UserStep
      PROVE  GivenToCopy(i) = {}
  <2>1. ASSUME NEW r \in Requests, PatchWrite(r)
        PROVE  GivenToCopy(i) = {}
    BY <1>2, <2>1 DEF PatchWrite, GoTo, PatchIsSettled, GivenToCopy
  <2>2. ASSUME NEW S, DeleteRows(S)
        PROVE  GivenToCopy(i) = {}
    BY <2>2 DEF DeleteRows, GivenToCopy
  <2>3. CASE UNCHANGED taxKey
    BY <2>3 DEF GivenToCopy
  <2> QED
    BY <1>3, <2>1, <2>2, <2>3
       DEF UserStep, ServiceNext, UploadStep, Put, Create, Rollback, Enqueue, DeleteFind,
           PatchFind, FileFind, Begin, RequestStep, RemoveJob, DeleteFile, DeleteRow,
           FileRead, CleanupDemoUser, rowVars
<1>4. ASSUME OcrStep
      PROVE  TakenFrom(i) = {}
  <2> SUFFICES ASSUME ocrStatus[i] = "COMPLETED"
               PROVE  ocrStatus'[i] = "COMPLETED" /\ taxKey'[i] = taxKey[i]
    BY DEF TakenFrom
  <2>1. PICK w \in Workers : ProcessStep(w) \/ WorkerCrash(w)
    BY <1>4 DEF OcrStep, ProcessorNext
  <2>2. CASE Runs(w, i)
    <3>1. workerPc[w] \notin {"markProcessing", "complete", "catch"}
      BY <1>2, <2>2 DEF StatusFollowsRun, StatusAt, RowExists
    <3> QED
      BY <2>1, <3>1
         DEF ProcessStep, MarkProcessing, ReadFile, Extract, StillThere, DupCheck, Complete,
             Catch, WorkerCrash, AtPc, rowVars
  <2>3. CASE ~Runs(w, i)
    BY <2>1, <2>3
       DEF ProcessStep, MarkProcessing, ReadFile, Extract, StillThere, DupCheck, Complete,
           Catch, WorkerCrash, UpdateStatus, Runs, rowVars
  <2> QED
    BY <2>2, <2>3
<1> QED
  BY <1>3, <1>4 DEF HistoryNext, UserStep, OcrStep, historyVars, HistoryTypeOK

\* Whatever fails, however many workers run and however often the queue delivers
\* a job: a DUPLICATE receipt is a copy of one that counts, or of one that counted
\* until a user edited or deleted it or OCR ran on it again (process: duplicate
\* check and mark-complete; update; remove).
THEOREM CopiesAreJustified == HistorySpec => []DuplicateHasOriginal
<1>1. OriginalInv /\ [HistoryNext]_<<vars, historyVars>> => OriginalInv'
  <2> SUFFICES ASSUME OriginalInv, [HistoryNext]_<<vars, historyVars>>
               PROVE  OriginalInv'
    OBVIOUS
  <2>1. QueueInv' /\ CheckedPairs'
    BY HistoryStep, NextQueueInv, NextCheckedPairs DEF OriginalInv, QueueInv
  <2>2. HistoryTypeOK'
    BY NextHistoryTypeOK DEF OriginalInv
  <2> QED
    BY <2>1, <2>2, NextCopiesHaveOriginals, NextVerdictsHaveOriginals,
       NextRetiredIsSettled, NextRedoneIsRedelivered DEF OriginalInv
<1>2. OriginalInv => DuplicateHasOriginal
  <2> SUFFICES ASSUME OriginalInv, NEW i \in Invoices, ocrStatus[i] = "DUPLICATE"
               PROVE  \E j \in Invoices :
                        /\ Owner[j] = Owner[i]
                        /\ \/ SameReceipt(i, j) /\ ocrStatus[j] = "COMPLETED"
                           \/ taxKey[i] \in retired[j] /\ (j = i => stalled[i] > 0)
                           \/ /\ taxKey[i] \in redone[j]
                              /\ stalled[j] > 0 \/ "lostReply" \in Faults
    BY DEF DuplicateHasOriginal
  <2> USE DEF OriginalInv, QueueInv, TypeOK
  <2>1. PICK j \in Invoices :
          /\ Owner[j] = Owner[i]
          /\ \/ taxKey[i] \in Keys /\ ocrStatus[j] = "COMPLETED" /\ taxKey[j] = taxKey[i]
             \/ taxKey[i] \in retired[j] \cup redone[j]
    BY DEF CopiesHaveOriginals, HadOriginal
  <2>2. CASE taxKey[i] \in Keys /\ ocrStatus[j] = "COMPLETED" /\ taxKey[j] = taxKey[i]
    BY <2>1, <2>2, KeyAssumption DEF SameReceipt
  <2>3. CASE taxKey[i] \in retired[j]
    <3>1. j = i => stalled[i] > 0
      BY <2>3 DEF RetiredIsSettled, OneDelivery
    <3> QED
      BY <2>1, <2>3, <3>1
  <2>4. CASE taxKey[i] \in redone[j]
    BY <2>1, <2>4 DEF RedoneIsRedelivered
  <2> QED
    BY <2>1, <2>2, <2>3, <2>4
<1> QED
  BY InitOriginalInv, <1>1, <1>2, PTL DEF HistorySpec
=============================================================================
