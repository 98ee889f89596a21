------------------------ MODULE InvoiceSystemProofs -------------------------
(***************************************************************************)
(* Theorems about InvoiceSystem, for every number of invoices, accounts,    *)
(* workers and requests, every set of faults and every StallBudget.         *)
(***************************************************************************)
EXTENDS InvoiceSystem, TLAPS

-----------------------------------------------------------------------------
(* Type correctness. *)

LEMMA InitTypeOK == Init => TypeOK
BY OwnerAssumption DEF Init, TypeOK, UploadPcs, WorkerPcs, ReqPcs

\* Deleting rows keeps the three columns well typed.
LEMMA DeleteRowsType ==
  ASSUME TypeOK, NEW S, DeleteRows(S)
  PROVE  /\ ocrStatus' \in [Invoices -> Statuses \cup {"ABSENT"}]
         /\ taxKey' \in [Invoices -> Keys \cup {NoKey}]
         /\ edited' \in [Invoices -> BOOLEAN]
BY DEF TypeOK, DeleteRows

\* The steps of the upload, of the requests and of the cleanup script.
LEMMA ServiceTypeOK == TypeOK /\ ServiceNext => TypeOK'
<1> SUFFICES ASSUME TypeOK, ServiceNext
             PROVE  TypeOK'
  OBVIOUS
<1> USE DEF TypeOK, UploadPcs, ReqPcs, Statuses, rowVars, queueVars, workerVars, reqVars
<1>1. ASSUME NEW i \in Invoices, Put(i)
     PROVE  TypeOK'
  BY <1>1 DEF Put
<1>2. ASSUME NEW i \in Invoices, Create(i)
     PROVE  TypeOK'
  BY <1>2 DEF Create
<1>3. ASSUME NEW i \in Invoices, Rollback(i)
     PROVE  TypeOK'
  BY <1>3 DEF Rollback
<1>4. ASSUME NEW i \in Invoices, Enqueue(i)
     PROVE  TypeOK'
  BY <1>4 DEF Enqueue
<1>5. ASSUME NEW r \in Requests, NEW i \in Invoices, DeleteFind(r, i)
     PROVE  TypeOK'
  BY <1>5 DEF DeleteFind, Begin, GoTo
<1>6. ASSUME NEW r \in Requests, NEW i \in Invoices, PatchFind(r, i)
     PROVE  TypeOK'
  BY <1>6 DEF PatchFind, Begin, GoTo
<1>7. ASSUME NEW r \in Requests, NEW i \in Invoices, FileFind(r, i)
     PROVE  TypeOK'
  BY <1>7 DEF FileFind, Begin, GoTo
<1>8. ASSUME NEW r \in Requests, RemoveJob(r)
     PROVE  TypeOK'
  BY <1>8 DEF RemoveJob, GoTo
<1>9. ASSUME NEW r \in Requests, DeleteFile(r)
     PROVE  TypeOK'
  BY <1>9 DEF DeleteFile, GoTo
<1>10. ASSUME NEW r \in Requests, DeleteRow(r)
     PROVE  TypeOK'
  BY DeleteRowsType, <1>10 DEF DeleteRow, GoTo
<1>11. ASSUME NEW r \in Requests, PatchWrite(r)
     PROVE  TypeOK'
  BY <1>11 DEF PatchWrite, GoTo
<1>12. ASSUME NEW r \in Requests, FileRead(r)
     PROVE  TypeOK'
  BY <1>12 DEF FileRead, GoTo
<1>13. ASSUME NEW u \in Users, CleanupDemoUser(u)
     PROVE  TypeOK'
  BY DeleteRowsType, <1>13 DEF CleanupDemoUser
<1> QED
  BY <1>1, <1>2, <1>3, <1>4, <1>5, <1>6, <1>7, <1>8, <1>9, <1>10, <1>11, <1>12, <1>13 DEF ServiceNext, UploadStep, RequestStep

\* The steps of the queue.
LEMMA QueueTypeOK == TypeOK /\ QueueNext => TypeOK'
<1> SUFFICES ASSUME TypeOK, QueueNext
             PROVE  TypeOK'
  OBVIOUS
<1> USE DEF TypeOK, WorkerPcs, rowVars, queueVars, workerVars, reqVars
<1>1. ASSUME NEW w \in Workers, NEW i \in Invoices, Fetch(w, i)
     PROVE  TypeOK'
  BY <1>1 DEF Fetch
<1>2. ASSUME NEW w \in Workers, Ack(w)
     PROVE  TypeOK'
  BY <1>2 DEF Ack
<1>3. ASSUME NEW i \in Invoices, ExpireLock(i)
     PROVE  TypeOK'
  BY <1>3 DEF ExpireLock, HolderRuns
<1>4. ASSUME NEW i \in Invoices, LoseLock(i)
     PROVE  TypeOK'
  BY <1>4 DEF LoseLock, HolderRuns
<1>5. ASSUME NEW i \in Invoices, Stall(i)
     PROVE  TypeOK'
  BY <1>5 DEF Stall
<1> QED
  BY <1>1, <1>2, <1>3, <1>4, <1>5 DEF QueueNext

\* The steps of the OCR processor.
LEMMA ProcessorTypeOK == TypeOK /\ ProcessorNext => TypeOK'
<1> SUFFICES ASSUME TypeOK, ProcessorNext
             PROVE  TypeOK'
  OBVIOUS
<1> USE DEF TypeOK, WorkerPcs, Statuses, rowVars, queueVars, workerVars, reqVars
<1>1. ASSUME NEW w \in Workers, MarkProcessing(w)
     PROVE  TypeOK'
  BY <1>1 DEF MarkProcessing, StepTo, AtPc, UpdateStatus
<1>2. ASSUME NEW w \in Workers, ReadFile(w)
     PROVE  TypeOK'
  BY <1>2 DEF ReadFile, StepTo, AtPc
<1>3. ASSUME NEW w \in Workers, Extract(w)
     PROVE  TypeOK'
  BY <1>3 DEF Extract, StepTo, AtPc
<1>4. ASSUME NEW w \in Workers, StillThere(w)
     PROVE  TypeOK'
  BY <1>4 DEF StillThere, StepTo, AtPc
<1>5. ASSUME NEW w \in Workers, DupCheck(w)
     PROVE  TypeOK'
  BY <1>5 DEF DupCheck, StepTo, AtPc
<1>6. ASSUME NEW w \in Workers, Complete(w)
     PROVE  TypeOK'
  BY <1>6 DEF Complete, StepTo, AtPc, UpdateStatus
<1>7. ASSUME NEW w \in Workers, Catch(w)
     PROVE  TypeOK'
  BY <1>7 DEF Catch, StepTo, AtPc, UpdateStatus
<1>8. ASSUME NEW w \in Workers, WorkerCrash(w)
     PROVE  TypeOK'
  BY <1>8 DEF WorkerCrash, StepTo, AtPc
<1> QED
  BY <1>1, <1>2, <1>3, <1>4, <1>5, <1>6, <1>7, <1>8 DEF ProcessorNext, ProcessStep

LEMMA TypeOKStep == TypeOK /\ [Next]_vars => TypeOK'
<1>1. TypeOK /\ UNCHANGED vars => TypeOK'
  BY DEF TypeOK, vars, rowVars, queueVars, workerVars, reqVars
<1> QED
  BY <1>1, ServiceTypeOK, QueueTypeOK, ProcessorTypeOK DEF Next

\* The state always has the shape TypeOK gives it (all components).
THEOREM TypeCorrect == Spec => []TypeOK
BY InitTypeOK, TypeOKStep, PTL DEF Spec
=============================================================================
