------------------------------ MODULE OcrQueue ------------------------------
(***************************************************************************)
(* BullMQ as src/queue/queue.module.ts configures it: one queue, no retry   *)
(* (attempts 1), a worker per process with concurrency 1, and the stalled   *)
(* job checker at its defaults.  The library is not part of the repository: *)
(* this module is written from how the service and the processor use it.    *)
(* An active job carries the lock of the worker that runs it.  A worker     *)
(* that dies, or cannot renew the lock in time, loses it; the checker then  *)
(* gives the job to a worker again, at most MaxStalledCount times, and a    *)
(* worker that merely lost the lock keeps running process() meanwhile.      *)
(***************************************************************************)
EXTENDS InvoiceState

\* The worker whose lock is on the job is running process() for it.
HolderRuns(i) ==
  /\ lock[i] # NoWorker
  /\ workerPc[lock[i]] # "idle"
  /\ workerInv[lock[i]] = i

\* An idle worker takes a waiting job: process() starts.
Fetch(w, i) ==
  /\ workerPc[w] = "idle"
  /\ job[i] = "waiting"
  /\ job' = [job EXCEPT ![i] = "active"]
  /\ lock' = [lock EXCEPT ![i] = w]
  /\ workerPc' = [workerPc EXCEPT ![w] = "markProcessing"]
  /\ workerInv' = [workerInv EXCEPT ![w] = i]
  /\ UNCHANGED <<users, rowVars, objects, stalled, losses, upload,
                 workerKey, workerDup, reqVars>>

\* process() has returned or thrown.  Only the holder of the lock can move the
\* job; a worker that lost it gets an error, and goes on to the next job.
Ack(w) ==
  LET i == workerInv[w]
  IN  /\ workerPc[w] \in {"returned", "threw"}
      /\ IF lock[i] = w
           THEN /\ job' = [job EXCEPT ![i] =
                             IF workerPc[w] = "returned" THEN "completed" ELSE "failed"]
                /\ lock' = [lock EXCEPT ![i] = NoWorker]
           ELSE UNCHANGED <<job, lock>>
      /\ workerPc' = [workerPc EXCEPT ![w] = "idle"]
      /\ workerInv' = [workerInv EXCEPT ![w] = NoInvoice]
      /\ UNCHANGED <<users, rowVars, objects, stalled, losses, upload,
                     workerKey, workerDup, reqVars>>

\* The lock of a worker that died runs out.
ExpireLock(i) ==
  /\ lock[i] # NoWorker
  /\ ~HolderRuns(i)
  /\ lock' = [lock EXCEPT ![i] = NoWorker]
  /\ UNCHANGED <<users, rowVars, objects, job, stalled, losses, upload,
                 workerVars, reqVars>>

\* A live worker fails to renew its lock in time (event loop, Redis).
LoseLock(i) ==
  /\ HolderRuns(i)
  /\ losses < StallBudget
  /\ losses' = losses + 1
  /\ lock' = [lock EXCEPT ![i] = NoWorker]
  /\ UNCHANGED <<users, rowVars, objects, job, stalled, upload,
                 workerVars, reqVars>>

\* The checker finds an active job without a lock.
Stall(i) ==
  /\ job[i] = "active"
  /\ lock[i] = NoWorker
  /\ stalled' = [stalled EXCEPT ![i] = @ + 1]
  /\ job' = [job EXCEPT ![i] =
               IF stalled'[i] > MaxStalledCount THEN "failed" ELSE "waiting"]
  /\ UNCHANGED <<users, rowVars, objects, lock, losses, upload,
                 workerVars, reqVars>>

QueueNext ==
  \/ \E w \in Workers, i \in Invoices : Fetch(w, i)
  \/ \E w \in Workers : Ack(w)
  \/ \E i \in Invoices : ExpireLock(i) \/ LoseLock(i) \/ Stall(i)
=============================================================================
