---------------------------- MODULE InvoiceState ----------------------------
(***************************************************************************)
(* The state of the receipt pipeline of taxsmart-backend: the PostgreSQL    *)
(* rows (prisma/schema.prisma), the private object store that holds the     *)
(* receipt images, the Redis queue "invoice-ocr", and the control state of  *)
(* the calls in flight: one upload per invoice, the OCR workers and the     *)
(* DELETE, PATCH and file requests.  The modules InvoicesService, OcrQueue  *)
(* and InvoiceOcrProcessor extend this one; each adds the steps of its part *)
(* and InvoiceSystem puts them together.                                    *)
(***************************************************************************)
EXTENDS Integers, FiniteSets

CONSTANTS
  Invoices,      \* the invoice ids the uploads draw (randomUUID: never twice)
  Users,         \* the accounts
  Owner,         \* Owner[i]: the account that uploads invoice i
  DemoUser,      \* the accounts scripts/cleanup-demo-user.ts removes (0 or 1)
  Keys,          \* the pairs (merchantTaxId, invoiceNumber) a receipt can carry
  NoKey,         \* the pair of a receipt that lacks one or both numbers
  Workers,       \* OCR workers: one per server process (concurrency 1)
  NoWorker,
  NoInvoice,
  Requests,      \* the DELETE, PATCH and file requests, each sent once
  Ops,           \* which of them are sent
  Faults,        \* which faults happen
  StallBudget    \* bound: worker crashes and lost job locks in a behaviour

Statuses == {"PENDING", "PROCESSING", "COMPLETED", "FAILED", "DUPLICATE"}

\* The statuses OCR ends in, and those it is still to leave.
Terminal   == {"COMPLETED", "FAILED", "DUPLICATE"}
InProgress == {"PENDING", "PROCESSING"}

\* "storage", "database" and "redis": a call fails and has no effect.
\* "lostReply": a write takes effect and its caller gets an error.
\* "crash": the process that serves an upload or a request dies.
FaultKinds == {"storage", "database", "redis", "lostReply", "crash"}

\* BullMQ's maxStalledCount, left at its default by queue.module.ts.
MaxStalledCount == 1

ASSUME OwnerAssumption == Owner \in [Invoices -> Users] /\ DemoUser \subseteq Users
ASSUME KeyAssumption == NoKey \notin Keys
ASSUME WorkerAssumption == NoWorker \notin Workers /\ NoInvoice \notin Invoices
ASSUME BoundAssumption ==
  /\ Ops \subseteq {"delete", "patch", "getFile"}
  /\ Faults \subseteq FaultKinds
  /\ StallBudget \in Nat

VARIABLES
  users,       \* accounts that exist
  ocrStatus,   \* Invoice.ocrStatus, "ABSENT" when there is no row
  taxKey,      \* Invoice.(merchantTaxId, invoiceNumber)
  edited,      \* the row holds values the user entered with PATCH
  objects,     \* invoices whose object is in the store
  job,         \* the BullMQ job whose jobId is the invoice id
  lock,        \* the worker that holds the job's lock
  stalled,     \* how often the job has been found stalled
  losses,      \* worker crashes and lost locks so far
  upload,      \* where the upload of the invoice is
  workerPc, workerInv, workerKey, workerDup,   \* InvoiceOcrProcessor.process
  reqPc, reqInv                                \* remove, update, getInvoiceFile

rowVars    == <<ocrStatus, taxKey, edited>>
queueVars  == <<job, lock, stalled, losses>>
workerVars == <<workerPc, workerInv, workerKey, workerDup>>
reqVars    == <<reqPc, reqInv>>
vars == <<users, rowVars, objects, queueVars, upload, workerVars, reqVars>>

UploadPcs ==
  {"idle",        \* not sent yet
   "create",      \* the object is stored, the row is not
   "rollback",    \* the row could not be created: the object is to be deleted
   "enqueue",     \* the row is created, the job is not
   "accepted",    \* 202: object, row and job exist
   "rejected",    \* error, nothing stored
   "rolledBack",  \* error, the object was deleted again
   "leaked",      \* error, the object may be left behind
   "unqueued"}    \* error after the row was created

WorkerPcs ==
  {"idle", "markProcessing", "readFile", "extract", "stillThere", "dupCheck",
   "complete", "catch",
   "returned",    \* process() returned: the job is to be acknowledged
   "threw"}       \* process() threw: the job is to be failed

ReqPcs ==
  {"idle",
   "removeJob", "deleteFile", "deleteRow",   \* DELETE
   "patchWrite",                             \* PATCH
   "readFile",                               \* GET :id/file
   "deleted",     \* 204
   "refused",     \* error from job.remove(): the job is locked, or Redis fails
   "aborted",     \* error past the queue, with the file and the row in place
   "half",        \* error, after the storage delete, and the row was not deleted
   "gone",        \* error from the row's delete, and the row is gone
   "fileMissing", \* GET: the row was there and its file was not
   "done"}        \* every other end of PATCH and GET: 200, 404, 400, 500

TypeOK ==
  /\ users \subseteq Users
  /\ ocrStatus \in [Invoices -> Statuses \cup {"ABSENT"}]
  /\ taxKey \in [Invoices -> Keys \cup {NoKey}]
  /\ edited \in [Invoices -> BOOLEAN]
  /\ objects \subseteq Invoices
  /\ job \in [Invoices -> {"none", "waiting", "active", "completed", "failed"}]
  /\ lock \in [Invoices -> Workers \cup {NoWorker}]
  /\ stalled \in [Invoices -> Nat]
  /\ losses \in Nat
  /\ upload \in [Invoices -> UploadPcs]
  /\ workerPc \in [Workers -> WorkerPcs]
  /\ workerInv \in [Workers -> Invoices \cup {NoInvoice}]
  /\ workerKey \in [Workers -> Keys \cup {NoKey}]
  /\ workerDup \in [Workers -> BOOLEAN]
  /\ reqPc \in [Requests -> ReqPcs]
  /\ reqInv \in [Requests -> Invoices \cup {NoInvoice}]

Init ==
  /\ users = Users
  /\ ocrStatus = [i \in Invoices |-> "ABSENT"]
  /\ taxKey = [i \in Invoices |-> NoKey]
  /\ edited = [i \in Invoices |-> FALSE]
  /\ objects = {}
  /\ job = [i \in Invoices |-> "none"]
  /\ lock = [i \in Invoices |-> NoWorker]
  /\ stalled = [i \in Invoices |-> 0]
  /\ losses = 0
  /\ upload = [i \in Invoices |-> "idle"]
  /\ workerPc = [w \in Workers |-> "idle"]
  /\ workerInv = [w \in Workers |-> NoInvoice]
  /\ workerKey = [w \in Workers |-> NoKey]
  /\ workerDup = [w \in Workers |-> FALSE]
  /\ reqPc = [r \in Requests |-> "idle"]
  /\ reqInv = [r \in Requests |-> NoInvoice]

-----------------------------------------------------------------------------
(* The database. *)

RowExists(i) == ocrStatus[i] # "ABSENT"

\* The rows of S are gone after the step (a delete, or the cascade of one).
DeleteRows(S) ==
  /\ ocrStatus' = [i \in Invoices |-> IF i \in S THEN "ABSENT" ELSE ocrStatus[i]]
  /\ taxKey' = [i \in Invoices |-> IF i \in S THEN NoKey ELSE taxKey[i]]
  /\ edited' = [i \in Invoices |-> IF i \in S THEN FALSE ELSE edited[i]]
=============================================================================
