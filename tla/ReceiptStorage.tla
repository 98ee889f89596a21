--------------------------- MODULE ReceiptStorage ---------------------------
(***************************************************************************)
(* src/invoices/storage: the two adapters of InvoiceFileStorage, the local  *)
(* disk and an S3 bucket, the factory that picks one when a server process  *)
(* starts, and the calls of InvoicesService that use them.  InvoicesService *)
(* takes put, get and delete for single steps; here they have their own.    *)
(* No OCR runs, so rows stay PENDING and a DELETE first looks for the job.  *)
(***************************************************************************)
EXTENDS Naturals

CONSTANTS
  Receipts,
  NoReceipt,
  Legacy,        \* receipts from before the storage keys: "uploads/..."
  FileType,      \* FileType[r]: the mime type of the upload
  Readers,       \* GET /invoices/:id/file requests, each sent once
  Deleters,      \* DELETE /invoices/:id requests, each sent once
  Settings,      \* the configurations a process may be started with
  Faults,        \* which faults happen
  RestartBudget  \* bound: restarts of the server in a behaviour

MimeTypes == {"image/jpeg", "image/png", "image/webp", "application/pdf"}

ASSUME ReceiptAssumption ==
  Legacy \subseteq Receipts /\ NoReceipt \notin Receipts /\ FileType \in [Receipts -> MimeTypes]
ASSUME RequestAssumption == Readers \cap Deleters = {}
ASSUME SettingAssumption ==
  Settings \subseteq [driver : {"unset", "local", "s3", "other"}, credentials : BOOLEAN]
\* "diskLoss": a restart finds an empty disk; the others as in InvoiceState.
ASSUME StorageFaultAssumption ==
  Faults \subseteq {"storage", "database", "redis", "lostReply", "diskLoss"}

VARIABLES
  driver,     \* the adapter in use; "down": the process did not start
  restarts,
  file,       \* file[d][r]: what adapter d holds under the key of r
  rows,       \* receipts that have a row
  queued,     \* receipts that have a job
  upload,     \* where the upload of r is
  reqPc, reqInv, body,  \* the requests; body: what the open file or stream held
  home,       \* history: where a file of r was put and not lost since
  erasedIn    \* history: the adapters a DELETE of r went to

storeVars == <<file, rows, queued>>
reqVars   == <<reqPc, reqInv, body>>
vars == <<driver, restarts, storeVars, upload, reqVars, home, erasedIn>>

Adapters == {"local", "s3"}
Contents == {"none", "part", "whole"}
Requests == Readers \cup Deleters

UploadRunning == {"write", "create", "rollback", "enqueue"}
ReqRunning    == {"open", "read", "removeJob", "deleteFile", "deleteRow"}

StorageTypeOK ==
  /\ driver \in Adapters \cup {"down"}
  /\ restarts \in Nat
  /\ file \in [Adapters -> [Receipts -> Contents]]
  /\ rows \subseteq Receipts /\ queued \subseteq Receipts
  /\ upload \in [Receipts -> UploadRunning \cup
       {"idle", "accepted", "rejected", "rolledBack", "leaked", "unqueued", "cut"}]
  /\ reqPc \in [Requests -> ReqRunning \cup
       {"idle", "served", "notFound", "error", "failed", "deleted", "refused",
        "aborted", "half", "gone", "cut"}]
  /\ reqInv \in [Requests -> Receipts \cup {NoReceipt}]
  /\ body \in [Requests -> Contents]
  /\ home \in [Receipts -> Adapters \cup {"none"}]
  /\ erasedIn \in [Receipts -> SUBSET Adapters]

-----------------------------------------------------------------------------
(* The factory, keys and types. *)

\* Mutated DriverOf: the setting itself, unset and misspelt ones included.
DriverOf_Raw(s) == s.driver

\* createInvoiceFileStorage: "s3" needs its settings or the process does not
\* start; whatever else STORAGE_DRIVER says means the local disk.
DriverOf(s) ==
  CASE s.driver # "s3" -> "local"
    [] s.driver = "s3" /\ s.credentials -> "s3"
    [] OTHER -> "down"

\* assertValidStorageKey of the key in the row.
ValidKey(r) == r \notin Legacy

\* MIME_TO_EXT and EXT_TO_MIME: the type travels as the extension of the key.
Extension(mime) ==
  CASE mime = "image/jpeg" -> ".jpg"
    [] mime = "image/png" -> ".png"
    [] mime = "image/webp" -> ".webp"
    [] mime = "application/pdf" -> ".pdf"
    [] OTHER -> ".bin"

ContentType(extension) ==
  CASE extension \in {".jpg", ".jpeg"} -> "image/jpeg"
    [] extension = ".png" -> "image/png"
    [] extension = ".webp" -> "image/webp"
    [] extension = ".pdf" -> "application/pdf"
    [] OTHER -> "application/octet-stream"

\* The `code` of the error about a missing file: Node's, while the S3 client
\* has the name NoSuchKey in other fields.
MissingCode == IF driver = "local" THEN "ENOENT" ELSE "undefined"

\* Mutated IsMissing: only the S3 name is recognised.
IsMissing_S3Only(code) == code = "NoSuchKey"

IsMissing(code) == code \in {"ENOENT", "NoSuchKey"}

Init ==
  /\ driver \in {DriverOf(s) : s \in Settings}
  /\ restarts = 0
  /\ file = [d \in Adapters |-> [r \in Receipts |-> "none"]]
  /\ rows = Legacy
  /\ queued = {}
  /\ upload = [r \in Receipts |-> IF r \in Legacy THEN "accepted" ELSE "idle"]
  /\ reqPc = [q \in Requests |-> "idle"]
  /\ reqInv = [q \in Requests |-> NoReceipt]
  /\ body = [q \in Requests |-> "none"]
  /\ home = [r \in Receipts |-> "none"]
  /\ erasedIn = [r \in Receipts |-> {}]

UploadTo(r, pc) == upload' = [upload EXCEPT ![r] = pc]
GoTo(q, pc)     == reqPc' = [reqPc EXCEPT ![q] = pc]
Hold(r, c)      == file' = [file EXCEPT ![driver][r] = c]
Erased(r)       == erasedIn' = [erasedIn EXCEPT ![r] = @ \cup {driver}]

-----------------------------------------------------------------------------
(* enqueueUpload *)

\* Mutated PutOpen: writeFile is not awaited.
PutOpen_NotAwaited(r) ==
  /\ upload[r] = "idle" /\ driver = "local"
  /\ Hold(r, "part")
  /\ UploadTo(r, "create")
  /\ home' = [home EXCEPT ![r] = driver]
  /\ UNCHANGED <<driver, restarts, rows, queued, reqVars, erasedIn>>

\* LocalInvoiceFileStorage.put up to the open of writeFile, which leaves an
\* empty file.  mkdir or the open may fail.
PutOpen(r) ==
  /\ upload[r] = "idle" /\ driver = "local"
  /\ \/ /\ Hold(r, "part")
        /\ UploadTo(r, "write")
        /\ home' = [home EXCEPT ![r] = driver]
     \/ /\ "storage" \in Faults
        /\ UploadTo(r, "rejected")
        /\ UNCHANGED <<file, home>>
  /\ UNCHANGED <<driver, restarts, rows, queued, reqVars, erasedIn>>

\* The rest of writeFile: the file is whole, or the disk is full.
PutWrite(r) ==
  /\ upload[r] = "write"
  /\ \/ Hold(r, "whole") /\ UploadTo(r, "create")
     \/ "storage" \in Faults /\ UploadTo(r, "leaked") /\ UNCHANGED file
  /\ UNCHANGED <<driver, restarts, rows, queued, reqVars, home, erasedIn>>

\* S3InvoiceFileStorage.put: the object appears whole or not at all, and the
\* call may fail either way.
PutObject(r) ==
  /\ upload[r] = "idle" /\ driver = "s3"
  /\ \/ /\ Hold(r, "whole")
        /\ home' = [home EXCEPT ![r] = driver]
        /\ \/ UploadTo(r, "create")
           \/ "storage" \in Faults /\ UploadTo(r, "leaked")
     \/ /\ "storage" \in Faults
        /\ UploadTo(r, "rejected")
        /\ UNCHANGED <<file, home>>
  /\ UNCHANGED <<driver, restarts, rows, queued, reqVars, erasedIn>>

\* Mutated CreateRow: a failed create is reported without undoing the put.
CreateRow_NoRollback(r) ==
  /\ upload[r] = "create"
  /\ \/ rows' = rows \cup {r} /\ UploadTo(r, "enqueue")
     \/ "database" \in Faults /\ UploadTo(r, "rejected") /\ UNCHANGED rows
  /\ UNCHANGED <<driver, restarts, file, queued, reqVars, home, erasedIn>>

\* prisma.invoice.create, with its catch block.
CreateRow(r) ==
  /\ upload[r] = "create"
  /\ \/ /\ rows' = rows \cup {r}
        /\ \/ UploadTo(r, "enqueue")
           \/ "lostReply" \in Faults /\ UploadTo(r, "rollback")
     \/ /\ "database" \in Faults
        /\ UploadTo(r, "rollback")
        /\ UNCHANGED rows
  /\ UNCHANGED <<driver, restarts, file, queued, reqVars, home, erasedIn>>

\* The compensating delete; its error, a missing file included, is swallowed.
Rollback(r) ==
  /\ upload[r] = "rollback"
  /\ \/ Hold(r, "none") /\ UploadTo(r, "rolledBack")
     \/ "storage" \in Faults /\ UploadTo(r, "leaked") /\ UNCHANGED file
  /\ UNCHANGED <<driver, restarts, rows, queued, reqVars, home, erasedIn>>

\* Mutated AddJob: an error of queue.add deletes the file but not the row.
AddJob_DropsFile(r) ==
  /\ upload[r] = "enqueue"
  /\ \/ queued' = queued \cup {r} /\ UploadTo(r, "accepted") /\ UNCHANGED file
     \/ "redis" \in Faults /\ Hold(r, "none") /\ UploadTo(r, "unqueued") /\ UNCHANGED queued
  /\ UNCHANGED <<driver, restarts, rows, reqVars, home, erasedIn>>

AddJob(r) ==
  /\ upload[r] = "enqueue"
  /\ \/ /\ queued' = queued \cup {r}
        /\ \/ UploadTo(r, "accepted")
           \/ "lostReply" \in Faults /\ UploadTo(r, "unqueued")
     \/ "redis" \in Faults /\ UploadTo(r, "unqueued") /\ UNCHANGED queued
  /\ UNCHANGED <<driver, restarts, file, rows, reqVars, home, erasedIn>>

-----------------------------------------------------------------------------
(* getInvoiceFile *)

Find(q, r, pc) ==
  /\ driver # "down"
  /\ reqPc[q] = "idle" /\ r \in rows
  /\ GoTo(q, pc)
  /\ reqInv' = [reqInv EXCEPT ![q] = r]
  /\ UNCHANGED <<driver, restarts, storeVars, upload, body, home, erasedIn>>

\* findFirst finds the row; a key that is not valid answers 404.
FileFind(q, r) == q \in Readers /\ Find(q, r, IF ValidKey(r) THEN "open" ELSE "notFound")

\* The open of readFile, or GetObject up to its headers.  From here on the
\* reader keeps the file descriptor or the stream, whatever is deleted.  (An
\* object that is there has a Body, so the adapter's own ENOENT never occurs.)
FileOpen(q) ==
  LET found == file[driver][reqInv[q]]
  IN  /\ reqPc[q] = "open"
      /\ \/ /\ found # "none"
            /\ body' = [body EXCEPT ![q] = found]
            /\ GoTo(q, "read")
         \/ /\ found = "none"
            /\ GoTo(q, IF IsMissing(MissingCode) THEN "notFound" ELSE "error")
            /\ UNCHANGED body
         \/ "storage" \in Faults /\ GoTo(q, "failed") /\ UNCHANGED body
      /\ UNCHANGED <<driver, restarts, storeVars, upload, reqInv, home, erasedIn>>

\* The rest of readFile, or transformToByteArray.
FileRead(q) ==
  /\ reqPc[q] = "read"
  /\ \/ GoTo(q, "served")
     \/ "storage" \in Faults /\ GoTo(q, "failed")
  /\ UNCHANGED <<driver, restarts, storeVars, upload, reqInv, body, home, erasedIn>>

-----------------------------------------------------------------------------
(* remove *)

DeleteFind(q, r) == q \in Deleters /\ Find(q, r, "removeJob")

RemoveJob(q) ==
  /\ reqPc[q] = "removeJob"
  /\ \/ /\ queued' = queued \ {reqInv[q]}
        /\ \/ GoTo(q, "deleteFile")
           \/ "lostReply" \in Faults /\ GoTo(q, "aborted")
     \/ "redis" \in Faults /\ GoTo(q, "refused") /\ UNCHANGED queued
  /\ UNCHANGED <<driver, restarts, file, rows, upload, reqInv, body, home, erasedIn>>

\* Mutated DeleteFile: only the local adapter deletes.
DeleteFile_LocalOnly(q) ==
  /\ reqPc[q] = "deleteFile"
  /\ IF driver = "local" THEN Hold(reqInv[q], "none") ELSE UNCHANGED file
  /\ GoTo(q, "deleteRow")
  /\ Erased(reqInv[q])
  /\ UNCHANGED <<driver, restarts, rows, queued, upload, reqInv, body, home>>

\* unlink fails for a missing file, DeleteObject does not.  remove goes on when
\* the error says so, and when the key is not valid and nothing was asked.
DeleteFile(q) ==
  LET r == reqInv[q]
  IN  /\ reqPc[q] = "deleteFile"
      /\ \/ /\ ValidKey(r)
            /\ file[driver][r] # "none" \/ driver = "s3"
            /\ Hold(r, "none")
            /\ Erased(r)
            /\ \/ GoTo(q, "deleteRow")
               \/ "lostReply" \in Faults /\ GoTo(q, "half")
         \/ /\ ValidKey(r) /\ file[driver][r] = "none" /\ driver = "local"
            /\ Erased(r)
            /\ GoTo(q, IF IsMissing(MissingCode) THEN "deleteRow" ELSE "error")
            /\ UNCHANGED file
         \/ ~ValidKey(r) /\ GoTo(q, "deleteRow") /\ UNCHANGED <<file, erasedIn>>
         \/ /\ ValidKey(r) /\ "storage" \in Faults
            /\ GoTo(q, "aborted")
            /\ UNCHANGED <<file, erasedIn>>
      /\ UNCHANGED <<driver, restarts, rows, queued, upload, reqInv, body, home>>

\* prisma.invoice.delete: 204, or an error when the row is already gone.
DeleteRow(q) ==
  LET r == reqInv[q]
  IN  /\ reqPc[q] = "deleteRow"
      /\ \/ /\ r \in rows
            /\ rows' = rows \ {r}
            /\ \/ GoTo(q, "deleted")
               \/ "lostReply" \in Faults /\ GoTo(q, "gone")
         \/ r \notin rows /\ GoTo(q, "gone") /\ UNCHANGED rows
         \/ "database" \in Faults /\ GoTo(q, "half") /\ UNCHANGED rows
      /\ UNCHANGED <<driver, restarts, file, queued, upload, reqInv, body, home, erasedIn>>

-----------------------------------------------------------------------------
(* The process. *)

\* The server is stopped and started, with any of the configurations: calls in
\* flight are cut off, and the disk is the old one or a new, empty one.
Restart(s) ==
  /\ restarts < RestartBudget
  /\ restarts' = restarts + 1
  /\ driver' = DriverOf(s)
  /\ upload' = [r \in Receipts |-> IF upload[r] \in UploadRunning THEN "cut" ELSE upload[r]]
  /\ reqPc' = [q \in Requests |-> IF reqPc[q] \in ReqRunning THEN "cut" ELSE reqPc[q]]
  /\ \/ UNCHANGED <<file, home>>
     \/ /\ "diskLoss" \in Faults
        /\ file' = [file EXCEPT !["local"] = [r \in Receipts |-> "none"]]
        /\ home' = [r \in Receipts |-> IF home[r] = "local" THEN "none" ELSE home[r]]
  /\ UNCHANGED <<rows, queued, reqInv, body, erasedIn>>

Next ==
  \/ \E r \in Receipts :
       PutOpen(r) \/ PutWrite(r) \/ PutObject(r) \/ CreateRow(r) \/ Rollback(r) \/ AddJob(r)
  \/ \E q \in Requests, r \in Receipts : FileFind(q, r) \/ DeleteFind(q, r)
  \/ \E q \in Requests :
       FileOpen(q) \/ FileRead(q) \/ RemoveJob(q) \/ DeleteFile(q) \/ DeleteRow(q)
  \/ \E s \in Settings : Restart(s)

Spec == Init /\ [][Next]_vars

-----------------------------------------------------------------------------
(* Properties. *)

\* A file request that answers 200 sends the whole file that was uploaded, with
\* the type it was uploaded with, although a local file is first empty and may
\* be deleted while it is read (put before create, readFile's descriptor).
ServedAsUploaded ==
  \A q \in Readers :
    reqPc[q] = "served" =>
      /\ body[q] = "whole"
      /\ ContentType(Extension(FileType[reqInv[q]])) = FileType[reqInv[q]]

\* A file request does not find the file of a row only if the file was put
\* somewhere else or lost, if a DELETE is past it, or if the upload was undone
\* although its row exists (getInvoiceFile, across a change of STORAGE_DRIVER).
MissingIsExplained ==
  [][\A q \in Readers :
       reqPc[q] = "open" /\ reqPc'[q] \in {"notFound", "error"} =>
         LET r == reqInv[q]
         IN  \/ home[r] # driver
             \/ driver \in erasedIn[r]
             \/ upload[r] = "rolledBack" /\ "lostReply" \in Faults]_vars

\* A file without a row is the trace of an upload under way or cut short, or of
\* a DELETE that ran when the other adapter was in use (remove).
LeftoversAreExplained ==
  \A d \in Adapters, r \in Receipts :
    file[d][r] # "none" =>
      \/ r \in rows
      \/ upload[r] \in {"write", "create", "rollback", "leaked", "cut"}
      \/ erasedIn[r] \notin {{}, {d}}

\* "A missing file or a key that is not valid does not block the delete"
\* (invoices.service.ts:315): no DELETE ends because of what the store lacks,
\* after a concurrent DELETE, a lost disk, a change of adapter or an old key.
DeleteIsNotBlocked == \A q \in Deleters : reqPc[q] # "error"

\* The tests and the 'NoSuchKey' of getInvoiceFile promise 404 for a missing
\* file (invoices.service.get-file.spec.ts:55).
MissingFileIs404 == \A q \in Readers : reqPc[q] # "error"

-----------------------------------------------------------------------------
(* What InvoiceSystem takes for granted. *)

Stored == {r \in Receipts :
             upload[r] # "write" /\ \E d \in Adapters : file[d][r] # "none"}

\* The outcome of a read is settled when the file is opened.
ServicePc(q) ==
  CASE reqPc[q] = "open" -> "readFile"
    [] reqPc[q] \in {"read", "served", "failed"} -> "done"
    [] reqPc[q] \in {"notFound", "error"} -> "fileMissing"
    [] OTHER -> reqPc[q]

Service == INSTANCE InvoiceSystem WITH
  Invoices <- Receipts, NoInvoice <- NoReceipt,
  Users <- {"owner"}, Owner <- [r \in Receipts |-> "owner"], DemoUser <- {},
  Keys <- {}, NoKey <- "noKey", Workers <- {}, NoWorker <- "noWorker",
  Ops <- {"delete", "getFile"}, StallBudget <- 0,
  users <- {"owner"},
  ocrStatus <- [r \in Receipts |-> IF r \in rows THEN "PENDING" ELSE "ABSENT"],
  taxKey <- [r \in Receipts |-> "noKey"], edited <- [r \in Receipts |-> FALSE],
  objects <- Stored,
  job <- [r \in Receipts |-> IF r \in queued THEN "waiting" ELSE "none"],
  lock <- [r \in Receipts |-> "noWorker"], stalled <- [r \in Receipts |-> 0], losses <- 0,
  upload <- [r \in Receipts |-> IF upload[r] = "write" THEN "idle" ELSE upload[r]],
  workerPc <- [w \in {} |-> "idle"], workerInv <- [w \in {} |-> NoReceipt],
  workerKey <- [w \in {} |-> "noKey"], workerDup <- [w \in {} |-> FALSE],
  reqPc <- [q \in Requests |-> ServicePc(q)]

\* Either adapter does what InvoicesService takes put, get and delete for: while
\* the process is not restarted, and but for old keys, which InvoicesService does
\* not have, every step is one of its steps, or none, on one set of objects.
ImplementsService ==
  [][restarts' = 0 /\ (\A q \in Requests : reqInv'[q] \notin Legacy)
       => [Service!Next]_(Service!vars)]_vars
=============================================================================
