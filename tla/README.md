# A formal model of taxsmart-backend

taxsmart-backend is a NestJS service. A user uploads a photograph of a receipt,
a background worker has it read by Gemini, the user corrects or deletes the
result, and `GET /tax/savings` estimates the tax saved. This directory holds
TLA+ models of the parts where something can go wrong that a unit test would
hardly reach, the TLC configurations that check them, and TLAPS proofs of the
main safety properties. Paths below are those of the repository.

Run from this directory: `tlc -config pipeline.cfg MCInvoiceSystem.tla`
(likewise for the other runs), `tlapm InvoiceStoreProofs.tla`. `PROJECT.json`
maps each definition to the lines it models, names the runs, the theorems and
the hazards, and gives for each checked property a mutant: a plausible bug,
defined next to the operator it replaces, which makes that property fail.

## 1. The system

| Component | State | Operations that change it | Why it is hard |
|---|---|---|---|
| Invoice service (`src/invoices`) | `invoices` rows, objects, jobs | `enqueueUpload`, `update`, `remove`, (`getInvoiceFile` reads twice) | three stores, no transaction across them; every `await` lets other calls run |
| OCR processor (`src/queue/invoice-ocr.processor.ts`) | `invoices` rows | `process` | runs minutes, while the row is edited or deleted; may be run again |
| OCR queue (BullMQ, `queue.module.ts`) | jobs, locks, stalled counters | `add`, `job.remove`, fetch, acknowledge, stalled check | at-least-once delivery, locks that expire under a live worker |
| File storage (`src/invoices/storage`) | files or objects `invoices/{user}/{id}.{ext}` | `put`, `delete`; `get` reads in two steps | fails independently of the database; two adapters with different errors; the choice between them is not recorded anywhere |
| Gemini client (`src/gemini`) | none | none | any answer, or an error |
| Authentication (`src/auth`) | `users`, `refresh_tokens`, the browser's cookie | `register`, `login`, `refresh`, `logout` | several tabs; delete and create of a rotation are two statements |
| Tax (`src/tax`) | `tax_profiles`; reads `invoices` | `upsertProfile`; `getSavings` reads | two reads without a snapshot; brackets; rounding |
| Cleanup script (`scripts/cleanup-demo-user.ts`) | `users` and, by cascade, the rest | one delete | runs against a live system; knows only the database |
| Guards, roles, admin list (`src/auth`, `src/admin`) | none; `users.role`, and the access token in the browser | none; each request is looked up again | a token outlives the account and the role it names |
| List and detail queries, start-up, health | none | none | pure reads and wiring |

How they interact. `POST /invoices/upload` stores the object, inserts a row
`PENDING`, adds a job whose id is the invoice id, and answers 202. A worker
(one per server process, concurrency 1) marks the row `PROCESSING`, reads the
object, asks Gemini, looks for a duplicate and writes `COMPLETED`, `DUPLICATE`
or `FAILED`. PATCH edits a row whose OCR is over. DELETE removes the job, the
object and the row, in this order. `GET /tax/savings` reads the profile and
then the rows. Nothing but these stores is shared, and the only coordination is
the job's lock, the unique index on `users.email`, the foreign keys, and
Prisma's error `P2025` for a row that is gone.

What makes each part correct:

* service and storage: object and row exist together, except for named
  failures; a DELETE that answered 204 leaves nothing; no read fails but for a
  DELETE;
* processor and queue: a deleted row does not come back; the status follows its
  life cycle; a row in progress has something that will move it; final statuses
  and the user's edits survive; duplicates are found and have, or had, an original; an
  accepted receipt is settled in the end;
* sessions: one account per email; rotation never multiplies a session; a dead
  session stays dead; a browser is not left with a used cookie;
* storage: what is served is what was uploaded; a missing file has a known cause,
  and never blocks a DELETE; a DELETE that is repeated succeeds;
* guards: a token gives no more than the account has now, and nobody else's;
* estimate: it equals its definition on one consistent set of assumptions.

## 2. The modules

    InvoiceState ---+--> InvoicesService ------+
     (variables)    +--> OcrQueue -------------+--> InvoiceSystem --> MCInvoiceSystem
                    +--> InvoiceOcrProcessor --+       |    \ INSTANCE
                                                       |     InvoiceLifecycle (abstract)
                                                       +--> DeleteRetry --> MCDeleteRetry
                                                       +--> OriginalHistory --> MCOriginalHistory
                                                       +--> InvoiceSystemProofs --+--> InvoiceStoreProofs
                                                                                  +--> InvoiceQueueProofs
                    OriginalHistory, InvoiceQueueProofs --> InvoiceDuplicateProofs
    ReceiptStorage --+--> MCReceiptStorage
          \          +--> ReceiptStorageProofs
           \ INSTANCE InvoiceSystem (the one-step store it implements)
    AuthSessions --+--> MCAuthSessions
                   +--> AuthSessionsProofs --------+
                   +--> AccessControl --+----------+--> AccessControlProofs
                                        +--> MCAccessControl
    TaxCalculator --> TaxSavings --+--> MCTaxSavings
                                   +--> TaxSavingsProofs

**InvoiceState** declares the state. An invoice id is drawn by `randomUUID`, so
it never returns; its row is `ocrStatus` (`"ABSENT"` without a row), `taxKey`
(the pair tax id and invoice number, all the duplicate check looks at) and
`edited` (the row holds values entered by PATCH); the store is the set
`objects`; the queue is `job`, `lock` and `stalled`. `upload`, `workerPc` and
`reqPc` say at which `await` a call is; a call's local variables that are used
after an await (`workerKey`, `workerDup`, `reqInv`) are variables too.

**InvoicesService** has one action per stretch of code between two awaits:
`Put`, `Create`, `Rollback` and `Enqueue` (`enqueueUpload`); `DeleteFind`,
`RemoveJob`, `DeleteFile` and `DeleteRow` (`remove`); `PatchFind` and
`PatchWrite` (`update`); `FileFind` and `FileRead` (`getInvoiceFile`); and
`CleanupDemoUser`. Each action has a disjunct per outcome of its call: success,
the errors the code distinguishes, and the faults. A call that is over stays where
it ended, for the properties to speak of: a DELETE in `"deleted"` (204), `"half"`
(the row is still there), `"gone"` (somebody else took the row, or the reply was
lost), `"refused"` or `"aborted"`; a PATCH or a read in `"done"` or `"fileMissing"`.

**OcrQueue** is BullMQ seen from the code: what `add`, `getJob().remove()` and a
returning or throwing `process()` do to a job. It is written from the library's
documented behaviour at the options in `queue.module.ts`: one attempt, one
stalled retry, a lock that is required to move or remove an active job.

**InvoiceOcrProcessor** is `process()`: `MarkProcessing`, `ReadFile`, `Extract`,
`StillThere`, `DupCheck`, `Complete` and `Catch`, and `WorkerCrash` at any of
them. Reads that directly follow one another about one row (is it still there,
whose is it) are one step: a row that is gone stays gone, so a later read finds
what an earlier one would have found at that moment or less. In the same way
`getJob` and `remove` of a job are one step.

**InvoiceSystem** interleaves the three and states the properties.
**InvoiceLifecycle** is the abstract specification: a receipt is `PENDING`, then
`PROCESSING`, then in one final status, and may be deleted at any time, once.
`InvoiceSystem` implements it (`ImplementsLifecycle`) with the mapping `Phase`.

**OriginalHistory** adds to every step the record of the originals it takes away:
`retired[j]` has the pairs row `j` was `COMPLETED` with until a user edited or deleted
it, `redone[j]` those that OCR took (a second delivery, or a lost reply). A copy
outlives its original, so only a history can tell whether it had one. No step is
restricted (`HistoryStep` in `InvoiceDuplicateProofs`).

**DeleteRetry** adds clients that send a DELETE again after every error
(`Retry`), and the fairness under which that succeeds.

**ReceiptStorage** opens the storage steps of `InvoicesService`: the local disk
(a file is first empty, then whole; an open file survives `unlink`; a missing
one is `ENOENT`) and S3 (all or nothing; deleting nothing succeeds; a missing
object has no `code`), the factory, and restarts with another `STORAGE_DRIVER`.
`ImplementsService` maps it to `InvoiceSystem`: each step of an adapter is one
step of the service or none, so what is checked and proved there with one-step
storage holds for both adapters as long as the process is not restarted.
`home` and `erasedIn` are histories for the properties.

**AuthSessions** has calls in flight, each with the cookie the browser had when
it was sent; replies arrive in any order. A token belongs to the `session` of
the sign-in it descends from, which is what the properties speak about. A hash
is its token (SHA-256 of 48 random bytes: no two alike).

**AccessControl** adds to every step of `AuthSessions` the access tokens: the
claims a call signs from the account it has read (`ClaimsOf`), their delivery,
and guarded requests in three steps, `Send`, `Guard` (`JwtStrategy.validate` and
`RolesGuard`) and `Handle` (`getMe`, `listUsers`), between which accounts are
removed, emails registered again and roles changed. `wasLive`, `wasAdmin` and
`deliveredTo` are histories.

**TaxCalculator** and **TaxSavings** do the arithmetic with integers: satang,
percent, millionths. The code's binary floating point rounds exact halves either
way, so `Rounded` gives a set of results and the model picks any. Amounts at
which a double no longer resolves a satang are outside of it. The two loops of the
code are recursive functions over the number of passes done (`BracketLoop`,
`DeductibleLoop`), with one operator for a pass (`BracketStep`, `CountInvoice`).
What the code takes from `tax-rules/2026.json` without looking is an assumption
(`BracketAssumption`: neither ceilings nor rates fall, the last bracket is open),
which TLC evaluates for the rules of 2026.

What a request that changes nothing does (400, 401, 404, 409, an empty PATCH) is
left out of the actions, not of the code's guards: such a call does not begin.

## 3. What is checked

| Run | Instance | Properties |
|---|---|---|
| `pipeline` | 2 receipts, 2 workers, 3 requests of any kind, all faults but lost replies, account removal; no redelivery | `TypeOK`, `NoOrphanObject`, `NoDanglingRow`, `FileMissingOnlyAfterDelete`, `ImplementsLifecycle` |
| `redelivery` | 1 receipt, 2 workers, 3 DELETE or PATCH, all faults, 2 crashes or lost locks | `InProgressHasDriver`, `DeletedLeavesNothing`, `TerminalIsFinal`, `EditsSurvive`, `EditsAfterOcr` |
| `duplicates` | 3 receipts of 2 accounts, 2 pairs of numbers, 1 worker, 1 request, 1 crash or lost lock | `UniqueCompleted`, `DuplicateHasOriginal` |
| `liveness` | 1 receipt, 2 workers, 2 clients that repeat a DELETE, 1 crash or lost lock, failing storage and Redis, crashed requests | `AcceptedIsSettled`, `DeleteConverges` |
| `cutover` | 1 new receipt and 1 with an old key, 2 readers, 2 DELETEs, both adapters, 2 restarts with any setting or an empty disk, all faults | `StorageTypeOK`, `ServedAsUploaded`, `LeftoversAreExplained`, `DeleteIsNotBlocked`, `MissingIsExplained`, `ImplementsService` |
| `auth` | 1 browser, 1 email, 2 account ids, 3 tokens, 2 calls in flight, all faults | `AuthTypeOK`, `OneAccountPerEmail`, `RotationIsExclusive`, `CookieIsLive`, `DeadSessionStaysDead` |
| `access` | 2 browsers, 1 email, 2 account ids, 2 tokens, 1 call in flight, 1 guarded request | `AccessTypeOK`, `AdminListIsAuthorised`, `RemovedIsLockedOut`, `ActsAsSignedIn` |
| `tax` | the rules of 2026, 8 incomes around the ceilings, 2 receipts of 10 kinds | `SavingsTypeOK`, `RateMatchesAssumptions`, `RateIsProgressive`, `ExpensesMatchRows` |

Four runs each show that a statement of the repository does not hold:

| Run | Statement | What happens |
|---|---|---|
| `delete_in_progress` | "can be deleted in every ocrStatus" (`invoices.service.ts:292`) | BullMQ does not remove a job that a worker has locked; DELETE fails while OCR runs |
| `edited_duplicate` | DUPLICATE marks receipts with equal numbers (`schema.prisma:22`) | PATCH sets the numbers without the duplicate check; both receipts stay `COMPLETED` |
| `missing_file` | a missing file is a 404 (`invoices.service.get-file.spec.ts:55`, `invoices.service.ts:212`) | the error of the S3 client has its name in `name` and `Code`, not in `code`: 500 |
| `logout_race` | logout revokes the refresh token (`README.md:362`) | a logout between the delete and the create of a rotation finds nothing; the rotation issues a live token |

Some limits of the code are exceptions of passing properties, each of which fails
without its exception: a PATCH whose check is overtaken by a second delivery edits a
`PROCESSING` row (`EditsAfterOcr`); a second delivery overwrites a final status and
what the user entered (`TerminalIsFinal`, `EditsSurvive`); an original whose job is
delivered again matches its own copy, and every receipt of the pair is then
`DUPLICATE`; and when a user deletes or edits an original, its copy stays `DUPLICATE`,
which PATCH refuses to edit, and further uploads of the receipt become copies of that
copy (both `DuplicateHasOriginal`). A hazard of `PROJECT.json` that is such an
exception names no property and says so in its note: the property covers what is
outside of it.

What the passing properties say of failures. Each exception is a failure the code
has no answer to, and the properties say that there are no others:

* an object without a row (`NoOrphanObject`): its upload is running, or was cut short
  because the compensating delete failed or the process died before it; or the cleanup
  script took the row with the account. An account that is removed between the put and
  the create is no exception: the object must go;
* a row without its object (`NoDanglingRow`), and a read that misses it
  (`FileMissingOnlyAfterDelete`): a DELETE of the receipt is past its storage delete, or
  failed there; or the reply to the create was lost and the compensation deleted the
  file of a row that exists;
* a row in progress that nothing will move (`InProgressHasDriver`): it lost its job,
  because the upload failed between row and job or a DELETE after removing the job; or
  its job failed, because the catch block could not write `FAILED` or because the job
  stalled twice; or, after one stall, the second worker completed the job while the
  first one, which had lost its lock, set the row back to `PROCESSING` late and then
  crashed or could not write.

### Bounds

* Two receipts are enough for interference through shared workers and the cascade
  of one account; three, in `duplicates`, for an original, its copy and another
  account's receipt with the same numbers.
* Two workers are the least that process one job at once (after a lost lock).
* Three requests allow two concurrent DELETEs and an edit or a read.
* `StallBudget` 2 reaches `MaxStalledCount`: the second stall fails the job.
* Storage: one receipt is enough, as adapters and calls treat keys one by one; two
  readers and two DELETEs race each other; two restarts change the driver and
  change it back.
* Access: two browsers and two account ids let an account be removed and its email
  be registered by somebody else while a token of the first is in use.
* Two calls of one browser show every race of rotation, sign-out and
  registration; three tokens show a rotation of a rotated token.
* Tax incomes are in units of 50,000 baht, of which every ceiling is a multiple:
  0, 1, a ceiling (3), just above (4), inside, and in the open brackets (41, 61).
* `CHECK_DEADLOCK FALSE` in the invoice and auth runs: every call ends and
  receipts, requests and tokens run out, so these instances stop. The tax run
  never stops, and checks it.

Symmetry is used for safety properties only; the sets it permutes appear in no
constant operator but `Owner`, whose permutations keep an owner's receipts.

### Fairness

`AcceptedIsSettled` and `DeleteConverges` are checked under `RetrySpec`. It has
weak fairness of the steps of a call that has begun (the event loop resumes a
handler when its await resolves), of an idle worker taking a waiting job (a
BullMQ worker polls), of the acknowledgement, of the expiry of a dead worker's
lock and of the stalled-job checker (timers). Nothing makes a client send a
request, an account go away or a worker crash. A client that got an error for
its DELETE sends it again (weak fairness of `Retry`), and a call that is made
again and again succeeds some time: strong fairness of the successful outcomes of
`job.remove`, the storage delete and the row delete. That is an assumption about
Redis, the store and the database, not about the code; that the code gets to
these calls again and again, whatever state the failed attempt left, is what the
property shows. The database does not fail in this run, because one failing
update in the catch block of the processor leaves a row in progress until it is
deleted (see `InProgressHasDriver`); OCR errors, crashes and lost locks do occur,
within the stalled limit. The code sets no time limit for Gemini:
that it answers in the end is part of the fairness of `process`.

## 4. What is proved

Every safety invariant, action property and refinement that a passing run checks is
also a theorem: for every number of receipts, accounts, workers, requests, every
`Owner`, set of faults and `StallBudget`, from the assumptions named in
`InvoiceState`; for every number of emails, accounts, tokens, browsers and calls,
from those named in `AuthSessions`, and of requests in `AccessControl`; for every
set of receipts, old keys, readers, DELETEs and restarts in `ReceiptStorage`; and
for every table of brackets, weights, incomes and rows that meet the assumptions
of `TaxCalculator` and `TaxSavings`. Two theorems have a hypothesis of their own:

* `OneWorkerUniqueCompleted`: one worker. With two the property is false.
* `LifecycleRefinement`: no lost replies and `StallBudget` 0, as in the run
  `pipeline`. A second delivery takes a final status back to `PROCESSING`, which the
  life cycle does not allow; what holds then is `TerminalIsFinal`.

| Theorem | Module | Property |
|---|---|---|
| `TypeCorrect` | `InvoiceSystemProofs` | `TypeOK` |
| `OrphanFreedom` | `InvoiceStoreProofs` | `NoOrphanObject` |
| `RowsHaveFiles` | `InvoiceStoreProofs` | `NoDanglingRow` |
| `MissingFilesAreDeleted` | `InvoiceStoreProofs` | `FileMissingOnlyAfterDelete` |
| `DeletionIsComplete` | `InvoiceStoreProofs` | `DeletedLeavesNothing` |
| `OneWorkerUniqueCompleted` | `InvoiceDuplicateProofs` | `UniqueCompleted`, for one worker |
| `CopiesAreJustified` | `InvoiceDuplicateProofs` | `DuplicateHasOriginal`, of `HistorySpec` |
| `ProgressHasDriver` | `InvoiceQueueProofs` | `InProgressHasDriver` |
| `FinalStatus` | `InvoiceQueueProofs` | `TerminalIsFinal` |
| `EditsAreKept` | `InvoiceQueueProofs` | `EditsSurvive` |
| `EditsComeAfterOcr` | `InvoiceQueueProofs` | `EditsAfterOcr` |
| `LifecycleRefinement` | `InvoiceQueueProofs` | `ImplementsLifecycle`, without redelivery and lost replies |
| `StorageTypeCorrect` | `ReceiptStorageProofs` | `StorageTypeOK` |
| `WholeFilesAreServed` | `ReceiptStorageProofs` | `ServedAsUploaded` |
| `NoOtherLeftovers` | `ReceiptStorageProofs` | `LeftoversAreExplained` |
| `StoreDoesNotBlockDelete` | `ReceiptStorageProofs` | `DeleteIsNotBlocked` |
| `MissingFilesAreExplained` | `ReceiptStorageProofs` | `MissingIsExplained` |
| `StorageRefinement` | `ReceiptStorageProofs` | `ImplementsService` |
| `AuthTypeCorrect` | `AuthSessionsProofs` | `AuthTypeOK` |
| `UniqueAccounts` | `AuthSessionsProofs` | `OneAccountPerEmail` |
| `ExclusiveRotation` | `AuthSessionsProofs` | `RotationIsExclusive` |
| `DeadSessions` | `AuthSessionsProofs` | `DeadSessionStaysDead` |
| `CookiesAreLive` | `AuthSessionsProofs` | `CookieIsLive` |
| `AccessTypeCorrect` | `AccessControlProofs` | `AccessTypeOK` |
| `AdminsOnly` | `AccessControlProofs` | `AdminListIsAuthorised` |
| `RemovedAccountsAreOut` | `AccessControlProofs` | `RemovedIsLockedOut` |
| `RequestsActAsSignedIn` | `AccessControlProofs` | `ActsAsSignedIn` |
| `SavingsTypeCorrect` | `TaxSavingsProofs` | `SavingsTypeOK` |
| `TaxIsMarginal` | `TaxSavingsProofs` | the bracket loop equals `MarginalTax` |
| `RatesMatch` | `TaxSavingsProofs` | `RateMatchesAssumptions` |
| `ProgressiveRates` | `TaxSavingsProofs` | `RateIsProgressive` |
| `ExpensesAreExact` | `TaxSavingsProofs` | `ExpensesMatchRows` |

*Store.* None of the four properties is inductive: that a DELETE leaves nothing
needs that an upload cannot put the object again after it, that is, that a
request's invoice was created before (`RequestsFoundRow`); that a file stays
away once a DELETE is past its storage delete (`FileGoneFirst`); that a row which
was created and is gone stays gone (`DeletedRowIsGone`); and that every missing
object has its cause (`MissingObjectExplained`), and every stored one an upload that
put it and did not take it back (`ObjectsWerePut`). Their conjunction with `TypeOK`
is `StoreInv`; the proof has a lemma per part of the system. The steps of queue
and processor leave the store alone and only move a row between statuses, which
one lemma covers.

*Duplicates.* With one worker, a verdict of `DupCheck` holds until `Complete`
uses it: only OCR completes rows, and only this worker runs it (`VerdictHolds`).
A PATCH in between may change another row's pair, but then that row is edited.
`DuplicateInv` adds this to `UniqueCompleted`.

*Queue.* Everything turns on whether a job has stalled. `QueueInv` says that until
then one worker at most runs it (`OneRunner`: the lock is lost only by the step
that counts as a loss, and the job can run again only after the checker has
counted a stall), that the status agrees with the place the worker has reached
(`StatusFollowsRun`) and with the job (`StatusFollowsJob`), and that edited rows are
settled, also for a PATCH between its check and its write (`EditsAreSettled`,
`PatchIsSettled`). A row whose job is gone has a DELETE that took it
(`RemovedByDelete`). The four properties of the queue follow, each from the parts it
needs; after a stall none of these facts is left, which is why the properties have
that exception.

*Life cycle.* With `StallBudget` 0 a job is active exactly while the worker that
holds its lock runs it (`NothingStalls`), and without lost replies a row exists
only where the upload knows it (`RowsAreKnown`). Each step of `InvoiceSystem` then
moves one receipt by one step of `InvoiceLifecycle`, or none; the cascade of an
account deletes several rows, which the abstract step allows.

*Copies.* `HadOriginal(u, k)` says that account `u` has a receipt `COMPLETED` with the
pair `k`, or had one that the history records. It is stable (`OriginalStays`): a step
that takes the pair from a `COMPLETED` row records it in `retired` or `redone`. So a
verdict of `DupCheck`, which looks up complete pairs only (`CheckedPairs`), is still
right when `Complete` uses it (`VerdictsHaveOriginals`), whatever happened to the row
it saw; and a copy of a copy has the first one's original (`CopiesHaveOriginals`). What
the exceptions of the property add is that no step within one delivery is excused by
them: a row that a user retired does not become a copy itself (`RetiredIsSettled`), and
OCR takes a pair from a `COMPLETED` row only in a second delivery or after a lost reply
(`RedoneIsRedelivered`). Both need `QueueInv`. With these facts the invariant is
`OriginalInv`.

*Storage.* `StorageInv` says where the file of a receipt can be at each step of its
upload: whole before there is a row (`RowsAfterFiles`), in the adapter in use while
the upload runs (`FilesOfUploads`), in one adapter before the first restart
(`OneStore`), gone before its row (`FileGoesBeforeRow`); and that what an open
descriptor or a response body will deliver is whole (`OpenFilesAreWhole`). The
refinement is a step simulation: `PutOpen` of the disk is a stutter of the service,
`PutWrite` is its `Put`, and a read is settled when the file is opened.

*Estimate.* The code's loop and the definition meet in an invariant over the passes
of the loop (`LoopInv`): before it leaves, the loop holds the tax, unit by unit, on
the last ceiling. Within one bracket the marginal rate is constant
(`MarginalRateInBracket`), so the slice the pass adds is the tax on its units
(`TaxWithinBracket`). That the rate rises needs that the tax on an income is at most
the income times its last marginal rate, and that every further unit adds at least
that rate (`TaxAgainstLastRate`): the rate before rounding then rises by so much
that two roundings cannot turn it around (`RatesRise`). The expenses are a sum over
a set, which may be taken in any order (`SumRemove`), against the loop over the rows
in the order they came (`LoopCounts`). `SavingsInv` ties the rate to the assumptions
in the same answer, which is where PUT /tax/profile between the two reads matters.
The inductions are over sets of naturals (`SetInduction`), as the library's
principles take an operator; `SumExists`, `LoopExists` and `CountExists` are for the
same reason one argument written three times.

*Sessions.* `SessionInv` adds to `RotationIsExclusive` that every token which is
live, in a cookie or in a call has been drawn (`TokensAreDrawn`: a fresh token
collides with none), and that the place a call has reached tells whether it
holds a presented or a drawn token (`CallShape`). `DeadSessionStaysDead` follows
from it: a token becomes live only as a new session, or as the successor in one
that a call is rotating. `CookieIsLive` is about browsers, and needs `CookieInv`:
no token is ever in the hands of two browsers (`OneBrowserPerToken`), and nobody
has used a token that is still on its way to its browser (`TokenInTransit`).

*Access.* A behaviour of `AccessSpec` is one of `Spec` of `AuthSessions`
(`AccessSessions`), so `SessionInv` holds in it. `AccessInv` adds that accounts
are drawn once (`DrawnAccounts`: one that is gone never comes back, which
`AccountStep` shows of every step of the sessions), that a call signs the account
it holds (`SignedClaims`), that a browser's token names an account delivered to
it (`DeliveredBearers`), and, for a request in progress, that the histories cover
what the account is now and what the guard has seen (`AskOK`).

Only model-checked: `AcceptedIsSettled` and `DeleteConverges`, as liveness under
fairness is out of the prover's reach; and what the four violated statements
show, as those are counterexamples. The estimate's theorems are about exact
products and quotients rounded once; how far the partial sums of the code in binary floating
point are from them is not modelled (see above).

## 5. Not modelled

* Contents: images, file sizes, names of merchants, categories and their aliases,
  dates (but for the tax year), passwords, hashes, signatures and expiry times of
  tokens. No property is about them.
* Reads: the invoice list with its filters, and the detail: one query each.
* The guard in front of the invoice and tax routes is that of `AccessControl`;
  in `InvoicesService` it is the guard of `Put`, and an account removed later shows
  in the foreign keys.
* Start-up, configuration, CORS, health: wiring.
* A server process is several actors here: worker and requests crash on their
  own. This allows more than the code does, where they die together.
* Failures of Redis inside the worker are part of `LoseLock`.

## 6. Plan

Done: the receipt pipeline, its abstract life cycle, repeated DELETEs, the storage
adapters, sessions, guards and estimate, and the proofs above. Next:

1. The life cycle with redelivery: an abstract specification in which a second
   delivery may restart a receipt once per stall, and the refinement without
   `NoRedelivery`.
2. `StoreInv` and the storage refinement joined: the store theorems of
   `InvoiceSystem` as corollaries about either adapter.
3. The safety half of `AcceptedIsSettled`: a measure of a driven row that no step
   raises within one delivery, from `QueueInv`.
