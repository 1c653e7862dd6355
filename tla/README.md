# AORMS in TLA+

Models of the parts of AORMS in which several processes change the same state,
checked by TLC on small instances and, for the properties that matter most,
proved by TLAPS for every value of the constants.

- [What is where](#what-is-where)
- [Inventory](#inventory): the parts of the system, and what makes each correct
- [The models](#the-models): state, actions, properties, runs, proofs
- [Where the code does something else than it says](#where-the-code-does-something-else-than-it-says)
- [Observations](#observations)
- [Bounds, fairness, and what only TLC shows](#bounds-fairness-and-what-only-tlc-shows)
- [What is not modelled](#what-is-not-modelled)
- [Plan](#plan)

## What is where

| part of AORMS | models | instances | proofs | runs |
|---|---|---|---|---|
| Razorpay payments, licences | `Payments`, `Entitlements` | `MCPayments` | `PaymentsProofs` | `Payments_claims`, `_captured`, `_serial`, `_late_failure`, `_two_renewals` |
| job queue, worker, PDF | `JobQueue`, `JobBus` | `MCJobQueue` | `JobQueueProofs` | `JobQueue_deploy`, `_scaled` |
| device gateway | `DeviceGateway`, `InferenceBroker` | `MCDeviceGateway` | `DeviceGatewayProofs` | `DeviceGateway_answers` |
| AQC row store and lease | `AqcStore` | `MCAqcStore` | `AqcStoreProofs` | `AqcStore_sync` |
| bank reconciliation, project activation | `Reconcile`, `Accounts` | `MCAccounts` | `AccountsProofs` | `Accounts_ledger`, `_rerun` |
| drawings, RA bills and certification, invoices, measurement book, rate books, numbering | `Drawings`, `RaBills`, `Invoices`, `Estimates`, `RateBooks`, `Numbering`, `Records` | `MCRecords` | `RecordsProofs`, `FoldLemmas` | `Records_firm` |
| critical path | `Cpm` | `MCRecords` | `CpmProofs`, `FoldLemmas` | `Records_firm` |

`Entitlements`, `JobBus` and `InferenceBroker` are the abstract specifications:
what a component promises to somebody who sees only its outside. The detailed
modules carry the refinement mapping (`INSTANCE ... WITH`) and the abstract
specification is a property of their runs.

    tlc -config Payments_claims.cfg MCPayments        # a run
    tlapm PaymentsProofs.tla                          # the proofs of a module

`PROJECT.json` maps every definition to the lines it stands for, names for each
property a mutation of the code that breaks it, and lists the hazards the
properties are aimed at. In the modules, a definition preceded by a variant with
a longer name (`Claimable`, `ClaimableAlways`) is such a pair: the variant is a
plausible mistake in the same line, which no specification uses.

## Inventory

The repository holds one deployed system and one it grew out of. Deployed are
`src/web` (Next.js: pages, Server Actions, API routes, and the SQL migrations that
are the larger half of the logic), `src/gateway` (appends jobs to a Redis stream),
`src/worker` (Python, takes them), `src/device-gateway` (WebSocket server for
inference devices), and a hosted Supabase (Postgres, Auth, Storage, PostgREST)
which all of them call over HTTP. `src/backend` and `src/frontend` are the first
generation (Express, tRPC), `src/android` is a client, `src/packages/contracts`
holds shared types.

What that architecture makes hard is the same everywhere: **a Server Action or a
route has no transaction**. It is a row of HTTP calls to PostgREST, each a
transaction of its own, that returns errors as values; between any two of them
another request runs, the process may die, and a call may have been carried out
although its answer is lost. Only what is inside one SQL function is atomic, and
there under READ COMMITTED.

| part | state | operations | talks to | what is hard | what makes it correct |
|---|---|---|---|---|---|
| **payments** `lib/platform/licence-payment.ts`, `api/razorpay/webhook`, `lib/actions/platform-payments.ts` | three payment tables, `licences`, `identity_licences`, ConnectDeX companies, `razorpay_webhook_events` | create order, webhook, client confirmation, admin edits | Razorpay (at least once delivery), browser | two paths grant the same payment; claim, grant and release are separate calls | each captured payment is applied, once, for a whole period |
| **job pipeline** `lib/jobs/*`, `gateway/src`, `worker/esti_worker` | stream, consumer group, `pdf_status`, stored PDF | ask, enqueue, reclaim, read, render, ack, dead-letter | web, gateway, Redis, worker, storage | redelivery, lost answers, crashes, jobs of old content | no job is lost, no record stuck, no old PDF over a newer one, every job is answered |
| **device gateway** `device-gateway/src` | routing table and pending requests in memory, `ai_devices` | connect, authenticate, supersede, infer, reply, timeout, close | devices, web | reconnection while the old socket closes, late replies, writes not awaited | one connection per device, one answer per caller, with its own content |
| **AQC connect** `api/aqc/v1`, migrations 0105, 0111 | `aqc_sessions`, `aqc_projects` (head, lease), `aqc_rows` | sign in, bind, lease, push, catch up | desktop clients | numbers that must be seen in order, leases that run out under way | no client misses a row, no row is overwritten unseen |
| **RA bills, certify, AQC versions** `lib/actions/pmc-ra-bills.ts`, `api/aqc/v1/bills`, migrations 0101, 0112 | bills, lines, gross total, `aqc_versions` | create, submit, add line, change status, certify | desktop, contractors, numbering | read-modify-write of the total, any status after any other, three statements under READ COMMITTED | the total counts each line once; an answered version has its own content |
| **AQC rate books** migration 0110 | books, items, the active book | publish, activate | desktop | rows locked in different orders, first publication without a row to lock, one active row by index | one active book for good; an answered revision is what was sent |
| **estimates** migration 0005, `lib/actions/estimates.ts` | measurements, the item's quantity, the estimate's status | measure, remove | | triggers that sum before they lock | quantity is the sum; a frozen estimate changes at most once more |
| **invoices** `lib/actions/invoices.ts` | `invoices` | create | numbering | what was billed before is read before the insert | no fee over the threshold goes without deduction |
| **drawings** `lib/drawings/upload.ts` | `drawings` chain, storage | upload, revise, convert | numbering, job pipeline | six calls in a row, no transaction | the newest revision is in sight, and the only one after an upload that ran alone |
| events and workflow, migrations 0069, 0071 | `events`, `workflow_*`, `tasks` | trigger writes, batch of the engine | every table with a trigger | nothing in the repository calls the engine | |
| **numbering** migrations 0003, 0054 | `sequences` | `next_ref` | every numbered record | the number commits before its record | unique; gap-free is claimed |
| **bank reconciliation** `lib/actions/reconcile.ts`, `lib/reconcile/match.ts`, migration 0087 | batches with lines, `invoices.paid_paise` and status, `audit_log` | upload, map columns, settle | invoices, activation | settlings that overlap, wait for each other's rows, and write back lines read long before | no receipt is lost or added to a covered invoice; PAID means covered; the log replays to the amount paid |
| **project activation** `lib/actions/activation.ts`, `lib/project-os.ts` | `project_offices.status` and the records of the gate | move, activate, reopen | reconciliation | six reads, then a write by id | an activated project had its advance paid |
| seats `lib/actions/platform-studio.ts` | memberships, licence seats | assign, release | payments | count, then update | no more seats than the licence has |
| **CPM** `lib/scheduling/cpm.ts` | none | `computeCpm` | the contractor's pages | lags of either sign, four link types, loops | the dates of the reference definition |
| tax and money, BBS, take-off | none | pure functions | pages | rounding | the reference definitions |
| rate limit `lib/security/rate-limit.ts` | buckets in memory | check, sweep | sign-in actions | per process, sweep at 5000 keys | at most `max` per window and process |
| sign-in, MFA, session cap | cookies, Supabase Auth | sign in, bridge | Supabase | the store is elsewhere | |
| pulse, dashboards, AI, portals, tasks, device registration | rows | read, single writes | | row level security | |
| first generation: sync outbox, numbering, licensing | `sync_outbox` and more | drain, ingest | hub | order of payloads, lost updates | the hub ends with the newest payload |

## The models

### Payments

*`Payments`* models one database round trip per step. A request (a delivery of
the webhook, or a client confirmation) has a program counter `pc` and the event
or order it works on (`job`):

    webhook        Dedup -> Lookup -> Claim -> ReadExpiry -> Grant -> (answer)
    confirmation            Lookup -> Claim -> ReadExpiry -> Grant -> (answer)
    on an error                                Release -> Catch -> (500, or an error)
    payment.failed Dedup -> MarkFailed -> (200)

| state | code |
|---|---|
| `row` | `status` of the row in `payments`, `identity_payments` or the ConnectDeX table |
| `licence`, `verified`, `company` | `licences` (plan, expires_at), `identity_licences`, the company's status |
| `dedup` | `razorpay_webhook_events` |
| `events`, `acked` | what Razorpay reports, and what it got a 2xx for |
| `term` | the local `newExpiry` between the read and the write of `expires_at` |

Which of the three kinds an order is follows from its buyer. Identity and onboarding
orders are made in two steps, the check of the buyer (`CheckIdentity`,
`CheckCompany`) and, after the call to Razorpay, the insert; what was checked can
change in between. A licence order has nothing to check. `Claim` is the
conditional update (`status <> CAPTURED`), `Release` the unconditional one,
`Forget` the deletion of the dedup row. The administrators' overrides, the
onboarding form, the clock and Razorpay (delivers again until it gets a 2xx,
may deliver after one) are actions too. Failures are named per call
(`FaultKinds`); a kind ending in `Reply` is a write that was done and reported as
an error, which supabase-js does not tell from one that was not.

*`Entitlements`* is what a buyer may rely on: time passes, an order is paid, and
a paid order is granted, once, adding `Period` to what the studio had at a
moment since.

| property | says |
|---|---|
| `GrantOnce` | however often the webhook is delivered and whatever the confirmation does meanwhile, an order is granted at most once. Two ways around are excluded by name: a failed first attempt (`Flaky`), and a grant reported as an error |
| `CapturedMeansGranted` | CAPTURED, which the rest of the code takes for done, means granted or about to be, unless a claim can be orphaned |
| `NotDropped` | a payment nobody works on and nobody granted can still be: its row is not CAPTURED, and a delivery that Razorpay still owes will not be taken for a replay |
| `AckedAtWork` | Razorpay gets its 200 for a payment that bought nothing yet only while another request is at work on it |
| `PaidCompanyActive` | the fee's update from PENDING_PAYMENT only always finds the company there |
| `RenewalExtends` | a grant adds a whole period to the licence as it stands: violated by two payments at once (`Payments_two_renewals`) |
| `Entitles`, `EntitlesInTheEnd` | `Payments` implements `Entitlements`, without and with fairness |

| run | instance | shows |
|---|---|---|
| `Payments_claims` | two studios, two requests, two failures of any kind but `grantReply`, 289 thousand states | `GrantOnce`, `Entitles` |
| `Payments_captured` | an identity order with a failed attempt and an onboarding order, administrators, two requests, two failures after which what has to be undone is undone, 1.9 million states | `CapturedMeansGranted`, `NotDropped`, `AckedAtWork`, `PaidCompanyActive` |
| `Payments_serial` | two renewals of one studio, one request at a time, three failures, `FairSpec`, 31 thousand states | `EntitlesInTheEnd` |

Two requests are enough for the races between the two paths, two deliveries, and
a delivery with a retry: the row is the only thing they share, and a third could
only repeat what one of them does. Two failures reach a failed release of a
failed grant. The proofs below need none of these bounds.

**Proved.** `PaymentsProofs`: `TypeCorrect`; `GrantedOnce` (`Spec => []GrantOnce`)
from `LockInv`: requests work on what Razorpay reported (`JobsOK`), only flaky
orders are ever marked failed, and *the claim is a lock* (`ClaimIsLock`): at most
one request is between its claim and its release, while it is the row says
CAPTURED and nothing was granted, and a grant leaves CAPTURED behind for good.
`GrantOnce` alone is not inductive: a state with two holders satisfies it and
its successor does not. `CapturedIsGranted` from `CapturedPaidOut`.
`Implements`: every step is a step of `Entitlements` or
changes nothing a buyer sees, where no attempt fails, no grant is misreported, no
administrator overwrites licences, and each studio has one order or requests run one at
a time (`Quiet`). `TermFits` is
the heart: the expiry about to be written still is one that extends the licence as
it stands. `FeeActivates` (`PaidCompanyActive`) for any instance, from `OnboardInv`:
Razorpay knows only orders whose row was inserted, and their companies have passed
verification, whatever administrators do.

`NothingDropped` (`NotDropped`) and `AckedOnlyAtWork` (`AckedAtWork`) hold for any number
of overlapping requests, however often attempts, claims, reads of the expiry and grants fail.
They assume (`UndoWorks`) that what a failed request takes back is taken back: the
release and the deletion of the dedup row work, no process dies, no answer of a claim is lost
and no failed read of the payment tables is mistaken for an empty one. Their `WorkInv` says that a
CAPTURED row that bought nothing has a request that holds it, and that a dedup row of a payment that bought
nothing, with no 200 sent, belongs to a delivery still at work (`DedupWorked`). What they do
*not* say is that the request at work succeeds; see the observations.

`OneAtATime` is left in one place, as an alternative in `Quiet`: two payments of one studio
applied at the same time are not a step of `Entitlements`, which is what
`Payments_two_renewals` shows. The other alternative, one order per studio, has any
number of overlapping requests.

### JobQueue

*`JobQueue`* has the three sides of a job. `Ask`/`Enqueue` are
`generatePdfForTarget` (read `pdf_status`, then add to the stream through the
gateway), `Edit` and `Delete` the other actions on the record. `Reclaim`,
`ReadGroup`, `Take`, `Ack`, `Except`, `DeadLetter`, `DeadLetterAck` are the loop of
`esti_worker/main.py`, and `Fetch`, `Mark`, `Render`, `WriteReady`,
`WriteFailed` the handler `render_pdf`. `Kill` is a rendering that takes the
process down, `Crash` any other end; a restart loses what the process had in
memory and nothing else. `GoIdle` is time: a pending entry reaches
`worker_reclaim_idle_ms`.

A batch of XAUTOCLAIM is a set because it is returned and processed in the order
of ids; entries of the stream are never trimmed, as in the code; the delivery
count is kept up to `MaxRetries`, the only value it is compared with.

*`JobBus`* is the promise: a queued job is answered (its handler has returned, or
it is on the dead-letter stream) before it is settled (leaves the pending list).

| property | says |
|---|---|
| `AtLeastOnce` | `JobQueue` implements the safety part of `JobBus`: no job is lost |
| `SettledInTheEnd` | and the liveness part: each is answered and settled |
| `ProcessingHasJob` | PROCESSING, in which `generatePdfForTarget` refuses to render again, never outlives its jobs. A job on the dead-letter stream counts as one: a record whose FAILED could not be written stays PROCESSING with it (observations) |
| `FreshPdf` | a READY record shows a PDF at least as new as the record was when any of the finished jobs was asked for, in spite of retries and of one storage key |

| run | instance | shows |
|---|---|---|
| `JobQueue_deploy` | one worker as deployed, three jobs of one letter that is edited meanwhile, two failures of any kind, 242 thousand states | `ProcessingHasJob`, `FreshPdf`, `SettledInTheEnd` |
| `JobQueue_scaled` | two workers (symmetric), a record that is not rendered twice, one that kills, one failed call, 772 thousand states | `AtLeastOnce` |

**Proved.** `JobQueueProofs`: `TypeCorrect`; `NoJobLost` (`AtLeastOnce`), for any
number of workers, from `AckInv`: whoever is about to acknowledge has its job in
`done`, or on the dead-letter stream; `NotStuck` (`ProcessingHasJob`) for one worker,
from `ClaimInv`: what the worker has claimed stays pending until it acknowledges
it, and it does so only after the record is out of PROCESSING;
`PdfIsFresh` (`FreshPdf`), one worker, from `VersionsOK` (versions only grow),
`SnapOK` (what was fetched is as new as every finished job of the record wanted),
`StoredOK` and `ReadyHasPdf`. One worker is a stated assumption of these two
(`SingleWorker`), as in `src/compose.prod.yaml:188`: with two, the slower of two
renderings can store the older PDF.

### DeviceGateway

One event loop runs the gateway, so a step is what lies between two awaits.
`FirstMessage` to `MarkDeviceOnline` are the connection handler, with the await
of `authenticateDevice` between; `Supersede` closes the connection on record;
`Close` is the close event; `SubmitInference` to `RecordInferenceResult` are
`POST /infer`. Writes of `ai_devices.status` that nobody awaits are collected in
`later` and done at any later moment, in any order. Heartbeats, the
inference counter, latencies and `last_error` are left out; whether a token is
accepted is a choice.

*`InferenceBroker`*: a request is asked, may be replied to, and is answered
once, with content only if it was replied to.

| property | says |
|---|---|
| `OpenIsRouted` | an authenticated open socket is the one on record for its device, so no device has two |
| `Answers`, `AnswersInTheEnd` | the gateway implements `InferenceBroker`: each caller gets one answer, and gets one |

Run `DeviceGateway_answers`: one phone, two connections that drop at any time, two
requests, failing calls, one restart, 196 thousand states. Devices do not
interact, so one is enough; two sockets make every supersession, two requests
every mix-up.

**Proved.** `DeviceGatewayProofs`: `TypeCorrect`, `OneConnection`, `AnswersOnce`, from
`OwnerOK`, `RouteOK` (a routed socket authenticated as that device),
`PendingOK` (a pending request waits on the socket of its entry), `SentOK` and
`OutcomeOK`.

### AqcStore

Desktop clients share the rows of a project. `SignIn` replaces the session of
the same account and app; every route then checks it in a call of its own
(`Ask`), and the transaction that follows runs later. `BindProject` adopts the
project once; `AcquireLease` is one conditional update; a push is `LockProject`
(`SELECT ... FOR UPDATE`, then the lease check) and `CommitRows`, in batches of
`ROW_BATCH` for "push online". `ReadRows` answers one page after a cursor and
`TakePage` is the client taking it in; between the two, and between two pages,
the others go on. `Fail` is a failed call or a client that is gone.

`now()` is the time a transaction *began*. So whether the lease is over is
decided when a request asks (`late`), not when it gets the lock: a push that
waited may pass although the lease expired meanwhile, and a takeover that waited
may be refused. The model begins the transaction together with the session
check, which allows everything the code allows.

| property | says |
|---|---|
| `CopyIsCurrent` | of the rows up to its cursor a client has what the store has. This is what `since` relies on: numbers must become visible in their order |
| `LastPageCompletes` | the page with `more = false` makes the copy equal to the store as that page saw it, although earlier pages were read at other moments |
| `NoLostUpdate` | a client that has caught up since its account got the lease, and is the only one of its account, overwrites no row it has not seen, however long it waits between |

Run `AqcStore_sync`: two accounts with a client each, three rows, pages of one,
batches of two, three sequence numbers, 1.1 million states up to the symmetry of
the rows and of the two clients with their accounts. Three rows make a push of two batches and a catch-up of three pages, with a
row rewritten before, inside and behind the page under way.

**Proved.** `AqcStoreProofs`: `TypeCorrect`, `NothingMissed`, `LastPage`,
`NoUpdateLost`, for every set of clients and accounts and every batch and page
size. Two facts carry them. `LockOK`: between lock and commit, `head_seq` is what
the transaction read and the lease is its own. `PageOf`: a page under way shows
each row as it still is, or as it was before it got a number beyond the head the
page was read at. `CopyIsCurrent` is not inductive without it: the page arrives
later than it was read. Without the row lock the run finds a client that skips a
row for good; that is the mutation of the property.

### Reconcile and Accounts

*`Reconcile`* has the two halves of a bank statement. `Upload` and `Remap`
(`ReadOpen`, `ReadFails`, `WriteLines`, `NoAmountColumn`) are Server Actions: the
open invoices are read in one call and the matched lines written in another.
`Settle`, `Apply`, `Skip`, `Commit` are `settle_reconcile_batch`, one transaction
under READ COMMITTED: the batch is read at the start, each matched line takes the
row lock of its invoice (`FOR UPDATE`) and keeps it, and at the end everything,
the lines too, becomes visible at once. `Deadlock` is PostgreSQL rolling one
transaction of a circle of waits back, `Die` a lost process or connection.

| state | code |
|---|---|
| `status`, `paid`, `audit` | `invoices.status`, `paid_paise`, the RECONCILE_SETTLE rows of `audit_log` |
| `state`, `lines` | `reconcile.status`, `lines` with matched invoice and `settledAt` |
| `forms` | what pages of the batch have offered: an old tab can send its form at any time, since the actions check nothing the page did not |
| `work`, `at`, `held`, `mine`, `entries` | `v_new_lines`, the loop, the row locks, and what the transaction has written and nobody else sees |

How a description names an invoice (`match.ts`) is an input; which candidate is
taken, and the match by amount when none is named, are `Hits`.

*`Accounts`* puts beside the ledger the projects whose advances it pays:
`Move`/`MoveTo` are `updateProjectStatus`, `Activate`, `Check`, `Blocked`,
`ActivateNow` are `activateProject` with the six reads of its gate, which come
back in any order while settlings commit.

| property | says |
|---|---|
| `AuditReplays` | the audit entries of an invoice chain from 0 to `paid_paise`, and no receipt was added to an invoice already covered, whichever settlings overlap or are rolled back |
| `PaidWhenCovered` | PAID exactly when something was received and covers what is receivable (`Covered`) |
| `SettledIsApplied` | a line that shows as settled has its entry in the log of its invoice |
| `ActivationCovered` | an activation past its gate still has a covered advance and the records that nothing takes back, though it read them before |
| `SettleEnds` | a settling that has begun ends, though settlings can wait for each other in a circle |

`createInvoiceRecord` accepts a taxable amount of 0 (`invoices.ts:56-58`), so an invoice can
have nothing receivable. It is not PAID before a receipt names it, and the first
one covers it; `Net` is any natural number, and `Covered` asks for something received.

Run `Accounts_ledger`: two statements that come to two invoices in opposite
orders, an advance that two receipts of 1 or one of 3 cover, an invoice of nothing,
two members of staff and one manager, four requests in a behaviour, 142 thousand states. Two settlings
are enough for every overlap, the circle included; four requests let an upload or
a remapping precede each.

**Proved.** `AccountsProofs`, for all sets of invoices, statements, projects and
requests: `TypeCorrect`, `LedgerReplays`, `PaidIsCovered`, `SettledApplied`,
`ActivationRests`. `AuditReplays` speaks of what is committed, and a commit adds
what a transaction did long before; so `LedgerInv` says of every transaction
under way that what it has written *continues what is stored* (`Uncommitted`),
which needs that no two hold the same row (`Exclusive`), and that the lines in
its hand and in the batch have their entries (`InHand`, `Stored`). For the gate,
`OfficeInv` says that a check found true stays true (`Found`), because `paid`
never decreases.

### Records

Seven modules for what a firm writes down in several calls. Each part has its
own state and actions; `Records` composes them over the one thing they share,
the numbers of `Numbering`, where `NextRef` is a transaction of its own.

- *`Drawings`*: `ReadChain`, `UnsetCurrent`, `MintDrawing`, `InsertDrawing`,
  `EnqueueConversion` are the calls of `uploadDrawing` in their order, `UploadFails`
  an error or the end of the process between any two, `StartConversion` and
  `Convert` the worker's writes.
- *`RaBills`*: staff create a bill in two calls (`MintBill`, `InsertBill`), a
  contractor in one (`SubmitBill`); `InsertLine`, `ReadGross` (or `GrossUnread`),
  `WriteGross` are `createRaLine`; `ReadBill`, `Certify` the route AQC calls, then
  `FindVersion`, `NextVersion`, `InsertVersion` the statements of `aqc_add_version`.
- *`Invoices`*: `ReadPrior` (or `PriorUnread`), `MintInvoice`, `InsertInvoice`.
- *`Estimates`*: an item has the quantity typed in (`Entered`) until it is measured; a
  measurement, which may be a deduction, is a transaction whose trigger checks the estimate
  (`CheckEditable`), sums what is committed and its own row (`Sum`), takes the
  item's row and checks again if the quantity changes (`LockItem`), and commits.
- *`RateBooks`*: publishing (`LockBook`, or `NoBook` and `InsertBook`) and
  activating (`FindOthers`, `Deactivate` one by one, `LockOwn`, `ClaimActive`,
  `CommitBooks`). A statement finds the rows that were committed when it began; the
  unique index on the active row waits for whoever is changing one (`IndexFree`)
  and then refuses (`ActiveTaken`).

| property | says |
|---|---|
| `References` | no reference is used twice, and every number of a drawing is on a row or with an upload that has yet to insert it or failed |
| `NewestIsCurrent` | the newest revision is current unless an upload that read it so is replacing it or failed to: nobody else's upload hides it |
| `AloneIsOnlyCurrent` | an upload that ran alone leaves its revision the only current one and the highest, whatever was left before; none is current only while the next upload is replacing it, or after that one failed |
| `GrossOfLines` | the total counts no line twice, and all of them unless a line was added between somebody's read and write, or a read failed |
| `VersionHolds` | a certification that answers a version has one with its own content |
| `FeesWithoutTds` | fees billed without deduction stay within the threshold, but for invoices created at the same time or without knowing the earlier ones |
| `QuantityOfMeasurements` | the quantity is the one typed in until the first measurement, then the sum of the measurements unless its last writer had summed before another one committed; the next one puts it right |
| `OneLateChange` | after an estimate is frozen at most one quantity still changes |
| `ActiveStays` | once a rate book is active exactly one is, for good |
| `AnsweredIsStored` | the revision a publisher was answered stands for the items it sent |

Several of these name what the code does *not* prevent (`met`, `lost`, `raced`,
`outdated` are histories of it). That is their point: the exceptions are exact,
everything else is excluded.

`GrossOfLines`, `FeesWithoutTds` and `QuantityOfMeasurements` are what is left when those
races are set aside; that the races themselves lose a line, a deduction or a
measurement is among the observations.

Run `Records_firm`: three uploads, a bill by staff and one by a contractor, two
lines of which one is a deduction, three certifications of which two are the same, three
invoices of one client against a threshold of two of them, three measurements of an item with a
quantity of its own or with a first measurement, three publications and two activations of two
books, and the milestones of `Cpm` below. The constraint `FewRequests` lets
requests of the measurement book, of rate books, of drawings and of invoices meet
their own kind in any number and, across the kinds that share numbers, two
at a time; the kinds share nothing else, and the proofs need no such bound. 134
thousand states.

**Proved.** `RecordsProofs`, for any sets of requests and whatever they are about: every
property of the run, by an inductive invariant for each part (`RatesInv`, `BookInv`,
`BillsInv`, `GrossInv`, `DrawingsInv`, `RevisionsInv`, `InvoicesInv`, `FeesInv`), which the
steps of the others leave alone.

- `OneBookActive` (`ActiveStays`): of the transactions about to commit an active book there is
  one (`OneClaim`), it holds a view in which no other is active (`ClaimHolds`), and
  everybody else's commit activates nothing (`DraftActive`). `AnswersStored` rests on the hash
  telling the items (`HashTells`).
- `NewestInSight` (`NewestIsCurrent`): an upload has read only rows older than the one it
  inserts (`ReadThenAbove`). `AloneLeavesOne` (`AloneIsOnlyCurrent`): an upload that has met nobody
  holds every current row there is (`AloneInHand`), and nobody else is between its reading and
  its insert (`AloneUnder`), so what it leaves stays alone.
- `FrozenAfterOne` (`OneLateChange`): who has passed the second check holds the row (`LateOnce`).
  `QuantityRight`; `VersionsHold`; `ReferencesHold`; `TypeCorrect`.
- `DeductedAbove` (`FeesWithoutTds`): of two requests under way for one client one counts as raced
  (`OneKnows`), and what the other has read covers all that was billed to the client before,
  by requests that did not race (`PriorCovers`).
- `LinesCountOnce` (`GrossOfLines`): there is a way to say whose each line is (`own`) such that the
  total stored, and every total in hand, is of lines whose requests are done (`SumsOfDone`).

*Sums.* The folds of the community modules and the sums of the models are recursive functions
over finite sets or lists; an induction over data cannot be cited (its principle takes
an operator). `FoldLemmas` argues by a smallest counterexample instead: a finite
set of sets has one of least cardinality (`SmallestSubset`), a function that satisfies
the recursion exists and is unique (`SumsExist`, `SumsAgree`), and a sum does not depend on
which element `CHOOSE` takes first (`SumAdd`, `SumRemove`). From these come what the proofs cite:
one element more, the same terms, fewer terms, terms that are zero; and what `Max` and `Min` of a
finite set are.

### Cpm

*`Cpm`* is `computeCpm` pass by pass: `Visit` sorts, `Forward` computes the early
dates, `Backward` the late ones. The order of the queue is left open, as the
database leaves the order of rows with equal `sort_order`.

`LoopsLeftOut` and `ScheduleExact` compare the result with definitions that have
nothing of the algorithm: what is left out is the largest set in which everyone
waits for someone, and the dates are the minimum and the maximum over *all*
schedules that keep the links (`Schedules`, up to `Horizon`). They are checked in the run
`Records_firm`, whose `FirmSpec` puts the milestones of a firm beside its records: the two share
nothing, and the instance explores the one where the other has not begun. Three activities of
0 or 2 days, any two links of any type with lag 1 or -1, or any number of plain
links, up to the symmetry of the activities. Two links into or out of one activity make every
mixture of types that a maximum or a minimum chooses from; six plain ones every
loop of three. No date goes beyond `Horizon`, which `HorizonAssumption` requires of an
instance: no activity, with the lag before it, takes more than its share.

**Proved.** `CpmProofs`, for every finite set of activities, any durations, links of any type and
lags of either sign: both properties of the run, and one more.

- `SortsAllItCan` (`LoopsLeftOut`), from `SortInv`: whoever an activity waits for stands before it
  (`SortedBefore`), `deg` counts the links from what is not sorted (`Counts`), and who is
  neither sorted nor queued waits for someone who is not sorted (`Stuck`). A set in which everyone
  waits has no first place in `topo`.
- `DatesExact` (`ScheduleExact`), from `DatesInv`: what the forward pass has come through satisfies
  the recursion of the early dates exactly (`EarlyDone`), what the backward pass has, that of the late
  ones (`LateDone`). Then, against *all* schedules: the first place at which a schedule starts
  before the early date would have a predecessor that does (`EarlyLeast`), the last at which
  a schedule in time starts after the late date a successor that does (`LateMost`), and the
  dates are such schedules themselves (`EarliestOnTime`, `LatestOnTime`, and `WithinHorizon` for
  the bound of the definition).
- `PathIsCritical`: no float is negative, something that ends with the project is critical, and
  each critical activity starts on day 0 or is held back by a critical one, whichever
  ends the link ties. So what `isCritical` marks contains a critical path, from
  day 0 to the end of the project. TLC has checked it on the same instance.

## Where the code does something else than it says

Each run ends in a violation that TLC prints as a trace. Further disagreements, with
how to see them, are among the observations.

| run | property | the code | what it says |
|---|---|---|---|
| `Payments_late_failure` | `AppliedOnce` | `payment.failed` of an earlier attempt of the same order sets FAILED whatever the status is (`webhook/route.ts:132`); a captured row becomes claimable again, and the slower of webhook and confirmation extends the licence a second time | `platform-payments.ts:204-205`: "idempotent either way" |
| `Payments_two_renewals` | `RenewalExtends` | `applyCapturedPayment` reads `expires_at`, adds a year in memory and writes the sum back without a condition (`licence-payment.ts:50`); of two payments of one studio handled at once, one adds nothing | `licence-payment.ts:27-29`: "so a renewal purchased before expiry extends the remaining period rather than resetting the clock to a year from today" |
| `Accounts_rerun` | `AppliedOnce` | the batch is read without a lock (`0087_reconcile.sql:96`); two settlings of it at the same time both find a line unsettled and, while the invoice is not covered, both add its receipt | `0087_reconcile.sql:57-59`: "marks the line itself settled so a re-run of this same batch never double-applies it" |

## Observations

Met while modelling, and not the subject of a run: either plain from the lines,
or outside what the models keep, or a property of a module that fails in an
instance named here.

- *Payments.* While the confirmation holds the claim the webhook finds CAPTURED and
  answers 200; if the entitlement write then fails, the claim is released and no
  delivery is left to retry (`platform-payments.ts:233`), although line 235 tells the
  buyer "it will be applied automatically". `EventuallyGranted` fails so under
  `FairSpec` with one order, two requests and `Faults = {"grant"}`: what `AckedAtWork`
  promises, another request at work, is then all there is. A claim whose answer is lost, or whose
  process dies before the grant, leaves a CAPTURED row that nobody ever grants
  (`licence-payment.ts:44`). A read of the payment tables that fails looks like an order of no
  table: the webhook answers 200 and keeps its dedup row (`webhook/route.ts:95`).
  The fault `lookup` has this; `Payments_captured` and `Payments_serial` leave it out.
  `payments_plan_check` lists PRO and ENTERPRISE
  (`0019_studio_pro_enterprise_tiers.sql:43-44`) while `createLicenceOrder` inserts
  STUDIO or PROFESSIONAL (`platform-payments.ts:101`): `AcceptedPlans` is the
  constant for it, set by the runs to what the checkout sells. Two identity orders
  can be open at once (`platform-payments.ts:165`).
- *Job queue.* Reclaiming starts at 0-0 each time and resets the idle time of the
  whole batch (`main.py:113`): a job that kills the worker, claimed first, keeps the
  younger ones of its batch from being tried, although `main.py:95-96` says a failed
  job "is reclaimed and retried once it has been idle for worker_reclaim_idle_ms".
  `OthersSettle` fails with one worker, two records of which one is in `Killers`, and one
  failed call. A record stays PROCESSING after its job was dead-lettered if
  FAILED could not be written (`pdf.py:861`, `main.py:93`, refused by
  `generate-pdf.ts:36`); `ProcessingHasJob` names the exception.
  `times_delivered` counts deliveries, not attempts: jobs of a batch the
  worker died in are dead-lettered "after" attempts they never had. A job that kills
  the worker never reaches the code that would dead-letter it. A crash between
  XADD and XACK dead-letters twice. The letterhead in the payload is as old as the
  job (`generate-pdf.ts:42`).
- *Device gateway.* A socket that closes while `authenticateDevice` is awaited is
  entered into the routing table afterwards (`index.ts:123-141`), where requests wait for
  their timeout, although `index.ts:20` calls it the state of "which devices are
  connected": `RoutesAreConnected` fails under `Safe` with one socket and `EarlyDrops`.
  `recordInferenceResult` writes `online` after
  `markDeviceOffline` of the same disconnect (`devices.ts:122`), and the device is
  shown online until it connects again; `index.ts:24-25` calls the table the
  durable record of health. The write of a close, which nobody awaits, may land
  after what the next connection of the device writes. The model has these writes, in every
  order; no property compares the status with the table.
  `inference_count` is read and written back in two calls, and a failed read counts
  as 0 (`devices.ts:102-122`).
- *AQC.* The plan (`AQC-CONNECT-PLAN.md:203-204`) has a stale `base_seq` rejected;
  `aqc_push_rows` takes none. `NoLostUpdate` is therefore stated for a client that
  has caught up since its account got the lease; one that has not can overwrite
  rows it never saw. The lease is the account's (`0105:133`), not the session's:
  a request of a replaced session that has passed its check still commits
  (`auth.ts:35`), and two apps of one account share the lease; hence `Alone`.
  Settings come only with `since=0` (`rows/route.ts:25`). "Push online" that fails
  between two batches leaves the project bound, with part of its rows, and binding it
  again is refused (`projects/route.ts:31-39`). Two uploads of one
  content that overlap can become two versions, or the second is refused
  (`0112:21-26`); certification reads status and gross total and then updates
  unconditionally (`bills/[billId]/certify/route.ts:30-38`). A rate book sent again with
  only its order changed has the same hash and keeps the old order
  (`rate-books.ts`, `0110:53`); `GET` reads the book and its items in two calls.
- *Reconciliation and projects.* Settlings that overlap, and a remapping during one, write
  the lines over each other (`0087:145`), so that a line can show as open although
  its receipt was applied, and be applied again. An upload whose process dies leaves
  its batch PENDING, which no page offers to repeat. PROPOSAL -> ON_HOLD -> ACTIVE are
  allowed moves (`project-os.ts:243-250`), so a project that never passed the gate can
  become ACTIVE. Both writes of the status go by id alone: an
  activation read before a cancellation makes a CANCELLED project ACTIVE, and
  `reopenOnboarding` after the gate's read goes unseen; `ActivationCovered` promises
  neither, and no property covers them. An invoice of nothing stays ISSUED until a receipt
  names it, and counts as an advance not paid until then.
- *Records.* `next_ref` is called gap-free (`0003_numbering.sql:1`), but its number
  commits before the record that uses it, and a failed insert leaves a gap. Two lines
  added at the same time to a bill lose one from its total, and a failed read of the
  total resets it (`pmc-ra-bills.ts:80-83`); lines can be added to a certified bill, and
  any status may follow any other. `0005_phase4_estimation.sql:184-185` says of estimates
  "APPROVED/CANCELLED are frozen", but the status is checked without a lock: a measurement that had passed
  both checks when the estimate was approved still changes the quantity, one at most
  (`OneLateChange`). Two measurements written at the same time leave the quantity of the one
  that wrote last, until the next. A DXF whose process dies before it is queued stays
  PENDING (`upload.ts:134`). When a client crosses the threshold of section 194J the
  earlier invoices stay without deduction, although `gst.ts:38-40` has the caller told
  how much is to be caught up.
- *Money and dates.* Taxes are rounded twice (`gst.ts`, `money.ts`): 18% of 2.75 rupees is 49.5
  paise, rounded to 50 and then to one rupee, where the nearest is none. `fy.ts:8-11`
  takes the financial year in IST, `financialYearRange` gives bounds at midnight UTC, with which
  `created_at` is compared (`invoices.ts:29-30`): an invoice of the first 5½ hours of 1 April
  counts for the old year.
- *Schedules.* What waits for a loop is marked `inCycle` like the loop itself
  (`cpm.ts:50-52`).
- *Elsewhere.* The same read, add, write back of a sum is in
  `recordEngagementPayment` (`consultants.ts:196-207`) and `inference_count`; the same
  count, compare, then insert in the plan's cap on projects (`projects.ts:78-83`) and the seats
  of a studio (`platform-studio.ts:251-266`), where two requests at once exceed it.

## Bounds, fairness, and what only TLC shows

*Bounds.* `MaxFaults`, `MaxNow` (Payments), `MaxJobs`, `MaxFaults`, `MaxVersion`
(JobQueue), `Sockets`, `Requests`, `MaxRestarts` (DeviceGateway), `MaxSeq`
(AqcStore), `MaxRequests` (Reconcile), `MaxBusy` (MCRecords) and `Horizon` (Cpm) are
bounds of the instances; the modules name each in its constants.
`CHECK_DEADLOCK FALSE` stands where these can be used up and nothing else is left
to happen. The proofs hold for every value of them.

*Fairness*, where a run checks liveness:

- `Payments!FairSpec`: weak fairness of each running request (Node runs it to its
  end), strong fairness of redelivery (Razorpay repeats an event until it gets a
  2xx, and a server is free again and again).
- `JobQueue!Spec`: weak fairness of the worker's steps (`restart: always`) and
  of the idle time of each pending job (time passes).
- `DeviceGateway!Spec`: weak fairness of what a request waits for: its timer, and
  the database calls, which return.
- `Accounts!Spec`: weak fairness of each settling's next step. The database serves the
  waiters of a row lock, and looks for circles of waits after `deadlock_timeout`; a
  settling that waits for a row is not asked to go on. Nothing else is fair: a
  request may die or never come.
- `AqcStore`, `Records` and `Cpm` have none: they check no liveness.

*Proved and model-checked:* every invariant and every safety property of an action that a passing run checks.

*Only model-checked:* every liveness property (`EntitlesInTheEnd`,
`SettledInTheEnd`, `AnswersInTheEnd`, `SettleEnds`), because fairness and ENABLED are beyond the
prover; and that the violated properties fail, which their traces show.

*Assumptions of the proofs* are the `ASSUME`s of the modules, which TLC evaluates in
every run: that constants have their kind, a few sets are disjoint, and what a database
holds is finite (activities and links in `Cpm`, the first measurements in `Estimates`). Five
theorems state theirs in the theorem: `NotStuck` and `PdfIsFresh` (`SingleWorker`), `Implements`
(`Quiet`), `NothingDropped` and `AckedOnlyAtWork` (`UndoWorks`). `Payments_claims` (`Quiet`),
`Payments_captured` (`UndoWorks`) and `JobQueue_deploy` (`SingleWorker`) are instances that
satisfy them.

## What is not modelled

Of the models: in Payments the amounts, receipts and e-mails, the signature check
(a call that fails it changes nothing); in JobQueue the other job kinds (they
share loop, acknowledgement and dead-lettering) and the layout of a PDF; in
DeviceGateway heartbeats and counters; in AQC settings (same lock and check as a
push, no number), files and the site inbox; in Reconcile the parsing of a file; in
Accounts what else an onboarding or a proposal holds; in Drawings the conversion and the
storage, whose key is the hash of the content; in RaBills the arithmetic of a line and the checks of a
claim against the contract; in Invoices GST, place of supply, rounding, a firm that
does not deduct by default, and more than one financial year; in Estimates shapes, units, rates
and totals.

A few steps of the models are two calls in the code, or hold something fixed that the code may
choose again; none of the properties can tell the difference:

- `AdminActivateCompany` (Payments) reads and writes at once (`connectdex.ts:245-261`): the code
  refuses a company that is missing or active and then writes ACTIVE by id, whatever the status is
  by then. In between a company can only have become ACTIVE, and the write repeats it, or have come
  to another status from which the one step leads to ACTIVE as well.
- `Fetch` (JobQueue) of a transmittal is two reads (`db.py:149-168`): each is at least as new as
  what the job was asked for, which is all `FreshPdf` compares.
- `Renew` (AqcStore) lets a renewed lease count for transactions that are still to begin, where
  the code's new end is the start of the transaction plus two minutes (`0105:131,159`): the model
  allows every longer wait.
- `WriteLines` (Reconcile) takes the amounts of a receipt from the statement, though a
  remapping may name another column (`match.ts:193`): the amount applied and the amount in the
  log are the same in either case.
- `Move` (Accounts) reads the status and then whether there is a DNA (`activation.ts:48,60`);
  a DNA is never taken back, so the second read cannot contradict the first.

A component is marked
`partly` in `PROJECT.json` where what is left out changes its state. The desktop, the devices, Razorpay and
Redis are modelled by what the code relies on.

Of the rest: presentation (`web/app`, `frontend`, `android`), single guarded writes
(portals, device registration), scores for the screen (pulse), floating point geometry
(BBS, take-off), sign-in against a store outside the repository, and the workflow
engine: nothing in the repository calls `run_due_workflows` (migration 0071). `PROJECT.json`
lists each with its reason.

## Plan

Written first, in the order of what goes wrong most expensively: money
(Payments), work lost or stuck (JobQueue), answers (DeviceGateway), shared data
(AqcStore); then the ledger of a firm and what rests on it (Reconcile, Accounts), the
records it writes in several calls (Records), and the one algorithm with a definition
of its own to be compared with (Cpm). Left, in this order:

1. `aqc_set_settings` in `AqcStore`, which completes the row store, and the site
   inbox beside the bills of `RaBills`.
2. `Seats`, composed with `Payments` over `licences`: the seats bought, the
   memberships that use them, the account each is written to.
3. The parsing of a bank statement (`match.ts`) as functions against a reference
   definition: columns guessed from headers, amounts and dates.
4. `RateLimit`; the first generation's `SyncOutbox`; the workflow engine if
   something comes to call it.

The project has one passing run per question, of at most a few million
states, and a violating one only where a line of the repository is contradicted.
A new part joins `Accounts` or `Records` where it shares state with them and is
otherwise a module of its own.
