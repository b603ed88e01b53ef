# EPS in TLA+

EPS serves legal process on chain.  A filer submits a case through
`POST /api/service-requests`; the submission consumes one unit of its
organization's quota and becomes a `ServiceRequest` row; a worker takes the row,
sends a Solana transaction whose memo names the request, confirms it and marks
the row CONFIRMED, or marks it FAILED and gives the unit back.  Around this core
are billing (Stripe, comp grants), the notice page and its first-access record,
the certificate, Hedera receipts, rate limiters and a dashboard.

This directory models that system in TLA+: modules translated from the source,
TLC configurations that check them on small instances, and theorems checked by
TLAPS.  `PROJECT.json` maps each definition to the lines it models.

## Inventory

| Part | State it keeps | Operations | Meets the others through | Hard behaviour | Correct when |
|---|---|---|---|---|---|
| Worker loop, `worker/index.ts` | none durable; the claimed row in memory | `claimNext`, `runOnce`, `drain`, `pollForever` | the `ServiceRequest` table | several workers, restarts, the snapshot of `findFirst`, errors that leave `runOnce` | a row is taken by one worker, resumed after a crash, never reopened, and not starved |
| Delivery, `worker/process.ts` | `txSignature`, `slot`, `status` | send, persist, confirm, verify, commit | Solana RPC; the table | a crash between two awaits, a late or lost answer, a lagging RPC node | CONFIRMED is backed by a finalized transaction of this request; nothing is sent twice |
| Failure, `lib/failure.ts` | `status`, `failureReason`, audit rows | `failServiceRequest` (one transaction) | quota, audit | rollback, a second failure of the same row | status, credit and audit together and once |
| Quota, `lib/quota.ts` | `Subscription.usageCount`, period | `checkAndDecrementQuota`, `restoreQuota` | intake, worker, billing | read and write in two statements, rollover, several subscriptions | at most the tier's units per period; a failed delivery costs nothing |
| Intake, `app/api/service-requests/route.ts`, `lib/intake.ts` | the new row | POST | quota, ENS, Hedera | quota and row in separate statements (the transactional variant in `lib/intake.ts` has no caller outside tests) | one unit per row |
| Stripe webhook, comp grant, checkout | `WebhookEvent`, `Organization`, `Subscription` | event application, grant | quota | repeated and concurrent events; every unique violation is taken for a repeat | each paid checkout takes effect once |
| Demo routes | `status` | `fulfill`, `skip-payment` | the table, Hedera | status read, then written by id much later | do not undo the worker's outcome |
| Notice access, `lib/noticeAccess.ts`, `app/n/[token]` | `NoticeAccess`, `CertificateAddendum`, audit | `recordFirstAccess`, two emails | certificate, e-mail | concurrent views, an e-mail sent inside an uncommitted transaction | one record, for the first view; mails for nothing else |
| Certificate, `lib/certificate-store.ts` | `CertificatePdf` | `getOrCreate` | notice access, worker | concurrent generation; generated before confirmation or view and kept for ever | every download is the same document, from the first to the last |
| Rate limiters | in-process maps | `rateLimit` | the routes | window boundary, LRU eviction | a key gets at most its limit per window |
| Hedera recording | `hcs*`, `hts*` columns | `recordOnHedera`, `mintAndTransferProofNFT` | worker, intake, demo | detached promises racing each other and the process's exit | ids on a row belong to one recording |
| Solana adapter, `lib/chain/solana.ts` | none | send, confirm, getMemo | worker | ignored transaction errors, null reads | finalized means finalized |
| Intake form, ENS lookup, `app/dashboard/new`, `api/ens/resolve` | the form's fields in the browser | debounced lookup, submit | POST, `resolveENS` | late, lost and overtaken answers; a retry | the handler decides on the recipient the filer wrote; one request per filing; no lookup hangs |
| Documents, `lib/storage.ts`, `api/upload`, `ServiceActions` | objects in the bucket | put | quota, the staging transaction | the bucket is not rolled back | quota, row, audit row and document together |
| Live status, `app/dashboard/[id]` | badge and section in the browser | poll, refresh | the table | answers out of order, polling that stops | the outcome is shown and stays |
| Authentication, `lib/auth.ts` | none (Clerk's session) | the three guards | every route | | |
| Other chain adapters, agents, payments, pages, scripts | none | | | | |

## Plan

Done, in this order; each line names what it composes and what it promises:

1. `ServiceLifecycle`, `RequestStore`, `SolanaChain`, `Worker`, `Fulfilment`,
   `FulfilmentProofs`: intake and worker over the shared tables.
2. `QuotaMeter`, `QuotaMeterProofs`: the meter over time.
3. `PublicNotice`, `PublicNoticeProofs`: first view, mails, certificate.
4. `Auth`, `Billing`, `BillingProofs`: checkouts, the webhook's ledger, comp grants.
5. `HederaRecords`, `HederaRecordsProofs`: the detached recordings and the demo
   routes, composed with `Fulfilment`.
6. `Dashboard`, `DashboardProofs`: the polling page, composed with `Fulfilment`.
7. `FixedWindow`, `RateLimit`, `RateLimitProofs`: both limiters, refined to the
   promise of a fixed window.
8. `IntakeForm`, `Documents`, `Filing`, `FilingProofs`: form, lookup, submission
   and uploads.

Left: the contract of `lib/chain/ChainAdapter.ts` that the EVM and Bitcoin adapters
implement, once something calls them.

## Modules

### `RequestStore`
The rows of `ServiceRequest` (status, createdAt, txSignature, slot, the number
of SERVICE_FAILED audit rows) and the meter of each organization, with one
operator per statement or transaction.  The statements are what matters: a claim
is conditional on the status, every other update of the worker is by id only.
`createdAt` is the rank of insertion.  A request's contents are its identity;
whether its recipient is one the adapter refuses is left open at the send.
A null `orgId` makes `restoreQuota`'s query invalid (the column is required), so
`FailServiceRequest` is not enabled for such a row and `FailThrows` of `Worker`
stands for what happens instead.

### `SolanaChain`
A transaction is pending until it is finalized (with or without an error) or its
blockhash expires.  Each broadcast has its own signature.  The memo is abstracted
to the request it names, because `buildServiceMemo` ends in the request's id.

### `Worker`
One action per await of `claimNext` and `processServiceRequest`:

| action | code |
|---|---|
| `Find`, `FindNothing` | `findFirst` in `claimNext`: the snapshot with `txSignature` |
| `Claim`, `LoseClaim` | the conditional `updateMany`, count 1 or 0 |
| `Send`, `SendFails`, `SendReplyLost` | rent lookup, address check and `sendTransaction` |
| `Persist` | `update({txSignature})` |
| `Confirm`, `ConfirmFails` | `adapter.confirm`; `value.err` is not looked at, `getTransaction` may be null |
| `Verify`, `VerifyFails` | `adapter.getMemo` and the comparison |
| `Commit` | `update({status: CONFIRMED, ...})` |
| `Fail`, `FailThrows` | `deps.fail` |
| `DbRefuses`, `DbReplyLost`, `Crash`, `Start` | an error from a database call (applied or not), death and start of the process |

`Drainers` are the workers started with `DRAIN_AND_EXIT=1`: they leave the loop
when nothing was claimed and die of an error, where a polling worker goes on.

### `Fulfilment`
Composes the worker with the POST handlers, whose two writes (`Meter`, `Create`)
are separate steps, as in the route.  It states the properties.  The refinement
mapping to `ServiceLifecycle` reads a submission's phase off its handler and its
row, and the balance off the meter.

### `ServiceLifecycle`
The abstract promise: reserve a unit, accept, then serve or give back, once.
`Forfeit` is part of it because the route has it: a handler that dies between
its two writes keeps the unit.  `Doubt` is part of it because the worker has it:
when the reply of the update to CONFIRMED is lost, `runOnce` fails the row
(`worker/index.ts:191`), and until it has, whoever asks is told CONFIRMED.  A
request gets into doubt only by a mishap of its own (`mishaps` is mapped to
`faults`), and only out of it is a confirmed request ever given back.

### `HederaRecords`
`Fulfilment` with what it left out: recordings on the topic (a sequence of
requests) and in NFT collections (per serial its request and holder).  A
recording is a small process with up to two results outstanding.  Intake's and
the worker's run `recordOnHedera` (message and receipt NFT side by side, either
may fail alone); the worker starts a second one that mints and transfers; the
demo route submits a message, then mints and transfers, then writes the columns
and CONFIRMED by id.  `Columns` is which columns each final update sets.  The
worker's end of any kind (`KillsRecordings`) drops what it had under way.
`FindStaged` and `SkipPayment` are the read and the write of `skip-payment`.
`RunProof` is `api/hedera/run-proof`, whose message and NFT belong to no request.

### `Dashboard`
`Fulfilment` and one open page.  `badge` is the state of `LiveStatus`, `watching`
the status its effect in force was run with, `section` what the server rendered
last.  A poll is asked, answered with the row's status of that moment, and
received or cancelled later; `Rerun` is React re-running the effect, whose cleanup
cancels every poll still out.  `GET /api/service-requests/:id` finds a row by
organization only, so `Answer` is never enabled for a filer without one.

### `QuotaMeter`
One organization's subscriptions over time: bought (`CheckoutCompleted`),
granted (`CompGrant`), consumed and restored by callers that read in one step and
write in another.  `period`, `charge` and `clean` are history variables: the
period a unit was charged to, and whether that period was hit by a second
rollover (both callers saw the old period elapsed) or by a credit for a unit of
another period or subscription.

### `Auth`, `Billing`
`Auth` has the three guards of `lib/auth.ts` as functions of the session, with
the HTTP status of each refusal.  In `Billing` webhook deliveries and grants are
transactions that interleave statement by statement: `RecordEvent` (the ledger
row first, as in the code), `FindOrg` and `InsertOrg` (the two statements of
`organization.upsert`), `FindSub` (grants), `WriteSubscription`, commit.  An insert
of a unique key waits for another open transaction that has staged it.  Which of
two outcomes a lost insert has (`OrgResolved`, `OrgCollides`) depends on how Prisma
carries the upsert out, so both are there; `subscription.upsert` is modelled the same
way (`FindRow`, `InsertRow`, `RowResolved`, `RowCollides`, then `WriteSubscription`).  Stripe creates events freely,
possibly two for one checkout, and delivers each until it is answered 2xx.

### `PublicNotice`
One notice, any number of page requests and certificate downloads.  A page
request goes through the statements of `recordFirstAccess` (`FindService`,
`CreateAccess`, `WriteFirstViewedAddendum`, `WriteAudit`, `CommitAccess`); what an
open transaction has written is in `staged`, and the insert of the unique
`NoticeAccess.noticeId` waits while another transaction has staged one and fails
once one is committed (READ COMMITTED, the database's default, which the code does
not change).  `WriteAudit` also starts the detached alert, as the code does before
the commit; the page mails the owner as well, after it (`page.tsx:173`).  `AbortAccess` stands for any error or timeout of the transaction,
which the page swallows; `CrashVisit` for the end of the process.

A download goes through `FindCertificate`, `GenerateCertificatePdf`,
`StoreCertificate` or `StoreFails`, `RereadCertificate`.  A PDF is the download
that generated it and the facts it shows: the proof columns that are set and the
addendum.  A proof column, once set, stays set; that another recording can replace
its value is the subject of `HederaRecords`, not of this module.

### `FixedWindow`, `RateLimit`
`FixedWindow` is what the header of `lib/rate-limit.ts` promises a key: a count
per window, no request beyond the limit, a window that starts with its first
request.  `RateLimit` has both limiters over one clock.  `lib/rateLimit.ts` keeps
its keys in a Map: `Deleted` and `Inserted` are its order after `delete` and `set`,
`Excess` the number of keys its loop drops.  The refinement mapping caps the count at the limit (the code goes
on counting refusals) and lets only the bounded limiter forget a window.
`admitted` and `forgotten` are history variables; `admitted[k][t]` counts what was
admitted before `t`, so that a span's admissions are a difference.

### `IntakeForm`, `Documents`, `Filing`
`IntakeForm`: the recipient field with its timer and lookup, the submission with
the address of the last lookup, and what the POST handler decides from them;
answers come in any order or not at all.  `Documents`: `createServiceRequest` of
`lib/intake.ts` as a transaction that holds the lock on the meter and puts an
object into a bucket that is not rolled back, and the upload widget with its
route.  `Filing` composes the two as the pages do: the widget appears once the
form has led to the page of the staged request.  `createServiceRequest` is called
by tests only; it is modelled because it is the variant of intake the repository
documents as atomic.

## Runs

| run | question and result |
|---|---|
| `one_worker` | One drain worker with every kind of fault, two of them, and two filers of one organization with two units.  Billing is exact; a signature is never replaced, and an outcome only when the reply of its own update was lost (`RevisedOnlyInDoubt`); extra broadcasts are paid for by faults; every staged request settles; and the whole refines `ServiceLifecycle`, its fairness included. |
| `two_workers` | A polling and a draining worker with one fault of every kind, two filers that share one unit and one without an organization: what survives is that CONFIRMED is backed by a finalized transaction with the request's memo and that terminal rows are never claimed again. |
| `quota_meter` | Three callers, two subscriptions, two tiers, one grant, several rollovers: the meter stays within its tier's limit and, in a period without a concurrent rollover or a misdirected credit, counts exactly the units owed. |
| `billing` | Two checkouts, two events repeated to two handlers, one grant.  Effects and ledger row commit together and once; an event is lost only to a race on its organization or subscription, and then the organization has a subscription; every subscription is explained by a payment or an audited grant; a late event does not take a granted tier back; every event is acknowledged. |
| `public_notice` | Two page requests race for the first view and two downloads for the certificate, with two faults.  The record is whole and unique, the owner gets at most the two mails a first view sends (more only after a fault), certificates agree and are never replaced; a found notice is shown whatever becomes of the recording, and the wait for another transaction's insert always ends. |
| `hedera_records` | A filing with its intake anchor, the worker's two recordings and one demo call.  Message and transferred NFT named by the row exist and are its own; the receipt is too when a collection is configured; each CONFIRMED has a proof. |
| `demo_drift` | Two requests of one organization, a demo call for each and a worker that fails and refunds either: the meter misses at most one unit in use per demo call and never counts one that nobody holds. |
| `dashboard` | The page beside intake and worker, two polls under way: no badge, section or answer is ahead of the row; once the effect watches an outcome the badge stays; an open page gets to show the outcome in badge and section, or keeps a CONFIRMED it was told while the row was in doubt (`Misled`). |
| `rate_limit` | Three clients of the bounded limiter with room for two, one of the other, a window of three ticks and Retry-After in units of two: both implement `FixedWindow`; a span of a window's length admits at most twice the limit, plus the limit per window forgotten; Retry-After is long enough. |
| `filing` | Two names, a dotted number and a wallet, two submissions, one lost answer; two intakes that share one unit; a valid and an invalid file.  Duplicates take a lost answer, staging is whole, success is true, the spinner settles. |
| `reverted_confirmed`, `unreadable_document` | Sentences of the source that the code does not keep; each run has the counterexample (see `findings`): a transaction finalized with an error is taken for a delivery, and the iv and auth tag of a stored document are not kept by anybody. |

### Smaller differences
Read off the code while modelling, and left without a run of their own:

- Two pollers can both win the claim of a row that is IN_PROGRESS
  (`worker/index.ts:165` against `:22` and `:140`), because the conditional update
  accepts the status it sets; `two_workers` checks what holds all the same.
- A crash between the broadcast and `update({txSignature})` leads to a second
  broadcast (`worker/process.ts:80` against `:38`).  `ExtraBroadcastsCostFaults`.
- When the reply of the update to CONFIRMED is lost, the error reaches `runOnce`,
  which fails the row it has just confirmed and gives its unit back
  (`worker/index.ts:191`, `worker/process.ts:107`): a served notice for nothing, and a
  page that read CONFIRMED in between shows it for good.  `RevisedOnlyInDoubt`.
- A lagging RPC node makes `confirm` answer slot 0, which is stored
  (`lib/chain/solana.ts:150` against `worker/process.ts:86`).
- A row without an organization can never be failed: `restoreQuota` throws inside
  the transaction, so the oldest such row is claimed for ever and starves younger
  ones (`lib/failure.ts:67` against `worker/index.ts:177`).  `EveryRequestSettles` is
  therefore checked with filers of an organization; a filer without one is in
  `two_workers` and in every theorem.
- A drain that loses one claim exits although other rows are claimable
  (`claimNext` answers null for both).
- Two callers that see the same elapsed period both reset the meter and may admit
  one unit too many (`lib/quota.ts:103` against `:67` and `:111`); `restoreQuota`
  credits the latest ACTIVE subscription, not the one charged.  `clean` marks the
  periods this touches.
- A first view mails the owner twice, from the page (`app/n/[token]/page.tsx:173`)
  and from the transaction (`lib/noticeAccess.ts:111`); the latter starts its alert
  before the commit, so one that fails alerts again at the next view
  (`OwnerMailsBounded` counts both channels and the faults).
- A certificate generated before the first view or the confirmation never shows
  it, and is what every later download gets (`lib/certificate-store.ts:24` against
  `lib/certificate.ts:8`).
- A webhook whose `organization.upsert` or `subscription.upsert` (`route.ts:110`)
  collides with a concurrent insert is answered 200 without having been recorded
  (`webhooks/stripe/route.ts:64`): the exception in `LostOnlyToRaces`.
- The bounded limiter is not LRU for elapsed keys: one that is set again keeps its
  old place in the Map (`lib/rateLimit.ts:57`), so a key in use may go first.
- The form sends its name as `input`, the resolve route reads `name` or `q`: every
  lookup is answered 400, so the address hint the POST falls back on is always
  null.  `tests/integration/ens-resolve.test.ts:20-30` expects an answer to `input`,
  and `api/service-requests/route.ts:113-117` describes the fallback.  Hence no
  property speaks of the wallet of a name: that it is the right one would be true
  because the hint never arrives, and a hint that is stale cannot be met.
- The upload widget keeps the file input enabled: a file picked during an upload
  gets the success of the other one (`switched` in `Documents`).
- The page of a filer without an organization never updates, because the route it
  polls looks rows up by organization.

### Bounds
In `one_worker` two requests let one be in the worker's hands while the other
queues or is still at intake; three signatures suffice for two requests and one
extra broadcast, and when none is left a send can only fail; two faults allow a
crash during the recovery from another.  Two units are enough for both requests:
refusals are in `two_workers`, where two filers share one unit and one has no
organization (three requests, two signatures, one fault).  Two workers suffice for
every race on one row.  In `QuotaMeter` the
clock has four values, so two periods of length one can elapse; tiers of one and
three units stand for one and 999.  In `PublicNotice` the second of
two visits waits for the first, comes later, or takes over after an abort; two
downloads race, and two faults allow an abort and a crash.

In `Billing` two handlers let a repeat meet its first attempt before, during and
after its commit; two events may report one checkout or two of one organization;
one fault is a lost answer or a rolled-back delivery.  In `HederaRecords` one
request meets all four kinds of recording, three of them at a time (the demo's
needs a free one, so it runs beside the anchor or the worker's pair); one demo
call is enough for each stale write; the process may end at any step, so no database
error is added.  `demo_drift` has two requests and two calls, which may drift the
meter by two units, and do.  It has a single
recording at a time, so that the runs of different rows take turns and the worker,
which needs two after its commit, does not get past it: its outcome of interest is the
row it fails under a demo call's hands; rows it confirms are in `hedera_records`.  In `Dashboard` two polls suffice for one to overtake the other.
In `RateLimit` six instants hold two windows and their boundary, seven requests
fill both and evict; limits of one and two are distinguished.  In `Filing` two
edits make a field pass through two names, two submissions make a duplicate.
Symmetry is used for signatures, recordings, callers and client keys in safety
runs only.

### Fairness
`Fairness` of `Fulfilment` assumes: a POST handler runs on after metering; a
worker process is started again when it is down (a supervisor, or the 15-minute
schedule of `worker-drain.yml`) and takes its next step (every await of the code
returns or throws: the RPC calls time out); the cluster decides every pending
transaction.  Nothing is assumed about which outcome an await has.  Crashes and
database errors are finitely many (`MaxFaults`).  `FairSpec` of `PublicNotice`
assumes only that a page request that has been admitted takes its next step
(every await returns or throws); visits are finitely many, so weak fairness is
enough for the one that waits for a row lock.  `Billing` assumes that Stripe sends
an unacknowledged event again and that a started transaction takes its next step;
failed deliveries are finitely many.  `Dashboard` adds the browser's timer,
callbacks and refresh, and strong fairness of `Answer`: of the polls that are sent
for ever not every one is refused (the limiter admits ten of the twelve a minute).
`Filing` assumes that timers fire and that a fetch is answered or fails.

## Proofs

`FulfilmentProofs`, for all constants that satisfy the assumptions:

- `TypeCorrect`: `TypeOK`, with one lemma per kind of statement (`UpdateType`,
  `FailType`) and of control move (`MoveType`, `FaultType`).
- `TerminalStays`: `TerminalNeverReopened`, any number of workers, from
  `StatusForward`: the guarded claim is the only statement that reopens anything.
- `ConfirmedProven`: `ConfirmedIsProven`, any number of workers.  Strengthened
  with `Verified` (a worker about to commit has compared the memo of a finalized
  transaction); `ChainMonotone` shows that nobody can take that back.
- `SoloSafety`, `SoloFinal`: under `Solo` (a single worker, whatever faults it
  meets: crashes, refused calls and lost replies) the signature on a CONFIRMED row is
  the verified one, FAILED rows have exactly one audit row, and outcomes and
  signatures are revised only as `RevisedOnlyInDoubt` says.  None is inductive alone:
  `InMemory` adds that what the worker remembers agrees with the row, but for a row in
  doubt; a second worker breaks it.  `FailuresAudited` is the audit row
  on its own.
- `MeterIsExact`, `SoloImplements`: `MeterExact` and `ImplementsLifecycle` under
  `Solo`.  `MeterStep` lists what a step can do to a submission's phase and the
  meter; `SoloMeters` shows that there is nothing else (`deps.fail` meets a row in
  progress or in doubt only, so it gives back a unit once); `MeterCounts` turns a move of the
  phase into one unit more or less, and `StepImplements` into a step of
  `ServiceLifecycle`.  That the meter is exact is needed for the simulation: the
  floor of `restoreQuota` is never reached.
- `ExtraBroadcastsPaidFor`: `ExtraBroadcastsCostFaults` under `Solo`.  Broadcasts
  that neither the row nor the worker knows of are orphans, and a step that makes
  one is a fault.

`QuotaMeterProofs`: `MeterBounded`, that the meter never passes its tier's
limit; the strengthening says that a limit read earlier is still within the
subscription's tier, because tiers are only ever raised.  `CleanMeter`:
`CleanMeterExact`, for one organization with any number of subscriptions, callers and months.  Charges
are never dated ahead (`ChargedInThePast`), so a rollover starts from nothing owed;
then each step is one unit charged, one given back, or neither (`CleanInv`).

`PublicNoticeProofs`, for any number of visits and downloads and any faults:

- `RecordWhole`: `AccessRecordedWhole`.  The strengthening `RecordInv` says what
  each stage has staged and that a transaction which has staged the access row is
  the only one, with nothing committed yet; that is what the unique constraint buys.
- `CertificateKept`: `CertificateWrittenOnce`.
- `AnswersAgreeButForFaults`: `AnswersAgree`.  `Dissent` also counts the download
  that is about to answer with its own bytes because it found none stored.
- `OwnerMails`: `OwnerMailsBounded`.  `TellInv`: while a page is mailing there is one
  audit row and no mail of a page yet, and an alert whose transaction did not commit
  took a fault; `SentAreCounted` turns the alerts into a number.

`RateLimitProofs`, for any keys, limits, window, rounding unit and cap:

- `RetryAfter`: `RetryAfterSuffices`, from `SecondsCover` (rounding up covers the
  time left) and the invariant that a refused key's Retry-After ends no earlier
  than its window.
- `LimitersImplementFixedWindow`: `ImplementsFixedWindow`.  `Requests` reduces both
  limiters to one kind of step, which is then matched with `Admit` or `Deny`; the
  clock matches `Pass`.
- `SpanBounded`: `SpanLimit`.  The limit alone is not inductive: a span that ends
  in the running window may be followed by another request.  `SpanInv` adds, for
  each key, when its last window started (`HasWindow`: spans that start in it have at
  most what the counter says, capped; spans that start in the window before, a limit
  more) and that nothing is admitted in the future (`Settled`).  A window that elapses
  takes the place of the one before it (`HitWindow`); one that is dropped while it
  runs costs a limit (`DroppedWindow`), which is why `forgotten` is in the bound.
- `TypeCorrect`: `TypeOK`, that is the Map of `lib/rateLimit.ts`: `DeletedKeys`,
  `InsertedKeys` and `DroppedKeys` say which keys, in which number, are left after
  `delete`, `set` and the eviction loop, and that none is there twice; `MapInv`
  ties the counters to them.

`DashboardProofs`, for any number of polls, workers and faults:

- `OutcomeKept`: `OutcomeStays`.  Re-running the effect cancels the polls under way,
  and an effect that watches an outcome asks for none (`Quiet`).
- `PageIsPassive`: `Dashboard` implements `Fulfilment`, so that what is proved of
  intake and workers holds beside the page.
- `PageBehindRow`: `PageNeverAhead`.  `StatusForward` of `FulfilmentProofs` says that
  no step of any worker takes a delivery back; `PageInv` that the page holds only
  what its row may be shown as, and neither watches nor polls before there is a row.
- `OutcomesShownAreTrue`, under `Solo`: an outcome shown is the row's own, except
  a CONFIRMED read while the row was in doubt, which takes a lost reply (`Misled`).  With
  several workers FAILED may turn into CONFIRMED behind a page that has stopped
  polling.

`BillingProofs`, for any number of checkouts, events, handlers and grants and any
faults.  One invariant carries all four results, `BillingInv`: what Stripe has
said is not taken back (`StripeInv`); a handler past its first statement has
staged the key of its event, which nobody else has staged or committed
(`StagedInv`: the unique constraint); an organization is there, or staged by the
transaction itself, when its subscription is written (`OrgInv`); a subscription
keeps its organization (`RowInv`); and the ledger says what was applied
(`LedgerInv`).

- `LedgerIsExact`: `LedgerExact`.  `LostToRacesOnly`: `LostOnlyToRaces`; the
  organization of a handler that loses an insert has a subscription (`SubscribedInv`).
- `RowsAccountedFor`: `EveryRowAccountedFor`.  `GrantsAreKept`: `GrantKept`.

`FilingProofs`, for any number of edits, submissions, intakes and files:

- `DuplicatesPaidFor`: `DuplicatesCostLostAnswers`.  `AnswerInv` counts: the
  submissions that may stage a row, but for the one awaited, are at most the lost
  answers, plus the one that led away from the form.
- `StagedWhole`: `StagingIsWhole`, because the transaction that has incremented
  the meter is the only one under way (`LockInv`).
- `SuccessTrue`: `SuccessIsTrue` (`WidgetInv`).

`HederaRecordsProofs`, for any number of requests, workers, recordings and calls.
`RecordsInv` says of each recording that the results it holds are on the ledgers
(`TrueResult`), and of each row the same (`TrueProof`); topic and collections only
grow and an NFT changes hands once (`Grows`), so that both stay true while others
run; `ColumnsTrue` shows that every final update writes columns that fit together.

- `ProofsReal`: `ProofsAreReal`.  `ReceiptReal`: `ReceiptIsReal`.
- `ConfirmationsProven`: `EveryConfirmationProven`, with `VerifiedStep` of
  `FulfilmentProofs` for what the worker confirms.
- `DriftPaidFor`: `DriftCostsDemoCalls` for a single worker, lost database replies
  included.  `CoreBills`: intake and worker move units and meter together, because
  a row in the worker's hands holds its unit whatever a demo call wrote into it
  (`HeldOpen`); a write by id costs at most one (`DriftStep`).  `DriftInv` adds the
  calls whose write is still to come to the drift.

Every invariant and every safety property of a passing run has its theorem.  Only
model-checked, because liveness under fairness is out of the prover's reach:
`EveryRequestSettles`, the fair refinement of `ServiceLifecycle`,
`EveryEventAnswered`, `OutcomeShown`, `LookupSettles` and
`TrackingNeverBlocksView`.  With several workers neither the exactness of the meter nor
`ServiceLifecycle` holds: two workers that fail one row give its unit back twice.

## Not modelled

Rendering, wording, logging, authentication by Clerk beyond its verdict, the
mainnet guards (they read only the environment), byte layouts of transactions and
memos, the cipher of stored documents and `decryptDocument` (no caller), reverse
ENS lookup (no caller), the EVM and Bitcoin adapters (no caller in the worker or a route), third-party widgets.
`PROJECT.json` gives the status of each component.  Insertion of a row and its
`createdAt` are one step here, so rows become visible in the order of
`createdAt`; no property depends on that order.
