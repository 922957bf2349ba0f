# A verification project for DesignKit

DesignKit (`backend/internal/designkit`) turns product pictures and prompts into
batches of generated images. A user submits a *batch* (`designkit_jobs`) of
*images* (`designkit_job_items`); the estimated price is frozen as a *hold*
(`designkit_holds`); a pool of workers claims images from PostgreSQL with leases,
sends them to the image gateway, and writes the results back; when all images have
landed, a settlement loop looks up what the gateway charged, books it, closes the
batch and releases the hold. The rest of the repository is the upstream gateway,
the front end, and code DesignKit calls; it is treated as environment.

Money is spent outside the database, by a call that cannot be undone, on behalf of
a row that several actors change at once. That is what this project is about.

## 1. Inventory

| Component | State | Operations | Interacts with |
|---|---|---|---|
| Status machines (`domain/status.go`) | none: two white lists and the terminal-status rule | `CanTransition`, `CanTransitionItem`, `TerminalJobStatus`, the sources of every guarded UPDATE | everybody |
| Submission (`service/job_create.go`, `repository/job_repo.go`) | users, jobs, items, holds; idempotency keys | `CreateJobWithItemsAndHold`, `startJob`, `abandonJob` | queue (rows), settlement (holds) |
| Stop and retry (`service/job_query.go`) | the same rows, `cancel_requested_at` | `StopJob`, `RequestJobStop`, `finalizeAfterStop`, `RetryItem` | workers, settlement |
| Job queue (`worker/pool.go`, `queue.go`, `process.go`, `errors.go`) | item rows: status, `worker_id`, `attempt_count`, lease; counters; per worker the claimed item | claim, load, mark running, call, renew, write back, finalize, release on shutdown | gateway, reaper, stop, retry |
| Heartbeat and reaper (`heartbeat.go`, `reaper.go`, `ReapStaleJobs`) | `heartbeat_at` | refresh; fail dead pending images; fail stale batches; close stuck settlements | queue, settlement |
| Settlement (`settlement.go`, `billing_repo.go`) | `billed_cost`, `actual_cost`, `settled_at`, hold amount, alerts; in-memory back-off | list, look up, book, settle, alert | upstream's `usage_logs`, reaper |
| Assembly (`module.go`) | whether a pool exists | `newWorker`, `Start`, `Close` | all loops |
| Quota requests (`module.go`, `billing_repo.go`) | `designkit_quota_requests` | file, approve, reject; credit the balance; reopen when crediting fails | upstream's `UpdateUserBalance`, the user's next request |
| Upscale queue (`service/upscale.go`, `upscale_repo.go`) | `designkit_upscale_tasks`; a mutex, a bounded channel, one worker | `Enqueue`, `recoverPending`, `process`, `Close` | assets (source and result) |
| Images (`service/asset.go`, `asset_repo.go`, `worker/process.go`) | rows and files of assets, variants and results | upload, delete, preprocess, store, write back | queue, cleanup |
| Cleanup (`service/cleanup.go`, `cleanup_repo.go`) | none of its own; the lists of one round | list, delete files, mark rows, per batch of rows | images, unfinished batches |
| Inspiration sync, internal keys | run records under an advisory lock; a cache | see the plan | – |
| Chat, prompt suggestions, storage back ends, handlers | mostly I/O | – | – |

What is hard here:

- *Interleaving.* Workers, two kinds of user requests, the heartbeat, the reaper and
  the settlement loop change the same rows, each through a guarded UPDATE, none
  aware of what the others are about to do. Lease guards compare `worker_id`, never
  the attempt.
- *Crash and restart.* The process may end between any two statements; nothing but the
  database survives. `attempt_count` is advanced at the claim for this reason.
- *Partial failure.* Many clean-up steps are best effort: the error is logged and the
  next step runs (`abandonJob`, `applyItemBilling`, `FinalizeJob`, the write-back).
- *Lateness.* `usage_logs` is written asynchronously, possibly never; heartbeat,
  lease, settlement timeout and reaper timeout race with it.
- *Two stores.* Files and rows are written and deleted one after the other, with other
  actors in between (`UploadAsset`, `preprocess`, `storeImages`, the cleanup); so are the
  upscale rows and the channel that signals them, and the mark on a quota request and the
  balance it is for.
- *Money.* Counters and holds are adjusted by differences from many code paths and
  never recomputed.

What makes each component correct:

- queue: a late result never overwrites a newer attempt; every gateway call has a
  billing id nobody used before; calls stay within the attempt budget; no image is
  left behind in the queue;
- batch life: counters equal the rows; a finished batch is quiet; the hold is open
  exactly as long as the batch is; the settled status is what the rows call for; a
  terminal status is never left; every batch ends;
- admission: nobody goes into debt by charges that a hold stands for; a double submit makes
  one batch; a retry never opens a hold behind the back of whoever closes the batch;
- settlement: no bill counted twice, none of those looked up forgotten, every
  delivered image paid for, books closed once and in the end always;
- quota: one payment per request, none forgotten, one open request per user;
- upscale: one unfinished task per image, no send that blocks under the mutex, nothing
  lost, repeated or overtaken, across restarts;
- images: an unfinished batch keeps its images, no file without a row and no row without a
  file beyond the known windows, and what has expired goes away.

`PROJECT.json` lists all components, the hazards at their lines and the properties
that would catch them.

## 2. Modules

| Module | Models | Notes |
|---|---|---|
| `JobStatus` | `domain/status.go` and the source-status lists of the repository | constant operators |
| `JobQueue` | submission, workers, heartbeat, reaper, stop, retry, settlement's status side, process | the core; any number of batches, images, workers |
| `MCJobQueue` | – | instances for TLC |
| `BatchLedger` | what a batch's owner is promised | the abstract specification |
| `LedgerRefinement` | the view of the rows that implements it | `JobQueue` refines `BatchLedger` |
| `JobQueueProofs` | – | theorems about `JobQueue`: types, leases, counters |
| `BatchProofs` | – | theorems about the life of a batch, what `Settlement` builds on, and the refinement |
| `Settlement` | the books of one batch that has reached `settling` | starts from every outcome the queue can leave |
| `MCSettlement` | – | prices |
| `SettlementProofs` | – | theorems about `Settlement` |
| `Admission` | the user's balance, several batches' holds, idempotency keys | starts from an empty account |
| `MCAdmission` | – | instance |
| `AdmissionProofs` | – | theorems about `Admission` |
| `SumLemmas` | – | sums over finite sets, for the two modules that add up money |
| `QuotaRequests`, `MCQuotaRequests` | quota requests | any number of requests, users, administrators |
| `QuotaProofs` | – | theorems about `QuotaRequests` |
| `Upscale`, `MCUpscale` | the upscale queue | one process at a time |
| `UpscaleProofs` | – | theorems about `Upscale` |
| `Images`, `MCImages` | assets, variants, results, and the cleanup | batches reduced to what the cleanup sees of them |
| `ImagesProofs` | – | theorems about `Images` |

**How code becomes actions.** One action is one SQL statement, or one transaction
whose rows are locked throughout, together with the in-memory steps up to the next
statement. What a handler reads in one statement and uses in a later one is a
variable: the worker's claim (`witem`, `wattempt`), the submission's copy of
`job.Status` (`known`), the settlement loop's target status (`target`) or bills
(`seen`), the balance and holds an admission has read (`funds`, `held`). In
`Admission` the statements of the one transaction are separate steps, because charges
and hold decrements by others fall between them.

**Time** is what guards ask of it: a lease is expired or not, a heartbeat older than
ten minutes or not, a batch has been settling for over 30 or 60 minutes, a key is older
than 24 hours. A lease or heartbeat that somebody is looking after goes stale only as a
*disruption*; one nobody looks after does so by itself.

**Failures.** `MaxDisruptions` bounds failing statements, missed renewals, shutdowns
and kills together; `MaxSubmitFaults` and `MaxFaults` bound failing statements of a
submission. A failing UPDATE of `startJob` may or may not have been committed.

**State of `JobQueue`.** `status`, `finished`, `settled`, `stopRequested`, `staleBeat`,
`count`, `hold` are columns of the job and hold rows; `istatus`, `owner`, `attempt`,
`expired` those of the item rows; `wpc`, `witem`, `wattempt` a worker's place in
`handleItem`; `submit`, `known`, `stop` requests in progress; `target` the settlement
loop; `called` the billing ids that have gone to the gateway. The three parts of
`ReapStaleJobs` are one action with three parameters, as they are one transaction:
`SKIP LOCKED` and `LIMIT` make each of them work on any subset of the qualifying rows.

**The promise.** `BatchLedger` knows four columns of a batch: its phase, its outcome, whether
credit is frozen, and which images are delivered. A batch is open, settles, and is over; only
an open batch gains or loses images; the outcome fits what was delivered, and the credit is
given back in the step that ends the batch. Its single short cut, `GiveUp`, is the reaper's.
`LedgerRefinement!View` computes these columns from the rows of `JobQueue`. A batch whose
submission reported failure maps to `Forsaken`, of which nothing is promised: what the code
says of it is what the run `abandon` refutes.

**`QuotaRequests`.** The row is marked before the balance is credited, and put back if
crediting fails. Every statement may fail before or after it took effect, so three counters
keep the book of what nobody in the program can know: `late` (credits that took effect and
were reported as failed), `putBack` (the same for reopenings) and `cut` (approvals whose mark
was committed and that were then cut off). The properties are equations in these counters:
they say that *nothing else* pays twice or not at all. A request that is open with `late`
above zero is already paid, and approving it again, as the answer asks, pays it twice; that is
one of the findings below.

**`Admission`.** `budget` is what the gateway may still charge for a batch. Nothing takes it
away when the batch is settled or reaped: the gateway debits some time after it has answered
(`openai_images.go:389`, `settlement.go:16-18`), and a worker that lost its lease may still
call. Such a charge meets no hold and is counted in `stray`, like those of an abandoned
submission.

**`Upscale`.** Each statement of `Enqueue` is a step under the mutex `mu`; the worker takes
the rows `recoverPending` listed (`rec`) before it receives from the channel (`queue`). A
process that ends forgets channel, mutex and requests and leaves the rows. `dirty` says that
a statement of the current process failed, in which case the code leaves its task to the next
restart on purpose; `beyond` are the rows that the recovery did not list because of its limit,
which wait for the next restart too.

**`Images`.** A round of the cleanup is `listing`, `keys` (assets only), `deleting` (one step
per image: its variants, then its original) and the UPDATE that marks the rows. `Stuck` are
files that can never be deleted. An abandoned batch is `forsaken`: over for the cleanup, and
still in the queue for the workers (run `abandon`). A worker may fail before anything is stored
(`GiveUp`), after a part of the answer was stored (`StoreImagesFails`, as `storeImages` gives up
at the first image it cannot store), or find its lease gone when it writes back (`LeaseLost`).
`excused` collects the images that were already listed, or already without a file, when a batch
was inserted or the owner deleted them, and those whose INSERT lost its answer; `strays` and
`vstrays` collect, for originals and results and apart from them for variants, files that lost
the row or the key that would lead to them. All three are only written in the steps that the
text below names as windows, and a variant leaves `vstrays` when a later round lists its key.

**External.** The gateway (`InvokeGateway`, `GatewayReturns`, `Charge`), the writer of
`usage_logs` and initial states are modelled from how the code uses them.

## 3. Runs

Passing runs (bounds in brackets):

- `batch` [one batch, two images, two workers, two attempts, one disruption; images
  and workers symmetric]. Two images are the least at which "the last image" is not
  "the only image", which finalize, stop and the terminal status are about; two workers
  let both believe they landed it. Invariants: counters, hold, quietness, settled
  status, no dead pending image; action property `TerminalIsForever`.
- `lease` [one image, two workers, two disruptions, two submission faults]. Two
  disruptions are: lose a lease, and crash, lose it again or fail a write-back.
  Invariants: `GuardImpliesLatestAttempt`, `FreshBillingId`, `CallsWithinBudget`; and
  `KeepsItsPromise`, that `JobQueue` implements `BatchLedger`. One image is enough for the
  latter here, as it is proved for any number.
- `live` [one image, one worker, two disruptions, two submission faults, full fairness, no
  symmetry]. `EveryBatchEnds`. Two faults are what it takes to make `abandonJob` fail the batch
  after it could not release its hold; that hold is the one exception the property makes.
- `settle` [two images with two attempts each, prices that exceed estimate and hold,
  two rounds of waiting, two disruptions, every initial outcome]. Books, alerts,
  closing, against the reaper; liveness `EveryBatchCloses`.
- `admission` [two submissions with one key, two retries, a balance of two images, two
  faults]. `NeverOverdrawn`, `OneBatchPerKey`, `HoldIffUnfinished`. Two images'
  worth of balance is what four requests compete for, so that both acceptance and refusal
  happen in either order. Charges may come in every state of the batch, also after it was
  settled; two faults fail a submission and one of the statements that clean up after it.
- `quota` [three requests, two of one user, two administrators, four disruptions;
  administrators symmetric]. `NeverPaidTwice`, `HandledIsPaidOrReported`, `OpenPaidOnlyByLostAnswers`,
  `OnePendingPerUser`. Two requests of one user are what a compensation can collide with;
  four disruptions are two approvals that fail twice each.
- `upscale` [two images, two requests, three tasks, a channel of one, three disruptions, no
  symmetry]. A channel of one is full after one request, with a second one waiting for the
  mutex; three tasks are two of one image and one in between; a recovery limit of one is
  exceeded when both images have an unfinished row at a restart. Safety and the liveness
  property `TasksEnd`.
- `images` [two assets of which one is there from the start and cannot be deleted, one
  batch whose result image cannot be deleted, pages of one row, three disruptions]. Pages of
  one row and an undeletable file in each table: a page that makes progress and a full page
  that does not, and so ends the loop before the asset behind it, both happen.
  Three disruptions are a round that fails between files and rows, a crash, and one more. The
  same instance with pages of two rows, where deletable and undeletable rows share a page,
  passes too, in about twice the time (set `BatchLimit = 2` and `Stuck = {1}`).
  `BusyKeepsOriginals`, `NoOrphanFiles`, `RowsHaveFiles`, liveness `ExpiredGoesAway`.

Deadlock is not checked in any of them: submissions, disruptions and attempts are
bounded and users need not act, so that a run really may stop.

Runs that show a disagreement between code and its own documentation:

- `abandon`. After `abandonJob` the user reads "这一批没有开始出图，冻结的额度已经退回",
  but the images stay `pending` and the claim query does not look at the batch: they are
  generated and charged, without a hold and without a settlement. The reaper stops images
  in the same situation, and its comment says why.
- `doubleretry`. A comment says that a double click on retry is stopped by
  `CanTransitionItem(pending → pending)`. If a worker has claimed the image in between,
  the transition is running → pending, which is allowed: the image is taken away from
  its worker, a second price is frozen and the image generated twice.
- `sumofbilled`. A booking that fails is logged but still counted, and the batch is
  closed: `actual_cost = SUM(billed_cost)` does not hold then.
- `noworker`. Part (3) of the reaper is there, its comment says, for the case
  that the worker pool was never started; the reaper is a goroutine of that pool.

Passing runs that contradict a comment or a message (findings in `PROJECT.json`):

- `batch`. `status.go:118-120`, 146-147 and 162-166 say that terminal statuses are not
  permanent, as a retry pulls `succeeded` and `partially_failed` back to `running`.
  `TerminalIsForever` holds: the branch of `updateJobForRetry` behind it (`job_repo.go:881-901`)
  is dead code, since both statuses are only written together with `settled_at`.
- `live`. If `abandonJob` fails to release the hold and succeeds in failing the batch, the hold
  stays open: no reaper query sees that batch again, although `job_create.go:181` and 191 count
  on the reaper (197 knows better).
- `quota`. `UpdateUserBalance` adds the money and may then fail to read the user back
  (`admin_user.go:531`). The request is reopened although it was paid, with the answer
  "余额没加上，这条申请还在待处理里，重试一次。" (`module.go:1938`); the next approval pays again.
- `images`. The cleanup's comment wants no orphan files (`cleanup.go:291-292`). A variant that a
  worker, late for a batch that is over, records after the keys were listed is one.

Seen while modelling, without a run of their own:

- `job_create.go:128-131` says that a batch in `created` is never touched by the queue
  nor by the reaper. Both touch it.
- An alert "must" exist for a forced settlement (`settlement.go:540-545`); it is lost if
  the INSERT fails, the process ends after `SettleJob`, or the reaper closes the batch.
- `CanTransitionItem`'s comment says that zombie recovery re-claims or requeues running
  images and never fails them; `stopUnfinishedItems` fails them.
- A retry in a batch with a stop request always ends in `CANCELED`, and a cancelled
  image can be retried and stopped without end, as it spends no attempt.
- A retry may re-open the hold of a batch that is just being abandoned.
- Batches the reaper fails are never settled: their bills are in no `actual_cost`.
- If `abandonJob` fails to clear the idempotency key, a resubmission from the same page is
  answered with the failed batch for 24 hours (`job_create.go:208-210` warns of it).
- A bill that arrives after its batch was settled is in no `actual_cost` and met no hold.
- A crash between mark and credit leaves a handled quota request unpaid.
- A quota amount below half of the smallest unit is rounded to zero by the column.
- Files are left without a row, and no round ever finds them, also by a variant whose row could
  not be written, since `preprocess` only logs that; by `storeImages` when it can store only the
  first of several images; and by a result whose write-back failed or came too late.
- An asset older than the retention that is uploaded again is answered with its old row, and
  swept the same night unless a batch uses it by then. A batch planned while its asset is
  being swept finds no original (`ErrCodeAssetNotFound`).
- Deleting an asset does not look for unfinished batches: their images fail unless the variant
  is there already, although `asset_repo.go:132` says that batches can still refer to it.
- A full page of undeletable files (500 by default) stops a loop before it reaches later rows,
  every night; `Blocked` is the exception `ExpiredGoesAway` makes for it.
- An INSERT of an asset that took effect and lost its answer leaves a row without a file.
- After a restart only the first 100 queued upscale tasks are recovered; the others wait for the
  next restart, and a new request for one of their images is answered with the waiting row.

## 4. Fairness

`JobQueue!Fairness` is weak fairness of what a ticker or a sequential program drives:
every step of a worker and its claiming (`runItemWorker` polls), the steps of an accepted
request, the settlement loop, heartbeat and reaper; lease and heartbeat clocks that
nobody resets; the end of a shutdown's grace period; and the restart of an ended process,
which deployment does (`restart: unless-stopped`) rather than the code. Nothing is assumed
about users, renewals winning races, or disruptions. `EveryBatchEnds` additionally
assumes that retries stop some day (`UserRelents`), because of the endless stop-retry loop
noted above; without it the property is false. Its other exception, the hold that `abandonJob`
could not release, is `KilledByAbandon`: the batch failed by `abandonJob` itself.

`Upscale!Fairness` is weak fairness of the worker goroutine, of accepted requests and of
starting a process that ended. `TasksEnd` is claimed for tasks of processes in which no
statement failed and that the recovery did not leave beyond its limit, as the code leaves the
others to the next restart.

`Images!Fairness` is weak fairness of the cleanup's own steps: a timer starts a round every
night and a round that started goes on. Workers, users and deletions that fail every time get
none. `ExpiredGoesAway` needs the switch to stay on, and no full page of undeletable rows
before the image.

`Settlement!Fairness` is weak fairness of the clock, the loop and the reaper.
`EveryBatchCloses` holds if a pool is eventually up for good; it does not assume that
bills arrive.

## 5. Proofs

Every theorem about the queue holds for all finite sets of images, all sets of batches and workers, any
number of attempts and all bounds, from the named assumptions of `JobQueue` alone
(`ItemsAssumption`, `JobOfAssumption`, `WorkersAssumption`, `MaxAttemptsAssumption`,
`BoundsAssumption`).

- `JobQueueProofs`: `TypeCorrect`. One lemma per group of variables; counters need
  `GREATEST(n - 1, 0)`.
  Then the leases: `GuardIsEnough`, `BillingIdsFresh`, `CallsBounded`, `NoImageStranded`.
  None is inductive. `LeaseInv` adds that a claim carries a number the row has reached
  and stays in the budget while generating (`ClaimsNumbered`), that two workers on one image
  hold different numbers (`ClaimsDistinct`, which is why the number must grow at the claim),
  and that images are born with their batch (`RowsBornTogether`). All actions but the
  claim only shrink what workers and rows can do (`WorkersShrink`, `RowsShrink`), so the
  proof has one real case.
  Last the counters: `CountersNeverDrift`. Each counter is the cardinality of a set of rows;
  every step moves a set of rows from one status to another, and cardinalities of disjoint
  unions do the rest. It rests on `LeaseInv` for the freshness of rows.
- `BatchProofs`: `LifecycleInvariant` and its projections `FinishedQuiet`, `HoldsExact`,
  `SettledExact`, and `TerminalForever`. `BatchInv` is, per batch: settled batches are
  terminal and the settlement loop only works on settling or settled ones
  (`SettlementInv`); the hold (`HoldInv`); no image under way once ended (`QuietInv`); and
  the status computed earlier is still the one due (`StatusInv`). The last needs the
  observation that cancelled images exist only after a stop request, so that a late stop,
  which finds nothing to cancel, cannot change the status. "All images have landed" is
  derived from the counters through `ThreeGroups`: three disjoint groups that add up to the
  batch are the batch.

  `Settlement` starts where `JobQueue` stops, and takes three things for granted. They are
  proved of `JobQueue`: calls use ids of attempts 1..`attempt_count` (`CallsBounded`); a
  delivered image was called for under its latest id, the one settlement waits for
  (`DeliveriesWereCalled`: a worker with a result has made its call, and the write-back guard
  admits the latest attempt only); and while a batch settles nothing moves its image rows
  (`SettlingRowsFrozen`, from `QuietInv`). A worker that lost its lease may still make its call
  then; that is a charge `Settlement` allows to appear at any time.

  `QueueKeepsItsPromise` is the refinement. Initial states map to `Unborn`; a
  step is taken apart per batch into "nothing visible", or one of the promised moves. The
  moves follow from `BatchInv`: that a settling batch has no image under way makes `Settling`
  keep its images, `StatusInv` makes the status written by settlement one that `Fits` (through
  the counters, as `TerminalJobStatus` computes from them), `HoldInv` makes frozen and phase
  agree at both ends of every step. Abandoned batches stay abandoned.
- `QuotaProofs`: `QuotaTypeCorrect`, `NoDoublePayment`, `EveryRequestAccountedFor`,
  `OpenRequestsExplained`, `OneOpenRequest`, from
  `UserAssumption`, `NoRequestAssumption` and `BoundAssumption`. The inductive invariant is an
  equation per request between payments, `late` and `putBack` for each situation it can be in,
  and that two calls are never about the same request, which holds because only a pending row
  can be approved and the approval takes it out of that status.
- `UpscaleProofs`: `OneTaskPerImage`, `NoBlockedSend`, `UpscaledOnce`, `NoTaskLost`, `InOrder`,
  for every set of images and requests, every capacity and recovery limit, from
  `CapsAssumption`, `BoundsAssumption` and `NullAssumption`. The mutex serialises the look-up,
  the INSERT and the send, so the room judged before the INSERT is still there at the send
  (`RoomKept`); an unfinished row is the latest of its image (`OnlyLatestLive`), so the look-up
  of the latest row is enough for the one before the INSERT to be finished (`FreeToInsert`).
  The channel holds rising ids, and an id about to be sent is larger than all of them
  (`QueueOrdered`, `SendsLast`); nothing unfinished is older than a recovered row but other
  recovered rows and the one at work (`RecoveredFirst`). A running row is the one in the
  worker's hands, unless a failing statement left it behind (`RunningOwned`). Rows in `beyond`
  are excepted from what is said of order and sight, and from nothing else.
- `ImagesProofs`: `OriginalsKept`, `RowsKeepFiles`, `OrphansExplained`, for every set of images,
  batches and undeletable files and every page size, from the assumptions of `Images`.
  `Linked` says that files come before rows and rows before what names them. `Sheltered` adds
  that a listed image which its owner deletes or a new batch uses is excused at once: the
  listing excludes images of unfinished batches, so one that has become needed since must have
  met the round halfway. `Traced` follows the round: what it has deleted is out of the store,
  and a variant it leaves behind in `deleting` is one whose key it had, or one whose row a
  worker has yet to write. This is where the order keys, files, rows is needed.

- `SumLemmas`: what a sum over a finite set does when an element or a disjoint set is added,
  a value changed or bounded. `SumFunctionOnSet` of the community module `Functions` is a
  recursive function over subsets; the lemmas show that its table exists and is unique, by
  induction over the cardinality. The induction is phrased with a *set* of numbers
  (`SetOfNumbers`: a set with 0 and all successors is everything), because the library's
  induction theorems take an operator, which the installed provers cannot instantiate.
- `SettlementProofs`: `SettlementTypeCorrect`, `HoldFollowsBookings`, `DeliveryIsPaidFor`,
  `NoOvercharge`, `OneAlert`, `EveryBillCounted`, `ClosedForGood`, for every finite set of images,
  every number of attempts and all prices, from `SettlementAssumption`. The inductive invariant
  says that bills are real (`BillsAreReal`); that no image is booked with more than its logged
  bills, which makes the reaper's `SUM(billed_cost)` safe (`BookedIsLogged`); and that within a
  round the running total is the sum of the bills of the images done so far, and what earlier
  rounds booked is among the bills of this one (`RoundIsExact`). The total is stated over a set
  of bills and not as a sum of sums, so that a booking adds one disjoint set of bills to it.
  `ClosedHasNoHold` makes `decrementHoldSQL` of a late round miss; `AlertOnceClosed` counts
  alerts together with the place where the next one is written. `IronLawUpToSign` is what
  remains of the iron law that `sumofbilled` refutes: a batch the loop closed never costs less
  than is booked on its images, one the reaper closed never more.
- `AdmissionProofs`: `AdmissionTypeCorrect`, `NoOverdraft`, `OneBatchForKey`, `HoldMatchesBatch`,
  `DecisionsAreSound`, for any submissions, retries, keys, prices and deposit, from
  `RequestsAssumption`, `PriceAssumption` and `AmountsAssumption`. One request at a time is inside
  its transaction (`OneInTx`). The decision is made on two values read earlier: the balance,
  which nobody can change under the row lock (`FundsStand`), and the sum of holds, which others
  decrement and release without waiting for the lock. That is harmless because what was read
  still covers what may be charged against holds (`HeldStands`): every open hold of a submission
  that was not abandoned covers its own batch's charges (`HoldsCover`), and a hold shrinks only
  with a booked charge or at the end of its batch; what is charged after that is stray. With
  `Covered` (balance plus stray charges is at least what may still be charged), an admission
  that finds `funds - held` large enough keeps it so. `KeysHold` says that a submission
  that found no batch of its key is alone with the key until it commits. `HoldIffUnfinished` is
  inductive once the batch of a retry inside its transaction is known to be live, which the row
  lock on the batch guarantees: settlement and reaper have to wait for it.

`UpscaleTypeCorrect` and `ImagesTypeCorrect` are the first conjuncts of the inductive invariants
of their modules. With these, every invariant and every action property that a passing run
checks is also proved, without the bounds of the run.

Only model-checked: the liveness properties `EveryBatchEnds`, `EveryBatchCloses`, `TasksEnd` and
`ExpiredGoesAway`, and with them everything about fairness and ENABLED, which is out of the
prover's reach; and the violations, which are counterexamples.

## 6. Not modelled, and the plan

Image bytes, prompts, ratios, price tables, planning of a batch, soft deletion, HTTP
parsing and authorisation, callbacks and storage are data or I/O that no guard above
depends on. `Settlement` has one pool; `Charge` in `Admission` never exceeds the estimates
(overruns are what settlement's alerts are for), so `NeverOverdrawn` is about admission and
not about prices. Charges that meet no hold are excepted from it by construction of `stray`:
the code cannot refuse a debit that the gateway makes on its own.

Not modelled, with the reason: `EnsureVariant` has no caller outside tests; storage back ends,
format probing and the upscaler are I/O; chat and prompt suggestions store answers nothing
depends on; ratio and money arithmetic is pure and tabulated by unit tests; handlers parse and
authorise; the internal API key is found or created under a per-user lock, in a table of the
upstream gateway. The upstream gateway itself (most of the repository's lines, a good part of
them generated) is environment: DesignKit calls it and reads its `usage_logs` and `users`.

What the plan has left, in this order:

1. `InspirationSync`: the session advisory lock, run records that stay `running`, catch-up at
   start.
2. `LockOrder`: the row locks of write-back (item, job) against retry and reaper (job,
   item); `job_repo.go:809` says the order is fixed. A deadlock fails one of the two
   transactions, which `JobQueue` has as an outcome.
3. Settlement by two replicas: `newWorker`'s comment warns that the hold would be
   decremented twice, while `ApplyItemBilling` locks the row and applies a difference.
