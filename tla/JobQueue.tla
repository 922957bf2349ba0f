------------------------------ MODULE JobQueue ------------------------------
(***************************************************************************)
(* The core of DesignKit: batches (jobs) of images (items) that a pool of  *)
(* workers claims from PostgreSQL with leases, sends to the image gateway  *)
(* and writes back; the HTTP operations that submit, stop and retry; the   *)
(* heartbeat, the reaper and the settlement loop; and the process that     *)
(* runs all of them, which may be stopped, killed and restarted at any     *)
(* point between two database statements.                                  *)
(*                                                                         *)
(* One action is one database statement or transaction together with the   *)
(* in-memory steps around it.  Timestamps are abstracted to what the       *)
(* guards ask of them: whether a lease has expired, whether a heartbeat is *)
(* older than ten minutes, whether a column is NULL.  The price of an      *)
(* image is modelled in Settlement; here a hold is open or released.       *)
(***************************************************************************)
EXTENDS JobStatus, FiniteSets

CONSTANTS
    Jobs,             \* batches that may be submitted
    Items,            \* images of all batches
    JobOf,            \* designkit_job_items.job_id
    Workers,          \* item workers of the pool
    MaxAttempts,      \* designkit_job_items.max_attempts
    MaxDisruptions,   \* bound: database errors, missed renewals, shutdowns and crashes
    MaxSubmitFaults,  \* bound: database errors inside one submission
    NoItem, NoWorker  \* NULL

ASSUME ItemsAssumption == IsFiniteSet(Items) /\ NoItem \notin Items
ASSUME JobOfAssumption == JobOf \in [Items -> Jobs]
ASSUME WorkersAssumption == NoWorker \notin Workers
ASSUME MaxAttemptsAssumption == MaxAttempts \in Nat \ {0}
ASSUME BoundsAssumption == MaxDisruptions \in Nat /\ MaxSubmitFaults \in Nat

VARIABLES
    \* designkit_jobs and designkit_holds
    status,       \* status, "none" before the row exists
    finished,     \* batches with finished_at set
    settled,      \* batches with settled_at set
    stopRequested,\* batches with cancel_requested_at set
    staleBeat,    \* batches whose heartbeat_at is older than StaleAfter
    count,        \* success_count, fail_count, cancelled_count by item status
    hold,         \* designkit_holds.status, "none" before the row exists
    \* designkit_job_items
    istatus,      \* status, "none" before the row exists
    owner,        \* worker_id
    attempt,      \* attempt_count
    expired,      \* images whose lease_expires_at has passed
    \* the pool of one process
    wpc,          \* where the worker is in handleItem
    witem,        \* the claimed image
    wattempt,     \* the attempt number the worker claimed it with
    pool,         \* "up", "stopping" (Stop was called) or "down"
    \* HTTP requests in progress
    submit,       \* CreateJob / startJob / abandonJob
    known,        \* the in-memory job.Status of that submission
    stop,         \* StopJob
    \* the settlement loop
    target,       \* terminal status computed from the row it read, "none" if idle
    \* the image gateway and the environment
    called,       \* <<image, attempt>> pairs sent to the gateway, billed under that id
    disruptions, faults

jobVars     == <<status, finished, settled, stopRequested, staleBeat, count, hold>>
itemVars    == <<istatus, owner, attempt, expired>>
workerVars  == <<wpc, witem, wattempt>>
requestVars == <<submit, known, stop>>
envVars     == <<called, disruptions, faults>>
vars == <<jobVars, itemVars, workerVars, pool, requestVars, target, envVars>>

-----------------------------------------------------------------------------
(* Helpers                                                                 *)

ItemsOf(j) == {i \in Items : JobOf[i] = j}

\* item_count, written once when the batch is inserted.
ItemCount(j) == Cardinality(ItemsOf(j))

ZeroCount == [s \in ItemTerminal |-> 0]

Landed(j) == count[j]["succeeded"] + count[j]["failed"] + count[j]["cancelled"]

\* The guard completeItemGuardSuffix: id, worker_id and status = 'running'.
Owns(w) == istatus[witem[w]] = "running" /\ owner[witem[w]] = w

\* The phases of handleItem in which the renewal goroutine is running.
Generating == {"claimed", "starting", "preparing", "calling"}

\* The phases in which a result waits to be written back.
Writing == {"success", "retry", "final"}

WorkerJob(w) == JobOf[witem[w]]

\* Jobs the heartbeat refreshes: those in flight and those with unfinished images.
InFlight == {WorkerJob(w) : w \in {v \in Workers : wpc[v] # "idle" /\ wattempt[v] <= MaxAttempts}}
ActiveJobIDs == {JobOf[i] : i \in {k \in Items : istatus[k] \in {"pending", "running"}}}

Disrupt == disruptions < MaxDisruptions /\ disruptions' = disruptions + 1
SubmitFault == faults < MaxSubmitFaults /\ faults' = faults + 1

\* The submission failed half way and took the abandonJob path.
Abandoned(j) == submit[j] \in {"releasing", "killing", "abandoned"}

-----------------------------------------------------------------------------
Init ==
    /\ status = [j \in Jobs |-> "none"]
    /\ finished = {} /\ settled = {} /\ stopRequested = {} /\ staleBeat = {}
    /\ count = [j \in Jobs |-> ZeroCount]
    /\ hold = [j \in Jobs |-> "none"]
    /\ istatus = [i \in Items |-> "none"]
    /\ owner = [i \in Items |-> NoWorker]
    /\ attempt = [i \in Items |-> 0]
    /\ expired = {}
    /\ wpc = [w \in Workers |-> "idle"]
    /\ witem = [w \in Workers |-> NoItem]
    /\ wattempt = [w \in Workers |-> 0]
    /\ pool = "up"
    /\ submit = [j \in Jobs |-> "none"]
    /\ known = [j \in Jobs |-> "created"]
    /\ stop = [j \in Jobs |-> "none"]
    /\ target = [j \in Jobs |-> "none"]
    /\ called = {} /\ disruptions = 0 /\ faults = 0

-----------------------------------------------------------------------------
(* Submission: CreateJobWithItemsAndHold, then startJob, or abandonJob     *)

CreateJob(j) ==
    /\ pool # "down"
    /\ status[j] = "none" /\ ItemsOf(j) # {}
    /\ status' = [status EXCEPT ![j] = "created"]
    /\ istatus' = [i \in Items |-> IF JobOf[i] = j THEN "pending" ELSE istatus[i]]
    /\ hold' = [hold EXCEPT ![j] = "open"]
    /\ submit' = [submit EXCEPT ![j] = "starting"]
    /\ UNCHANGED <<finished, settled, stopRequested, staleBeat, count, owner, attempt,
                   expired, workerVars, pool, known, stop, target, envVars>>

NextStatus(s) == IF s = "created" THEN "holding" ELSE "running"

\* UpdateJobStatus(known -> next) took effect.
Promote(j) ==
    /\ status[j] = known[j]
    /\ CanTransition(known[j], NextStatus(known[j]))
    /\ status' = [status EXCEPT ![j] = NextStatus(known[j])]
    /\ staleBeat' = staleBeat \ {j}

\* One step of startJob; a guard that misses means somebody else moved the batch.
StartJob(j) ==
    /\ submit[j] = "starting"
    /\ \/ /\ Promote(j)
          /\ known' = [known EXCEPT ![j] = NextStatus(known[j])]
          /\ submit' = [submit EXCEPT ![j] = IF known[j] = "created" THEN "starting" ELSE "done"]
       \/ /\ status[j] # known[j]
          /\ submit' = [submit EXCEPT ![j] = "done"]
          /\ UNCHANGED <<status, staleBeat, known>>
    /\ UNCHANGED <<finished, settled, stopRequested, count, hold, itemVars, workerVars,
                   pool, stop, target, envVars>>

\* UpdateJobStatus reports an error; the UPDATE may have been committed all the same.
StartJobFails(j) ==
    /\ submit[j] = "starting"
    /\ SubmitFault
    /\ Promote(j) \/ UNCHANGED <<status, staleBeat>>
    /\ submit' = [submit EXCEPT ![j] = "releasing"]
    /\ UNCHANGED <<finished, settled, stopRequested, count, hold, itemVars, workerVars,
                   pool, known, stop, target, called, disruptions>>

\* Mutant: the UPDATE of the hold is left out.
ReleaseHoldForgotten(j) == hold' = hold

ReleaseHold(j) == hold' = [hold EXCEPT ![j] = IF @ = "open" THEN "released" ELSE @]

\* First half of abandonJob; a failing ReleaseHold is only logged.
AbandonRelease(j) ==
    /\ submit[j] = "releasing"
    /\ \/ ReleaseHold(j) /\ UNCHANGED faults
       \/ SubmitFault /\ UNCHANGED hold
    /\ submit' = [submit EXCEPT ![j] = "killing"]
    /\ UNCHANGED <<status, finished, settled, stopRequested, staleBeat, count, itemVars,
                   workerVars, pool, known, stop, target, called, disruptions>>

\* Second half: UpdateJobStatus(known -> failed); its failure is only logged too.  (The key
\* that is cleared in between is in Admission.)
AbandonKill(j) ==
    /\ submit[j] = "killing"
    /\ \/ /\ status[j] = known[j]
          /\ status' = [status EXCEPT ![j] = "failed"]
          /\ staleBeat' = staleBeat \ {j}
          /\ UNCHANGED faults
       \/ /\ status[j] # known[j]
          /\ UNCHANGED <<status, staleBeat, faults>>
       \/ SubmitFault /\ UNCHANGED <<status, staleBeat>>
    /\ submit' = [submit EXCEPT ![j] = "abandoned"]
    /\ UNCHANGED <<finished, settled, stopRequested, count, hold, itemVars, workerVars,
                   pool, known, stop, target, called, disruptions>>

-----------------------------------------------------------------------------
(* The item worker: runItemWorker and handleItem                           *)

\* Mutant: the attempt guard on both branches of the WHERE clause.
ClaimableWithinBudget(i) ==
    /\ istatus[i] = "pending" \/ (istatus[i] = "running" /\ i \in expired)
    /\ attempt[i] < MaxAttempts

\* The WHERE clause of buildClaimItemSQL; the status of the batch plays no part in it.
Claimable(i) ==
    \/ istatus[i] = "pending" /\ attempt[i] < MaxAttempts
    \/ istatus[i] = "running" /\ i \in expired

\* Mutant: a zombie is reclaimed under the attempt number of its first owner.
NextAttemptOfPendingOnly(i) == IF istatus[i] = "pending" THEN attempt[i] + 1 ELSE attempt[i]

\* attempt_count + 1, at the claim and not at the success.
NextAttempt(i) == attempt[i] + 1

\* Mutant: COALESCE(worker_id, $1).
FirstOwner(w, i) == IF owner[i] = NoWorker THEN w ELSE owner[i]

\* worker_id is overwritten, also on a row that another worker let expire.
NewOwner(w, i) == w

\* Mutant: the check at the head of handleItem is missing.
NeverExceeded(n) == FALSE

attemptBudgetExceeded(n) == n > MaxAttempts

\* ORDER BY job_id, seq is a preference only: SKIP LOCKED passes over locked rows.
\* An image claimed beyond its budget goes straight to failExhaustedItem.
ClaimNextItem(w, i) ==
    /\ pool = "up"
    /\ wpc[w] = "idle"
    /\ Claimable(i)
    /\ istatus' = [istatus EXCEPT ![i] = "running"]
    /\ owner' = [owner EXCEPT ![i] = NewOwner(w, i)]
    /\ attempt' = [attempt EXCEPT ![i] = NextAttempt(i)]
    /\ expired' = expired \ {i}
    /\ wpc' = [wpc EXCEPT ![w] = IF attemptBudgetExceeded(NextAttempt(i)) THEN "final" ELSE "claimed"]
    /\ witem' = [witem EXCEPT ![w] = i]
    /\ wattempt' = [wattempt EXCEPT ![w] = NextAttempt(i)]
    /\ UNCHANGED <<jobVars, pool, requestVars, target, envVars>>

Move(w, pc) == wpc' = [wpc EXCEPT ![w] = pc] /\ UNCHANGED <<witem, wattempt>>

\* handleItem returns and the worker goes back to claiming.
Done(w) ==
    /\ wpc' = [wpc EXCEPT ![w] = "idle"]
    /\ witem' = [witem EXCEPT ![w] = NoItem]
    /\ wattempt' = [wattempt EXCEPT ![w] = 0]

\* touchHeartbeat, GetJobByID and the two checks on the row at the head of processItem.
LoadJob(w) ==
    /\ wpc[w] = "claimed"
    /\ staleBeat' = staleBeat \ {WorkerJob(w)}
    /\ Move(w, IF WorkerJob(w) \in stopRequested THEN "final"
               ELSE IF status[WorkerJob(w)] = "holding" THEN "starting" ELSE "preparing")
    /\ UNCHANGED <<status, finished, settled, stopRequested, count, hold, itemVars, pool,
                   requestVars, target, envVars>>

\* GetJobByID fails: a retryable internal error.
LoadJobFails(w) ==
    /\ wpc[w] = "claimed"
    /\ Disrupt
    /\ Move(w, "retry")
    /\ UNCHANGED <<jobVars, itemVars, pool, requestVars, target, called, faults>>

\* UpdateJobStatus(holding -> running); a miss or an error is ignored.
MarkRunning(w) ==
    /\ wpc[w] = "starting"
    /\ \/ /\ status[WorkerJob(w)] = "holding"
          /\ status' = [status EXCEPT ![WorkerJob(w)] = "running"]
          /\ staleBeat' = staleBeat \ {WorkerJob(w)}
          /\ UNCHANGED disruptions
       \/ /\ status[WorkerJob(w)] # "holding"
          /\ UNCHANGED <<status, staleBeat, disruptions>>
       \/ Disrupt /\ UNCHANGED <<status, staleBeat>>
    /\ Move(w, "preparing")
    /\ UNCHANGED <<finished, settled, stopRequested, count, hold, itemVars, pool,
                   requestVars, target, called, faults>>

\* resolveImage fails, for good or not.
PrepareFails(w) ==
    /\ wpc[w] = "preparing"
    /\ \E pc \in {"retry", "final"} : Move(w, pc)
    /\ UNCHANGED <<jobVars, itemVars, pool, requestVars, target, envVars>>

\* Gateway.Generate goes out under the id (job uid, seq, attempt): money is spent.
InvokeGateway(w) ==
    /\ wpc[w] = "preparing"
    /\ called' = called \cup {<<witem[w], wattempt[w]>>}
    /\ Move(w, "calling")
    /\ UNCHANGED <<jobVars, itemVars, pool, requestVars, target, disruptions, faults>>

\* Images stored; a retryable error; or a final one (timeout, no image, storage).
GatewayReturns(w) ==
    /\ wpc[w] = "calling"
    /\ \E pc \in Writing : Move(w, pc)
    /\ UNCHANGED <<jobVars, itemVars, pool, requestVars, target, envVars>>

\* Stop cancelled the item's context: handleItem takes the releaseLease branch, which
\* writes the same as a retryable failure (terminal if no attempt is left).
ShutdownCancels(w) ==
    /\ pool = "stopping"
    /\ wpc[w] \in Generating
    /\ Move(w, "retry")
    /\ UNCHANGED <<jobVars, itemVars, pool, requestVars, target, envVars>>

\* The renewal tick: prolongs the lease, or learns that it is lost and drops the work.
RenewItemLease(w) ==
    /\ wpc[w] \in Generating
    /\ pool = "up"
    /\ \/ /\ Owns(w)
          /\ witem[w] \in expired
          /\ expired' = expired \ {witem[w]}
          /\ UNCHANGED workerVars
       \/ /\ ~Owns(w)
          /\ Done(w)
          /\ UNCHANGED expired
    /\ UNCHANGED <<jobVars, istatus, owner, attempt, pool, requestVars, target, envVars>>

\* CompleteItemSuccess: item and counter in one transaction; worker_id is kept.
CompleteItemSuccess(w) ==
    /\ istatus' = [istatus EXCEPT ![witem[w]] = "succeeded"]
    /\ expired' = expired \ {witem[w]}
    /\ count' = [count EXCEPT ![WorkerJob(w)]["succeeded"] = @ + 1]
    /\ staleBeat' = staleBeat \ {WorkerJob(w)}
    /\ UNCHANGED owner

\* CompleteItemFailure with Terminal = true.
FailItem(w) ==
    /\ istatus' = [istatus EXCEPT ![witem[w]] = "failed"]
    /\ owner' = [owner EXCEPT ![witem[w]] = NoWorker]
    /\ expired' = expired \ {witem[w]}
    /\ count' = [count EXCEPT ![WorkerJob(w)]["failed"] = @ + 1]
    /\ staleBeat' = staleBeat \ {WorkerJob(w)}

\* CompleteItemFailure with Terminal = false: back to the queue, no counter moves.
RequeueItem(w) ==
    /\ istatus' = [istatus EXCEPT ![witem[w]] = "pending"]
    /\ owner' = [owner EXCEPT ![witem[w]] = NoWorker]
    /\ expired' = expired \ {witem[w]}
    /\ UNCHANGED <<count, staleBeat>>

\* Mutant: off by one.
ExhaustedOneLate(n) == n > MaxAttempts

\* classify: a retryable error is final once the attempt budget is used up.
attemptBudgetExhausted(n) == n >= MaxAttempts

Requeues(w) == wpc[w] = "retry" /\ ~attemptBudgetExhausted(wattempt[w])

\* writeSuccess, writeFailure, releaseLease and failExhaustedItem.
WriteBack(w) ==
    /\ wpc[w] \in Writing
    /\ \/ /\ Owns(w) /\ wpc[w] = "success"
          /\ CompleteItemSuccess(w)
          /\ Move(w, "finalizing")
       \/ /\ Owns(w) /\ Requeues(w)
          /\ RequeueItem(w)
          /\ Done(w)
       \/ /\ Owns(w) /\ wpc[w] # "success" /\ ~Requeues(w)
          /\ FailItem(w)
          /\ Move(w, "finalizing")
       \/ /\ ~Owns(w)                       \* ErrLeaseLost: the result is dropped
          /\ Done(w)
          /\ UNCHANGED <<istatus, owner, expired, count, staleBeat>>
    /\ UNCHANGED <<status, finished, settled, stopRequested, hold, attempt, pool,
                   requestVars, target, envVars>>

\* The write-back fails for good: only logged, the row stays running until its lease ends.
WriteBackFails(w) ==
    /\ wpc[w] \in Writing
    /\ Disrupt
    /\ Done(w)
    /\ UNCHANGED <<jobVars, itemVars, pool, requestVars, target, called, faults>>

\* The guarded UPDATE of FinalizeJob: at most one caller wins.
Finalize(j) ==
    IF j \notin finished /\ Landed(j) = ItemCount(j) /\ status[j] \in finalizeSourceStatuses
    THEN /\ status' = [status EXCEPT ![j] = "settling"]
         /\ finished' = finished \cup {j}
    ELSE UNCHANGED <<status, finished>>

FinalizeJob(w) ==
    /\ wpc[w] = "finalizing"
    /\ Finalize(WorkerJob(w))
    /\ Done(w)
    /\ UNCHANGED <<settled, stopRequested, staleBeat, count, hold, itemVars, pool,
                   requestVars, target, envVars>>

\* FinalizeJob returns an error: only logged, nobody tries again for this image.
FinalizeJobFails(w) ==
    /\ wpc[w] = "finalizing"
    /\ Disrupt
    /\ Done(w)
    /\ UNCHANGED <<jobVars, itemVars, pool, requestVars, target, called, faults>>

-----------------------------------------------------------------------------
(* Clocks, heartbeat and reaper                                            *)

\* A lease runs out by itself once its worker is gone; while the worker is generating
\* it does so only if the renewals fail.
LeaseExpires(i) ==
    /\ istatus[i] = "running" /\ i \notin expired
    /\ IF \E w \in Workers : wpc[w] # "idle" /\ witem[w] = i /\ owner[i] = w
       THEN Disrupt ELSE UNCHANGED disruptions
    /\ expired' = expired \cup {i}
    /\ UNCHANGED <<jobVars, istatus, owner, attempt, workerVars, pool, requestVars, target,
                   called, faults>>

\* A heartbeat grows old by itself when nothing refreshes it.
HeartbeatGoesStale(j) ==
    /\ status[j] \in reapableStatuses /\ j \notin staleBeat
    /\ IF pool = "up" /\ j \in InFlight \cup ActiveJobIDs
       THEN Disrupt ELSE UNCHANGED disruptions
    /\ staleBeat' = staleBeat \cup {j}
    /\ UNCHANGED <<status, finished, settled, stopRequested, count, hold, itemVars,
                   workerVars, pool, requestVars, target, called, faults>>

\* heartbeatTargets and TouchJobHeartbeat.
Heartbeat ==
    /\ pool = "up"
    /\ staleBeat \cap (InFlight \cup ActiveJobIDs) # {}
    /\ staleBeat' = staleBeat \ (InFlight \cup ActiveJobIDs)
    /\ UNCHANGED <<status, finished, settled, stopRequested, count, hold, itemVars,
                   workerVars, pool, requestVars, target, envVars>>

\* Images that are pending with no attempt left (deadPendingItemsSQL).
DeadPending == {i \in Items : istatus[i] = "pending" /\ attempt[i] > 0 /\ attempt[i] >= MaxAttempts}

Tally(S, j) == Cardinality(S \cap ItemsOf(j))

\* finalizeAfterSweepSQL: the sweep landed the last image of the batch.
SweptOut(dead) ==
    {j \in {JobOf[i] : i \in dead} :
        /\ j \notin finished
        /\ Landed(j) + Tally(dead, j) = ItemCount(j)
        /\ status[j] \in finalizeSourceStatuses}

\* The transaction of ReapStaleJobs: (1) dead pending images fail and may finish their
\* batch, (2) batches with a stale heartbeat fail, their images are stopped and their holds
\* released, (3) batches stuck in settling are closed.  SKIP LOCKED and LIMIT make each
\* part work on some of the rows that qualify; how long a batch has been settling is left open.
ReapStaleJobs(dead, stale, stuck) ==
    /\ pool = "up"
    /\ dead \cup stale \cup stuck # {}
    /\ dead \subseteq DeadPending
    /\ stale \subseteq {j \in staleBeat \ SweptOut(dead) : status[j] \in reapableStatuses}
    /\ stuck \subseteq {j \in Jobs : status[j] = "settling" /\ j \notin settled}
    /\ LET cut  == {i \in Items \ dead : JobOf[i] \in stale /\ istatus[i] = "pending"}
           lost == {i \in Items : JobOf[i] \in stale /\ istatus[i] = "running"}
       IN  /\ istatus' = [i \in Items |-> IF i \in dead \cup lost THEN "failed"
                                          ELSE IF i \in cut THEN "cancelled" ELSE istatus[i]]
           /\ owner' = [i \in Items |-> IF i \in dead \cup lost \cup cut THEN NoWorker ELSE owner[i]]
           /\ expired' = expired \ (dead \cup lost \cup cut)
           /\ count' = [j \in Jobs |->
                  [s \in ItemTerminal |->
                      count[j][s] + (CASE s = "failed"    -> Tally(dead \cup lost, j)
                                       [] s = "cancelled" -> Tally(cut, j)
                                       [] OTHER           -> 0)]]
    /\ status' = [j \in Jobs |->
           IF j \in stale THEN "failed"
           ELSE IF j \in SweptOut(dead) THEN "settling"
           ELSE IF j \in stuck THEN TerminalJobStatus(ItemCount(j), count'[j], j \in stopRequested)
           ELSE status[j]]
    /\ finished' = finished \cup stale \cup SweptOut(dead) \cup stuck
    /\ settled' = settled \cup stuck
    /\ hold' = [j \in Jobs |-> IF j \in stale \cup stuck /\ hold[j] = "open" THEN "released" ELSE hold[j]]
    /\ UNCHANGED <<stopRequested, staleBeat, attempt, workerVars, pool, requestVars, target, envVars>>

-----------------------------------------------------------------------------
(* Stop and retry requests                                                 *)

\* StopJob reads the batch and refuses one that is over.
StopJob(j) ==
    /\ pool # "down"
    /\ stop[j] = "none"
    /\ status[j] \in AllJobStatuses \ JobTerminal /\ j \notin settled
    /\ stop' = [stop EXCEPT ![j] = "checked"]
    /\ UNCHANGED <<jobVars, itemVars, workerVars, pool, submit, known, target, envVars>>

\* The transaction has no guard on the status the caller checked.
RequestJobStop(j) ==
    /\ stop[j] = "checked"
    /\ stopRequested' = stopRequested \cup {j}
    /\ LET cut == {i \in ItemsOf(j) : istatus[i] = "pending"}
       IN  /\ istatus' = [i \in Items |-> IF i \in cut THEN "cancelled" ELSE istatus[i]]
           /\ count' = [count EXCEPT ![j]["cancelled"] = @ + Cardinality(cut)]
    /\ stop' = [stop EXCEPT ![j] = "requested"]
    /\ UNCHANGED <<status, finished, settled, staleBeat, hold, owner, attempt, expired,
                   workerVars, pool, submit, known, target, envVars>>

\* finalizeAfterStop, when no image is in flight; its failure is only logged.
FinalizeAfterStop(j) ==
    /\ stop[j] = "requested"
    /\ \/ /\ IF Landed(j) >= ItemCount(j) THEN Finalize(j) ELSE UNCHANGED <<status, finished>>
          /\ UNCHANGED disruptions
       \/ Disrupt /\ UNCHANGED <<status, finished>>
    /\ stop' = [stop EXCEPT ![j] = "none"]
    /\ UNCHANGED <<settled, stopRequested, staleBeat, count, hold, itemVars, workerVars,
                   pool, submit, known, target, called, faults>>

\* The item test of RetryItem: the white list and CanRetry.
Retryable(i) == CanTransitionItem(istatus[i], "pending") /\ attempt[i] < MaxAttempts

\* Mutant: the IsSettled check is missing.
RetryAllowedIgnoringSettled(j) ==
    \/ status[j] \in JobTerminal /\ CanTransition(status[j], "running")
    \/ status[j] \in {"running", "holding"}

\* Mutant: a batch that is being settled can be retried too.
RetryAllowedWhileSettling(j) ==
    /\ j \notin settled
    /\ \/ status[j] \in JobTerminal /\ CanTransition(status[j], "running")
       \/ status[j] \in {"running", "holding", "settling"}

\* The batch test: IsSettled, then the cases of updateJobForRetry.
RetryAllowed(j) ==
    /\ j \notin settled
    /\ \/ status[j] \in JobTerminal /\ CanTransition(status[j], "running")
       \/ status[j] \in {"running", "holding"}

\* Mutant: the counter is not taken back.
NoAdjust(c, from) == c

\* Mutant: an image that is still running is taken off fail_count, without GREATEST.
AdjustUnguarded(c, from) ==
    IF from \in ItemTerminal THEN [c EXCEPT ![from] = @ - 1] ELSE [c EXCEPT !["failed"] = @ - 1]

\* retryCountAdjustSQL: GREATEST(n - 1, 0) of the counter the image was booked on.
AdjustCount(c, from) ==
    IF from \in ItemTerminal THEN [c EXCEPT ![from] = IF @ > 0 THEN @ - 1 ELSE 0] ELSE c

\* RetryItem; whether the balance admits it is decided in Admission.
RetryItem(i) ==
    LET j == JobOf[i] IN
    /\ pool # "down"
    /\ Retryable(i)
    /\ RetryAllowed(j)
    /\ count' = [count EXCEPT ![j] = AdjustCount(@, istatus[i])]
    /\ staleBeat' = staleBeat \ {j}
    /\ status' = [status EXCEPT ![j] = IF @ \in JobTerminal THEN "running" ELSE @]
    /\ finished' = IF status[j] \in JobTerminal THEN finished \ {j} ELSE finished
    /\ istatus' = [istatus EXCEPT ![i] = "pending"]
    /\ owner' = [owner EXCEPT ![i] = NoWorker]
    /\ expired' = expired \ {i}
    /\ hold' = [hold EXCEPT ![j] = "open"]
    /\ UNCHANGED <<settled, stopRequested, attempt, workerVars, pool, requestVars, target, envVars>>

-----------------------------------------------------------------------------
(* Settlement (the amounts are in Settlement)                              *)

\* ListJobsPendingSettlement read the batch; settleJob derives its terminal status.
LoadSettlement(j) ==
    /\ pool = "up"
    /\ target[j] = "none"
    /\ status[j] = "settling" /\ j \notin settled
    /\ target' = [target EXCEPT ![j] = TerminalJobStatus(ItemCount(j), count[j], j \in stopRequested)]
    /\ UNCHANGED <<jobVars, itemVars, workerVars, pool, requestVars, envVars>>

\* SettleJob, whose guard may miss, or fail.
SettleJob(j) ==
    /\ target[j] # "none"
    /\ \/ /\ j \notin settled /\ status[j] \in settleSourceStatuses(target[j])
          /\ status' = [status EXCEPT ![j] = target[j]]
          /\ settled' = settled \cup {j}
          /\ finished' = finished \cup {j}
          /\ ReleaseHold(j)
          /\ UNCHANGED disruptions
       \/ /\ j \in settled \/ status[j] \notin settleSourceStatuses(target[j])
          /\ UNCHANGED <<status, settled, finished, hold, disruptions>>
       \/ Disrupt /\ UNCHANGED <<status, settled, finished, hold>>
    /\ target' = [target EXCEPT ![j] = "none"]
    /\ UNCHANGED <<stopRequested, staleBeat, count, itemVars, workerVars, pool, requestVars,
                   called, faults>>

-----------------------------------------------------------------------------
(* The process                                                             *)

\* Pool.Stop: no more claims, the item contexts are cancelled.
PoolStop ==
    /\ pool = "up"
    /\ Disrupt
    /\ pool' = "stopping"
    /\ UNCHANGED <<jobVars, itemVars, workerVars, requestVars, target, called, faults>>

\* The process ends, killed or after its grace period; everything in memory is lost.
ProcessExit ==
    /\ \/ pool = "up" /\ Disrupt
       \/ pool = "stopping" /\ UNCHANGED disruptions
    /\ pool' = "down"
    /\ wpc' = [w \in Workers |-> "idle"]
    /\ witem' = [w \in Workers |-> NoItem]
    /\ wattempt' = [w \in Workers |-> 0]
    /\ submit' = [j \in Jobs |-> IF submit[j] = "starting" THEN "done"
                                 ELSE IF Abandoned(j) THEN "abandoned" ELSE submit[j]]
    /\ stop' = [j \in Jobs |-> "none"]
    /\ target' = [j \in Jobs |-> "none"]
    /\ UNCHANGED <<jobVars, itemVars, known, called, faults>>

ProcessStart ==
    /\ pool = "down"
    /\ pool' = "up"
    /\ UNCHANGED <<jobVars, itemVars, workerVars, requestVars, target, envVars>>

-----------------------------------------------------------------------------
WorkerStep(w) ==
    \/ LoadJob(w) \/ MarkRunning(w) \/ PrepareFails(w) \/ InvokeGateway(w)
    \/ GatewayReturns(w) \/ ShutdownCancels(w) \/ WriteBack(w) \/ FinalizeJob(w)

Reaping ==
    \E dead \in SUBSET DeadPending, stale \in SUBSET staleBeat, stuck \in SUBSET Jobs :
        ReapStaleJobs(dead, stale, stuck)

Next ==
    \/ \E j \in Jobs :
          \/ CreateJob(j) \/ StartJob(j) \/ StartJobFails(j)
          \/ AbandonRelease(j) \/ AbandonKill(j)
          \/ HeartbeatGoesStale(j)
          \/ StopJob(j) \/ RequestJobStop(j) \/ FinalizeAfterStop(j)
          \/ LoadSettlement(j) \/ SettleJob(j)
    \/ \E w \in Workers :
          \/ WorkerStep(w)
          \/ RenewItemLease(w)
          \/ LoadJobFails(w) \/ WriteBackFails(w) \/ FinalizeJobFails(w)
          \/ \E i \in Items : ClaimNextItem(w, i)
    \/ \E i \in Items : LeaseExpires(i) \/ RetryItem(i)
    \/ Heartbeat
    \/ Reaping
    \/ PoolStop \/ ProcessExit \/ ProcessStart

Spec == Init /\ [][Next]_vars

\* Fairness: every loop of a running process keeps turning (its tickers), a request that
\* was accepted keeps going, clocks advance, and a process that ended is started again.
\* Nothing is assumed about users, about renewals winning races, or about disruptions.
Quietly(A) == A /\ disruptions' = disruptions

Fairness ==
    /\ \A w \in Workers :
          /\ WF_vars(WorkerStep(w))
          /\ WF_vars(\E i \in Items : ClaimNextItem(w, i))
    /\ \A j \in Jobs :
          /\ WF_vars(StartJob(j))
          /\ WF_vars(AbandonRelease(j))
          /\ WF_vars(AbandonKill(j))
          /\ WF_vars(RequestJobStop(j))
          /\ WF_vars(FinalizeAfterStop(j))
          /\ WF_vars(LoadSettlement(j))
          /\ WF_vars(SettleJob(j))
          /\ WF_vars(Quietly(HeartbeatGoesStale(j)))
    /\ \A i \in Items : WF_vars(Quietly(LeaseExpires(i)))
    /\ WF_vars(Heartbeat)
    /\ WF_vars(Reaping)
    /\ WF_vars(pool = "stopping" /\ ProcessExit)
    /\ WF_vars(ProcessStart)

FairSpec == Spec /\ Fairness

-----------------------------------------------------------------------------
(* Properties                                                              *)

JobsTypeOK ==
    /\ status \in [Jobs -> AllJobStatuses \cup {"none"}]
    /\ finished \subseteq Jobs /\ settled \subseteq Jobs
    /\ stopRequested \subseteq Jobs /\ staleBeat \subseteq Jobs
    /\ count \in [Jobs -> [ItemTerminal -> Nat]]
    /\ hold \in [Jobs -> {"none", "open", "released"}]

ItemsTypeOK ==
    /\ istatus \in [Items -> AllItemStatuses \cup {"none"}]
    /\ owner \in [Items -> Workers \cup {NoWorker}]
    /\ attempt \in [Items -> Nat]
    /\ expired \subseteq Items

WorkersTypeOK ==
    /\ wpc \in [Workers -> {"idle", "finalizing"} \cup Generating \cup Writing]
    /\ witem \in [Workers -> Items \cup {NoItem}]
    /\ wattempt \in [Workers -> Nat]
    /\ \A w \in Workers : wpc[w] # "idle" => witem[w] \in Items

RequestsTypeOK ==
    /\ pool \in {"up", "stopping", "down"}
    /\ submit \in [Jobs -> {"none", "starting", "releasing", "killing", "done", "abandoned"}]
    /\ known \in [Jobs -> {"created", "holding", "running"}]
    /\ stop \in [Jobs -> {"none", "checked", "requested"}]
    /\ target \in [Jobs -> JobTerminal \cup {"none"}]
    /\ called \subseteq Items \X Nat
    /\ disruptions \in Nat /\ faults \in Nat

\* The rows, the workers' memory, the requests in progress and the environment are well
\* typed; counters stay natural numbers although retries take images off them.
TypeOK == JobsTypeOK /\ ItemsTypeOK /\ WorkersTypeOK /\ RequestsTypeOK

\* The images of a batch that ended in status s, counted from the item rows.
RowsIn(j, s) == {i \in ItemsOf(j) : istatus[i] = s}

\* success_count, fail_count and cancelled_count, which five code paths adjust without ever
\* reading them back, always equal what the item rows say; FinalizeJob's guard and the
\* terminal status are computed from these counters alone.
CountersMatchItems ==
    \A j \in Jobs : \A s \in ItemTerminal : count[j][s] = Cardinality(RowsIn(j, s))

\* completeItemGuardSuffix compares worker_id but not attempt_count.  It is enough: a worker
\* whose write-back would pass the guard always holds the latest attempt of the image, so no
\* late result of an earlier attempt is ever booked as the current one.
GuardImpliesLatestAttempt ==
    \A w \in Workers : wpc[w] \in Generating \cup Writing /\ Owns(w) => wattempt[w] = attempt[witem[w]]

\* The billing id of a gateway call is (job uid, seq, attempt): a worker on its way to the
\* gateway never holds an id that was already used, or upstream would bill the second image
\* of that id as a duplicate.
FreshBillingId ==
    \A w \in Workers :
        wpc[w] \in {"claimed", "starting", "preparing"} => <<witem[w], wattempt[w]>> \notin called

\* Through crashes, lost leases, automatic and manual retries, an image reaches the gateway
\* at most max_attempts times, and settlement, which enumerates the ids of attempts
\* 1..attempt_count, covers every call that was made.
CallsWithinBudget ==
    \A c \in called : c[2] \in 1..MaxAttempts /\ c[2] <= attempt[c[1]]

\* An image that is pending with its attempts used up could never be claimed again while the
\* heartbeat keeps its batch alive; no path creates one, so part (1) of the reaper is only a
\* second line of defence.
NoDeadPending == \A i \in Items : istatus[i] = "pending" => attempt[i] < MaxAttempts

\* Once a batch is settling or terminal no image of it is pending or running: what
\* settlement bills is complete and no image is generated for a closed batch.  A submission
\* that went through abandonJob is the exception (see AbandonedBatchNeverGenerates).
FinishedBatchIsQuiet ==
    \A i \in Items :
        /\ status[JobOf[i]] \in {"settling"} \cup JobTerminal
        /\ ~Abandoned(JobOf[i])
        => istatus[i] \in ItemTerminal

\* A settled batch has the terminal status its image rows call for, although SettleJob
\* writes a status computed from a row read earlier, with stop and retry requests in between.
SettledStatusMatchesItems ==
    \A j \in settled :
        status[j] = TerminalJobStatus(ItemCount(j), [s \in ItemTerminal |-> Cardinality(RowsIn(j, s))],
                                      j \in stopRequested)

\* The hold of a batch is open exactly while the batch is not over, across CreateJob, retry,
\* settlement and the reaper: no generation without frozen credit, no frozen credit behind a
\* finished batch.  A submission that went through abandonJob is the exception: its hold is
\* released before the batch is failed, and either statement may fail (see EveryBatchEnds).
HoldOpenIffUnfinished ==
    \A j \in Jobs : status[j] # "none" /\ ~Abandoned(j) => (hold[j] = "open" <=> status[j] \notin JobTerminal)

\* A terminal status is never left.  The comments of status.go (lines 118-120, 146-147 and
\* 162-166) and the branch of updateJobForRetry that pulls a finished batch back to running
\* (job_repo.go:881-901) say the opposite: a retry is to re-open succeeded and
\* partially_failed.  It never does: both are only written together with settled_at, which
\* RetryItem refuses, so that branch is dead code and the white list's entries are never used.
TerminalIsForever ==
    [][\A j \in Jobs : status[j] \in JobTerminal => status'[j] = status[j]]_vars

\* Users do not go on asking for retries for ever (a cancelled image can be retried and
\* stopped again without end, as the retry of an image that never ran costs no attempt).
UserRelents == <>[][\A i \in Items : ~RetryItem(i)]_vars

\* abandonJob itself wrote the batch's failed: neither a worker nor the reaper ended it.
KilledByAbandon(j) == submit[j] = "abandoned" /\ status[j] = "failed" /\ j \notin finished

\* Every submitted batch ends: after the last disruption and the last retry, the queue, the
\* lease and heartbeat clocks, the reaper and settlement drive it to a terminal status with
\* its hold released.  One case is excepted: abandonJob fails the batch after ReleaseHold
\* failed (job_create.go:196-198).  That hold stays open, because the reaper, which
\* job_create.go:180-182 counts on, only looks at unfinished batches.
EveryBatchEnds ==
    UserRelents =>
        \A j \in Jobs : (status[j] = "created") ~>
            (status[j] \in JobTerminal /\ (hold[j] = "open" => KilledByAbandon(j)))

\* What abandonJob tells the user: "this batch has not started generating".
AbandonedBatchNeverGenerates ==
    \A c \in called : submit[JobOf[c[1]]] # "abandoned"

\* What RetryItemInput's comment says of a double click: the state machine refuses a second
\* retry, so a running image goes back to the queue only by its own worker's hand.
RunningRequeuedOnlyByItsWorker ==
    [][\A i \in Items : istatus[i] = "running" /\ istatus'[i] = "pending" =>
           \E w \in Workers : owner[i] = w /\ wpc[w] = "retry" /\ wpc'[w] = "idle"]_vars
=============================================================================
