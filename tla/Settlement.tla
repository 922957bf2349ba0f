----------------------------- MODULE Settlement -----------------------------
(***************************************************************************)
(* The settlement of one batch that has reached settling: the bills of its *)
(* attempts appear in usage_logs one by one, some never; the settlement    *)
(* loop looks them up, waits for those it knows must come, books each      *)
(* image, closes the batch and raises an alert.  After sixty minutes the   *)
(* reaper closes it instead.  Every statement may fail and the process may *)
(* be restarted between any two of them, with or without a worker pool.    *)
(*                                                                         *)
(* Three facts about the queue are taken for granted: the calls of an      *)
(* image used ids of its attempts 1..attempt_count, a delivered image was  *)
(* called for under its latest one, and no image row moves while the batch *)
(* settles.  BatchProofs and JobQueueProofs prove them of JobQueue.        *)
(***************************************************************************)
EXTENDS Integers, FiniteSets, Functions

CONSTANTS
    Items,              \* images of the batch
    MaxAttempts,        \* bound on designkit_job_items.attempt_count
    Cost,               \* usage_logs.actual_cost of the call with id <<image, attempt>>
    Estimated,          \* designkit_jobs.estimated_cost
    Frozen,             \* designkit_holds.amount when the batch begins to settle
    SettleMaxAttempts,  \* rounds the loop waits for missing bills
    MaxDisruptions,     \* bound: failing statements and restarts
    NULL

Ids == Items \X (1..MaxAttempts)

ASSUME SettlementAssumption ==
    /\ IsFiniteSet(Items)
    /\ MaxAttempts \in Nat /\ SettleMaxAttempts \in Nat /\ MaxDisruptions \in Nat
    /\ Cost \in [Ids -> Nat]
    /\ Estimated \in Nat /\ Frozen \in Nat
    /\ NULL \notin Nat

VARIABLES
    won,          \* images that succeeded
    tried,        \* attempt_count of every image
    owed,         \* ids upstream charged for
    logged,       \* ids that have a row in usage_logs
    billed,       \* billed_cost of every image, NULL before the first booking
    actual,       \* actual_cost of the batch
    hold,         \* designkit_holds.amount, NULL once released
    closedBy,     \* who set settled_at: "none", "settler", "forced" or "reaper"
    alerts,       \* designkit_billing_alerts: rows by level
    age,          \* time since finished_at: "fresh", "over30" or "over60" minutes
    pool,         \* "up", or "absent": newWorker found a dependency missing
    pc,           \* where the settlement loop is
    tries,        \* settleState.attempts
    seen,         \* the bills its last look-up returned
    stale,        \* stuckInSettling, as of that look-up
    todo,         \* images not booked yet in this round
    total,        \* actual_cost summed up so far
    disruptions

factVars   == <<won, tried, owed>>
rowVars    == <<billed, actual, hold, closedBy, alerts>>
loopVars   == <<pc, tries, seen, stale, todo, total>>
vars       == <<factVars, logged, rowVars, age, pool, loopVars, disruptions>>

-----------------------------------------------------------------------------
(* Bills                                                                   *)

SumCost(S) == SumFunctionOnSet(Cost, S)

OrZero(x) == IF x = NULL THEN 0 ELSE x

\* Mutant: only the id stored on the row, that of the latest attempt.
LatestOnly(i) == {<<i, tried[i]>>} \cap Ids

\* billingCandidates: the ids of all attempts of an image.
Candidates(i) == {<<i, a>> : a \in 1..tried[i]}

\* Mutant: the first attempt stands for the one that succeeded.
RequiredFirst(i) == IF i \in won THEN {<<i, 1>>} ELSE {}

\* The one id upstream must have charged for: that of the attempt that succeeded.
RequiredID(i) == IF i \in won THEN {<<i, tried[i]>>} ELSE {}

Required == UNION {RequiredID(i) : i \in Items}

\* What fillCosts counts.
MissingRequired(bills) == Required \ bills
OptionalMissing(bills) == UNION {Candidates(i) \ (RequiredID(i) \cup bills) : i \in Items}

ItemTotal(i) == SumCost(Candidates(i) \cap seen)

Disrupt == disruptions < MaxDisruptions /\ disruptions' = disruptions + 1

-----------------------------------------------------------------------------
\* Any outcome the queue can leave behind: a succeeded image was charged for its last
\* attempt, any other attempt may or may not have been charged for.
Init ==
    /\ won \in SUBSET Items
    /\ tried \in [Items -> 0..MaxAttempts]
    /\ \A i \in won : tried[i] > 0
    /\ owed \in SUBSET {id \in Ids : id[2] <= tried[id[1]]}
    /\ Required \subseteq owed
    /\ logged = {}
    /\ billed = [i \in Items |-> NULL]
    /\ actual = NULL /\ hold = Frozen /\ closedBy = "none"
    /\ alerts = [level \in {"warn", "critical"} |-> 0]
    /\ age = "fresh" /\ pool = "up"
    /\ pc = "idle" /\ tries = 0 /\ seen = {} /\ stale = FALSE /\ todo = {} /\ total = 0
    /\ disruptions = 0

\* Upstream writes usage_logs asynchronously, in any order, possibly never.
WriteUsageLog(id) ==
    /\ id \in owed \ logged
    /\ logged' = logged \cup {id}
    /\ UNCHANGED <<factVars, rowVars, age, pool, loopVars, disruptions>>

GrowOld ==
    /\ closedBy = "none"
    /\ \/ age = "fresh" /\ age' = "over30"
       \/ age = "over30" /\ age' = "over60"
    /\ UNCHANGED <<factVars, logged, rowVars, pool, loopVars, disruptions>>

-----------------------------------------------------------------------------
(* The settlement loop                                                     *)

\* ListJobsPendingSettlement returns the batch (it is settling and not settled), and its
\* back-off is over.
ListPending ==
    /\ pool = "up" /\ pc = "idle"
    /\ closedBy = "none"
    /\ pc' = "listed"
    /\ UNCHANGED <<factVars, logged, rowVars, age, pool, tries, seen, stale, todo, total, disruptions>>

\* Missing required bills, or one round of grace when nothing is known to have been charged.
Waiting(bills) ==
    \/ MissingRequired(bills) # {}
    \/ Required = {} /\ OptionalMissing(bills) # {} /\ tries = 0

\* ListJobItems and SumUsageLogCosts: wait for another round, or start booking.
ReadBills ==
    /\ pc = "listed"
    /\ seen' = logged
    /\ stale' = (age # "fresh")
    /\ IF Waiting(logged) /\ age = "fresh" /\ tries < SettleMaxAttempts
       THEN pc' = "idle" /\ tries' = tries + 1 /\ UNCHANGED <<todo, total>>
       ELSE pc' = "booking" /\ todo' = Items /\ total' = 0 /\ UNCHANGED tries
    /\ UNCHANGED <<factVars, logged, rowVars, age, pool, disruptions>>

\* Either query fails: scheduleRetry.
ReadBillsFails ==
    /\ pc = "listed"
    /\ Disrupt
    /\ pc' = "idle" /\ tries' = tries + 1
    /\ UNCHANGED <<factVars, logged, rowVars, age, pool, seen, stale, todo, total>>

\* billed_cost only grows: nothing found, or nothing more than is booked, changes no row.
Books(i) == /\ Candidates(i) \cap seen # {}
            /\ billed[i] = NULL \/ ItemTotal(i) > OrZero(billed[i])

\* Mutant: the whole amount again, whatever was booked before.
WholeAmount(old, new) == new

\* What the hold goes down by.
Delta(old, new) == new - OrZero(old)

\* Mutant: without GREATEST.
DecrementUnguarded(amount, delta) == IF amount = NULL THEN NULL ELSE amount - delta

\* decrementHoldSQL: GREATEST(amount - delta, 0) of an open hold.
Decrement(amount, delta) ==
    IF amount = NULL THEN NULL ELSE IF amount > delta THEN amount - delta ELSE 0

\* Mutant: what was booked is added to what was found.
PaidPlusFound(i) == OrZero(billed[i]) + ItemTotal(i)

\* An image's part of actual_cost.
Share(i) == IF Books(i) THEN ItemTotal(i) ELSE OrZero(billed[i])

\* One image of applyItemBilling; ApplyItemBilling does not look at the batch's status, and
\* its failure is only logged.
ApplyItemBilling(i) ==
    /\ pc = "booking" /\ i \in todo
    /\ todo' = todo \ {i}
    /\ total' = total + Share(i)
    /\ \/ /\ Books(i)
          /\ billed' = [billed EXCEPT ![i] = ItemTotal(i)]
          /\ hold' = Decrement(hold, Delta(billed[i], ItemTotal(i)))
          /\ UNCHANGED disruptions
       \/ Books(i) /\ Disrupt /\ UNCHANGED <<billed, hold>>
       \/ ~Books(i) /\ UNCHANGED <<billed, hold, disruptions>>
    /\ UNCHANGED <<factVars, logged, actual, closedBy, alerts, age, pool, pc, tries, seen, stale>>

Forced == MissingRequired(seen) # {}

\* settlementAlertLevel: warn above 1.2 times the estimate, critical above twice.
AlertLevel(cost) ==
    IF Forced \/ stale THEN "critical"
    ELSE IF Estimated = 0 THEN "none"
    ELSE IF cost > 2 * Estimated THEN "critical"
    ELSE IF 5 * cost > 6 * Estimated THEN "warn"
    ELSE "none"

\* Mutant: settled_at IS NULL is missing.
CloseAlways == TRUE

\* The guard of SettleJob's UPDATE (the status goes with settled_at, see JobQueue).
Closable == closedBy = "none"

\* Mutant: settled_at is set and the hold forgotten.
CloseKeepingHold(cost) == actual' = cost /\ UNCHANGED hold

\* The transaction of SettleJob, and of the reaper: actual_cost, settled_at, hold released.
Close(cost) == actual' = cost /\ hold' = NULL

\* Mutant: the alert does not depend on SettleJob's result.
AlertAnyway(ok) == IF AlertLevel(total) = "none" THEN "idle" ELSE "alerting"

\* The alert comes after SettleJob, and only if it succeeded.
AfterSettle(ok) == IF ok /\ AlertLevel(total) # "none" THEN "alerting" ELSE "idle"

SettleJob ==
    /\ pc = "booking" /\ todo = {}
    /\ \/ /\ Closable
          /\ Close(total)
          /\ closedBy' = IF Forced THEN "forced" ELSE "settler"
          /\ pc' = AfterSettle(TRUE) /\ tries' = 0
          /\ UNCHANGED disruptions
       \/ /\ ~Closable                   \* the reaper was faster: an error, retried
          /\ pc' = AfterSettle(FALSE) /\ tries' = tries + 1
          /\ UNCHANGED <<actual, hold, closedBy, disruptions>>
       \/ /\ Disrupt
          /\ pc' = AfterSettle(FALSE) /\ tries' = tries + 1
          /\ UNCHANGED <<actual, hold, closedBy>>
    /\ UNCHANGED <<factVars, logged, billed, alerts, age, pool, seen, stale, todo, total>>

\* recordBillingAlert; a failing INSERT is only logged.
RecordAlert ==
    /\ pc = "alerting"
    /\ \/ alerts' = [alerts EXCEPT ![AlertLevel(total)] = @ + 1] /\ UNCHANGED disruptions
       \/ Disrupt /\ UNCHANGED alerts
    /\ pc' = "idle"
    /\ UNCHANGED <<factVars, logged, billed, actual, hold, closedBy, age, pool, tries, seen, stale, todo, total>>

-----------------------------------------------------------------------------
(* The reaper, part (3), and the process                                   *)

SumBilled == SumFunctionOnSet([i \in Items |-> OrZero(billed[i])], Items)

\* reapStuckSettlingSQL: the batch is closed with what is booked so far, without an alert.
ReapStuckSettling ==
    /\ pool = "up"
    /\ age = "over60" /\ closedBy = "none"
    /\ Close(SumBilled)
    /\ closedBy' = "reaper"
    /\ UNCHANGED <<factVars, logged, billed, alerts, age, pool, loopVars, disruptions>>

\* A restart; newWorker builds the pool, reaper and settlement loop included, only if
\* storage, image service and gateway are all there.
Restart ==
    /\ Disrupt
    /\ pool' \in {"up", "absent"}
    /\ pc' = "idle" /\ tries' = 0 /\ seen' = {} /\ stale' = FALSE /\ todo' = {} /\ total' = 0
    /\ UNCHANGED <<factVars, logged, rowVars, age>>

LoopStep ==
    \/ ListPending \/ ReadBills \/ (\E i \in Items : ApplyItemBilling(i))
    \/ SettleJob \/ RecordAlert

Next ==
    \/ \E id \in Ids : WriteUsageLog(id)
    \/ GrowOld
    \/ LoopStep
    \/ ReadBillsFails
    \/ ReapStuckSettling
    \/ Restart

\* Time passes and the tickers of a running pool keep turning.  Nothing is assumed about
\* upstream's log nor about restarts.
Fairness ==
    /\ WF_vars(GrowOld)
    /\ WF_vars(LoopStep)
    /\ WF_vars(ReapStuckSettling)

Spec == Init /\ [][Next]_vars
FairSpec == Spec /\ Fairness

-----------------------------------------------------------------------------
(* Properties                                                              *)

\* Rows and loop are well typed; a hold never becomes negative.
TypeOK ==
    /\ won \subseteq Items /\ tried \in [Items -> 0..MaxAttempts]
    /\ owed \subseteq Ids /\ logged \subseteq Ids /\ seen \subseteq Ids
    /\ billed \in [Items -> Nat \cup {NULL}]
    /\ actual \in Nat \cup {NULL} /\ hold \in Nat \cup {NULL}
    /\ closedBy \in {"none", "settler", "forced", "reaper"}
    /\ alerts \in [{"warn", "critical"} -> Nat]
    /\ age \in {"fresh", "over30", "over60"} /\ pool \in {"up", "absent"}
    /\ pc \in {"idle", "listed", "booking", "alerting"}
    /\ tries \in Nat /\ stale \in BOOLEAN /\ todo \subseteq Items /\ total \in Nat
    /\ disruptions \in Nat

\* Through failing bookings, crashes half way through a round and repeated rounds with more
\* bills, the open hold is always what was frozen less what is booked, never below zero:
\* no image is taken off the hold twice.
HoldTracksBilled ==
    hold # NULL => hold = IF Frozen > SumBilled THEN Frozen - SumBilled ELSE 0

\* When the loop closes a batch, actual_cost is the sum of every bill that upstream had
\* logged at the last look-up, retries and failed images included, each once.
AllAttemptsCounted ==
    [][closedBy = "none" /\ closedBy' \in {"settler", "forced"} => actual' = SumCost(seen)]_vars

\* A batch closed without force has paid for every image it delivered.
DeliveredIsPaid ==
    closedBy = "settler" => actual >= SumCost(UNION {{<<i, tried[i]>>} : i \in won})

\* Nobody is charged for more than upstream charged.
NeverOvercharged == actual # NULL => actual <= SumCost(logged)

\* Retried settlements leave at most one alert: the table has no unique key.
AtMostOneAlert == alerts["warn"] + alerts["critical"] <= 1

\* Loop and reaper may both be about to close the batch; once one has, neither actual_cost nor
\* the hold changes any more.
ClosedBooksStayClosed ==
    [][closedBy # "none" => UNCHANGED <<actual, hold, closedBy>>]_vars

\* As long as some worker pool is eventually up for good, the batch is closed and its hold
\* released, whether or not the missing bills ever arrive.
EveryBatchCloses == <>[](pool = "up") => <>(closedBy # "none" /\ hold = NULL)

\* Iron law 1 of settlement: actual_cost = SUM(items.billed_cost).
ActualIsSumOfBilled == closedBy # "none" => actual = SumBilled

\* What the reaper's comment promises: part (3) is there for the case in which the worker
\* pool was not started at all.
ReaperCoversMissingPool == <>(hold = NULL)
=============================================================================
