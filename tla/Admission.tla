----------------------------- MODULE Admission -----------------------------
(***************************************************************************)
(* How one user's money is committed: submissions and retries check the    *)
(* balance less the open holds inside a transaction that locks the user's  *)
(* row, a submission that carries an idempotency key returns the batch of  *)
(* an earlier one, a submission that cannot be started is abandoned, the   *)
(* gateway charges the balance, and settlement or the reaper gives holds   *)
(* back without asking for the user's row.                                 *)
(*                                                                         *)
(* A step is one SQL statement; PostgreSQL runs them under READ COMMITTED. *)
(* What happens to the images of a batch is modelled in JobQueue.          *)
(***************************************************************************)
EXTENDS Integers, FiniteSets, Functions

CONSTANTS
    Submissions,   \* calls of CreateJob; a batch is named after the one that created it
    Retries,       \* calls of RetryJobItem
    Key,           \* idempotency key of every submission, NULL if it has none
    Price,         \* estimated cost of every call
    Deposit,       \* the user's balance in the beginning
    MaxFaults,     \* bound: statements of startJob and abandonJob that fail
    NULL

Requests == Submissions \cup Retries

ASSUME RequestsAssumption ==
    IsFiniteSet(Requests) /\ Submissions \cap Retries = {} /\ NULL \notin Requests
ASSUME PriceAssumption == Price \in [Requests -> Nat]
ASSUME AmountsAssumption == Deposit \in Nat /\ MaxFaults \in Nat /\ NULL \notin Int

VARIABLES
    balance,   \* users.balance
    rowLock,   \* the request whose transaction holds the user's row, or NULL
    batch,     \* "none", "created", "live" (holding or running), "settling" or "over"
    hold,      \* amount of the open hold of a batch, NULL if there is none
    keyed,     \* batches whose idempotency_key is not NULL
    old,       \* batches created more than 24 hours ago
    pc,        \* where a request is
    subject,   \* the batch a request is about, NULL if it has none yet
    funds,     \* the balance its transaction read
    held,      \* the sum of open holds its transaction read
    budget,    \* what the gateway may still charge for a batch
    unbooked,  \* what it charged and settlement has not booked yet
    stray,     \* charges for batches whose hold had been given back, or whose submission failed
    faults

rowVars  == <<batch, hold, keyed, old>>
txVars   == <<rowLock, pc, subject, funds, held>>
gateVars == <<balance, budget, unbooked, stray>>
vars     == <<rowVars, txVars, gateVars, faults>>

-----------------------------------------------------------------------------
Open == {b \in Submissions : hold[b] # NULL}

OpenHolds == SumFunctionOnSet(hold, Open)

Fault == faults < MaxFaults /\ faults' = faults + 1

Go(r, to) == pc' = [pc EXCEPT ![r] = to]

\* A batch whose submission failed half way and reports failure.
Abandoned(b) ==
    pc[b] \in {"releasing", "clearing", "killing", "abandoned"}

\* COMMIT or ROLLBACK: the row is free, what the transaction read is forgotten.
EndTx(r) ==
    /\ rowLock' = NULL
    /\ funds' = [funds EXCEPT ![r] = 0]
    /\ held' = [held EXCEPT ![r] = 0]

\* Mutant: RetryItem reads the batch without FOR UPDATE.
NeverLocked(b) == FALSE

\* A retry has locked the row of its batch; every statement that changes the row waits.
JobLocked(b) == \E t \in Retries : subject[t] = b /\ pc[t] \in {"checking", "deciding"}

Init ==
    /\ balance = Deposit /\ rowLock = NULL
    /\ batch = [b \in Submissions |-> "none"]
    /\ hold = [b \in Submissions |-> NULL]
    /\ keyed = {} /\ old = {}
    /\ pc = [r \in Requests |-> "idle"]
    /\ subject = [r \in Requests |-> NULL]
    /\ funds = [r \in Requests |-> 0] /\ held = [r \in Requests |-> 0]
    /\ budget = [b \in Submissions |-> 0] /\ unbooked = [b \in Submissions |-> 0]
    /\ stray = 0 /\ faults = 0

-----------------------------------------------------------------------------
(* The admission transaction                                               *)

\* Mutant: SELECT balance without FOR UPDATE.
RowReadable == TRUE

\* SELECT balance ... FOR UPDATE has to wait for the transaction that holds the row.
RowFree == rowLock = NULL

lockUserBalance(r) ==
    /\ pc[r] = "idle"
    /\ RowFree
    /\ rowLock' = r
    /\ funds' = [funds EXCEPT ![r] = balance]
    /\ Go(r, "locked")
    /\ UNCHANGED <<rowVars, subject, held, gateVars, faults>>

\* The batches an idempotency key finds; their status is not looked at.  There is never
\* more than one, so that ORDER BY id DESC LIMIT 1 has nothing to choose.
findJobByIdempotencyKey(r) ==
    {b \in keyed \ old : Key[r] # NULL /\ Key[b] = Key[r]}

\* Hit: the earlier batch is returned, nothing is created and nothing frozen.
Reuse(r) ==
    /\ r \in Submissions /\ pc[r] = "locked"
    /\ \E b \in findJobByIdempotencyKey(r) : subject' = [subject EXCEPT ![r] = b]
    /\ Go(r, "answered")
    /\ EndTx(r)
    /\ UNCHANGED <<rowVars, gateVars, faults>>

Miss(r) ==
    /\ r \in Submissions /\ pc[r] = "locked"
    /\ findJobByIdempotencyKey(r) = {}
    /\ Go(r, "checking")
    /\ UNCHANGED <<rowVars, rowLock, subject, funds, held, gateVars, faults>>

\* RetryItem locks its batch, which must be holding or running.
LockJob(r, b) ==
    /\ r \in Retries /\ pc[r] = "locked"
    /\ batch[b] = "live"
    /\ subject' = [subject EXCEPT ![r] = b]
    /\ Go(r, "checking")
    /\ UNCHANGED <<rowVars, rowLock, funds, held, gateVars, faults>>

\* The batch is over or the image cannot be retried: roll back.
RefuseRetry(r) ==
    /\ r \in Retries /\ pc[r] = "locked"
    /\ Go(r, "refused")
    /\ EndTx(r)
    /\ UNCHANGED <<rowVars, subject, gateVars, faults>>

sumOpenHolds(r) ==
    /\ pc[r] = "checking"
    /\ held' = [held EXCEPT ![r] = OpenHolds]
    /\ Go(r, "deciding")
    /\ UNCHANGED <<rowVars, rowLock, subject, funds, gateVars, faults>>

\* Mutant: the balance alone decides.
SolventWithoutHolds(r) == funds[r] >= Price[r]

\* available = balance - open holds covers the estimate.
Solvent(r) == funds[r] - held[r] >= Price[r]

\* ErrInsufficientBalance: roll back.
Reject(r) ==
    /\ pc[r] = "deciding"
    /\ ~Solvent(r)
    /\ Go(r, "refused")
    /\ EndTx(r)
    /\ UNCHANGED <<rowVars, subject, gateVars, faults>>

\* insertHold: adds to an open hold, replaces a released one.
insertHold(b, amount) ==
    hold' = [hold EXCEPT ![b] = IF @ = NULL THEN amount ELSE @ + amount]

\* insertJob, insertJobItems, insertHold, COMMIT.
Admit(r) ==
    /\ r \in Submissions /\ pc[r] = "deciding"
    /\ Solvent(r)
    /\ batch' = [batch EXCEPT ![r] = "created"]
    /\ insertHold(r, Price[r])
    /\ keyed' = IF Key[r] = NULL THEN keyed ELSE keyed \cup {r}
    /\ subject' = [subject EXCEPT ![r] = r]
    /\ budget' = [budget EXCEPT ![r] = Price[r]]
    /\ Go(r, "starting")
    /\ EndTx(r)
    /\ UNCHANGED <<old, balance, unbooked, stray, faults>>

\* The image goes back to the queue with another unit frozen, COMMIT.
AdmitRetry(r) ==
    /\ r \in Retries /\ pc[r] = "deciding"
    /\ Solvent(r)
    /\ insertHold(subject[r], Price[r])
    /\ budget' = [budget EXCEPT ![subject[r]] = @ + Price[r]]
    /\ Go(r, "answered")
    /\ EndTx(r)
    /\ UNCHANGED <<batch, keyed, old, subject, balance, unbooked, stray, faults>>

-----------------------------------------------------------------------------
(* startJob and abandonJob                                                 *)

\* created -> holding; a guard that misses (the reaper, or a stop that left nothing to do)
\* is no error.
StartHolding(r) ==
    /\ pc[r] = "starting" /\ ~JobLocked(r)
    /\ \/ /\ batch[r] = "created"
          /\ batch' = [batch EXCEPT ![r] = "live"]
          /\ Go(r, "promoting")
       \/ batch[r] # "created" /\ Go(r, "answered") /\ UNCHANGED batch
    /\ UNCHANGED <<hold, keyed, old, rowLock, subject, funds, held, gateVars, faults>>

\* holding -> running, or the same miss: the submission reports success.
StartRunning(r) ==
    /\ pc[r] = "promoting"
    /\ Go(r, "answered")
    /\ UNCHANGED <<rowVars, rowLock, subject, funds, held, gateVars, faults>>

\* Either UPDATE reports an error; it may have been committed all the same.
StartFails(r) ==
    /\ pc[r] \in {"starting", "promoting"}
    /\ Fault
    /\ \/ UNCHANGED batch
       \/ batch[r] = "created" /\ batch' = [batch EXCEPT ![r] = "live"]
    /\ Go(r, "releasing")
    /\ UNCHANGED <<hold, keyed, old, rowLock, subject, funds, held, gateVars>>

\* First statement of abandonJob; its failure is only logged.
AbandonRelease(r) ==
    /\ pc[r] = "releasing"
    /\ \/ hold' = [hold EXCEPT ![r] = NULL] /\ UNCHANGED faults
       \/ Fault /\ UNCHANGED hold
    /\ Go(r, "clearing")
    /\ UNCHANGED <<batch, keyed, old, rowLock, subject, funds, held, gateVars>>

\* UPDATE ... SET idempotency_key = NULL.  When it fails, which is only logged, a submission
\* with the same key is answered with the failed batch for 24 hours.
ClearJobIdempotencyKey(r) ==
    /\ pc[r] = "clearing" /\ ~JobLocked(r)
    /\ \/ keyed' = keyed \ {r} /\ UNCHANGED faults
       \/ Fault /\ UNCHANGED keyed
    /\ Go(r, "killing")
    /\ UNCHANGED <<batch, hold, old, rowLock, subject, funds, held, gateVars>>

\* Last statement: the batch fails, unless it is running by now or the UPDATE fails; its
\* images stay in the queue.
AbandonKill(r) ==
    /\ pc[r] = "killing" /\ ~JobLocked(r)
    /\ \/ /\ batch[r] \in {"created", "live"}
          /\ batch' = [batch EXCEPT ![r] = "over"] /\ UNCHANGED faults
       \/ batch[r] # "created" /\ UNCHANGED <<batch, faults>>
       \/ Fault /\ UNCHANGED batch
    /\ Go(r, "abandoned")
    /\ UNCHANGED <<hold, keyed, old, rowLock, subject, funds, held, gateVars>>

-----------------------------------------------------------------------------
(* Gateway, settlement, reaper                                             *)

\* The gateway charges the balance, which waits for the user's row.  It does so some time
\* after it has answered the call: the batch may be settling or over by then.  It charges no
\* more than the estimate; what it charges beyond is the subject of Settlement's alerts.
Charge(b, c) ==
    /\ rowLock = NULL
    /\ c \in 1..budget[b]
    /\ balance' = balance - c
    /\ budget' = [budget EXCEPT ![b] = @ - c]
    /\ unbooked' = [unbooked EXCEPT ![b] = @ + c]
    /\ stray' = IF hold[b] = NULL \/ Abandoned(b) THEN stray + c ELSE stray
    /\ UNCHANGED <<rowVars, txVars, faults>>

\* FinalizeJob: all images have landed.  Their bills, and those of failed attempts or of
\* workers that lost their lease, may still be on the way.
FinalizeJob(b) ==
    /\ batch[b] \in {"created", "live"} /\ ~JobLocked(b)
    /\ batch' = [batch EXCEPT ![b] = "settling"]
    /\ UNCHANGED <<hold, keyed, old, txVars, gateVars, faults>>

\* Mutant: no GREATEST(amount - delta, 0).
DecrementUnguarded(amount, delta) == amount - delta

\* GREATEST(amount - delta, 0).
Decrement(amount, delta) == IF amount > delta THEN amount - delta ELSE 0

\* ApplyItemBilling takes what was charged off an open hold, without the user's row.
ApplyItemBilling(b) ==
    /\ batch[b] = "settling" /\ unbooked[b] > 0
    /\ hold' = [hold EXCEPT ![b] = IF @ = NULL THEN NULL ELSE Decrement(@, unbooked[b])]
    /\ unbooked' = [unbooked EXCEPT ![b] = 0]
    /\ UNCHANGED <<batch, keyed, old, txVars, balance, budget, stray, faults>>

\* SettleJob, or the reaper: over, and the whole hold released.  Bills that arrive later,
\* of calls under way or of calls that settlement gave up waiting for, meet no hold.
CloseBatch(b) ==
    /\ batch[b] \in {"created", "live", "settling"} /\ ~JobLocked(b)
    /\ batch' = [batch EXCEPT ![b] = "over"]
    /\ hold' = [hold EXCEPT ![b] = NULL]
    /\ unbooked' = [unbooked EXCEPT ![b] = 0]
    /\ UNCHANGED <<keyed, old, txVars, balance, budget, stray, faults>>

\* Twenty-four hours pass, which only the look-up of keys can tell.
GrowOld(b) ==
    /\ b \in keyed \ old
    /\ old' = old \cup {b}
    /\ UNCHANGED <<batch, hold, keyed, txVars, gateVars, faults>>

Next ==
    \/ \E r \in Requests :
          \/ lockUserBalance(r) \/ Reuse(r) \/ Miss(r)
          \/ (\E b \in Submissions : LockJob(r, b)) \/ RefuseRetry(r)
          \/ sumOpenHolds(r) \/ Reject(r) \/ Admit(r) \/ AdmitRetry(r)
    \/ \E b \in Submissions :
          \/ StartHolding(b) \/ StartRunning(b) \/ StartFails(b)
          \/ AbandonRelease(b) \/ ClearJobIdempotencyKey(b) \/ AbandonKill(b)
          \/ (\E c \in 1..budget[b] : Charge(b, c))
          \/ FinalizeJob(b) \/ ApplyItemBilling(b) \/ CloseBatch(b) \/ GrowOld(b)

Spec == Init /\ [][Next]_vars

-----------------------------------------------------------------------------
(* Properties                                                              *)

\* Rows, transactions and charges are well typed; no hold is negative.
TypeOK ==
    /\ balance \in Int /\ rowLock \in Requests \cup {NULL}
    /\ batch \in [Submissions -> {"none", "created", "live", "settling", "over"}]
    /\ hold \in [Submissions -> Nat \cup {NULL}]
    /\ keyed \subseteq Submissions /\ old \subseteq Submissions
    /\ pc \in [Requests -> {"idle", "locked", "checking", "deciding", "refused", "answered",
                            "starting", "promoting", "releasing", "clearing", "killing",
                            "abandoned"}]
    /\ subject \in [Requests -> Submissions \cup {NULL}]
    /\ funds \in [Requests -> Int] /\ held \in [Requests -> Nat]
    /\ budget \in [Submissions -> Nat] /\ unbooked \in [Submissions -> Nat]
    /\ stray \in Nat /\ faults \in Nat

\* However submissions, retries, charges, bookings and releases interleave, a user who is
\* charged no more than the estimates never goes into debt, except by charges that meet no
\* hold: those of a batch whose submission failed, of a reaped batch whose calls were still
\* under way, and of a batch that was settled before the bill arrived (the gateway debits
\* after it has answered, openai_images.go:389).
NeverOverdrawn == balance + stray >= 0

\* A double submit creates one batch: two batches of one key within 24 hours mean that the
\* first submission was abandoned.
OneBatchPerKey ==
    \A a, b \in Submissions :
        /\ a # b /\ Key[a] # NULL /\ Key[a] = Key[b]
        /\ batch[a] # "none" /\ batch[b] # "none" /\ a \notin old /\ b \notin old
        => Abandoned(a) \/ Abandoned(b)

\* Money is frozen for a batch exactly as long as the batch is unfinished, however a retry
\* that looked at the batch, added up the holds and then tops up its hold meets the settlement
\* or the reaper that closes the batch and releases the hold: no hold is opened on a batch
\* that is over, where nobody would ever release it.  Batches whose submission failed are
\* excepted: abandonJob releases and fails them in separate statements.
HoldIffUnfinished ==
    \A b \in Submissions :
        ~Abandoned(b) => (hold[b] # NULL <=> batch[b] \in {"created", "live", "settling"})
=============================================================================
