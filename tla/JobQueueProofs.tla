--------------------------- MODULE JobQueueProofs ---------------------------
(***************************************************************************)
(* Proofs about JobQueue for any number of batches, images and workers,    *)
(* any attempt budget and any number of disruptions: its types, the lease  *)
(* protocol of its items and the counters of its batches.                  *)
(***************************************************************************)
EXTENDS JobQueue, FiniteSetTheorems, TLAPS

-----------------------------------------------------------------------------
(* Operators                                                               *)

\* Every subset of the images is finite and has a cardinality.
LEMMA SubsetCardinality ==
    ASSUME NEW S \in SUBSET Items
    PROVE  IsFiniteSet(S) /\ Cardinality(S) \in Nat
  BY ItemsAssumption, FS_Subset, FS_CardinalityType

\* The rule for the terminal status always yields one.
LEMMA TerminalJobStatusType ==
    ASSUME NEW n, NEW c, NEW b
    PROVE  TerminalJobStatus(n, c, b) \in JobTerminal
  BY DEF TerminalJobStatus, JobTerminal

\* Taking an image off its counter leaves natural counters.
LEMMA AdjustCountType ==
    ASSUME NEW c \in [ItemTerminal -> Nat], NEW from
    PROVE  AdjustCount(c, from) \in [ItemTerminal -> Nat]
  BY DEF AdjustCount

-----------------------------------------------------------------------------
(* Type correctness                                                        *)

\* The state before the first submission is well typed.
LEMMA TypeInit == Init => TypeOK
  BY DEF Init, TypeOK, JobsTypeOK, ItemsTypeOK, WorkersTypeOK, RequestsTypeOK, ZeroCount, Generating, Writing, AllJobStatuses, AllItemStatuses

\* The two ways a worker moves on.
LEMMA MoveType ==
    ASSUME WorkersTypeOK, NEW w \in Workers, wpc[w] # "idle",
           NEW pc \in {"finalizing"} \cup Generating \cup Writing, Move(w, pc)
    PROVE  WorkersTypeOK'
  BY DEF WorkersTypeOK, Move, Generating, Writing

\* A worker that returns to claiming keeps the workers' memory well typed.
LEMMA DoneType ==
    ASSUME WorkersTypeOK, NEW w \in Workers, Done(w)
    PROVE  WorkersTypeOK'
  BY DEF WorkersTypeOK, Done, Generating, Writing

\* What each group of actions leaves alone.
LEMMA WorkersFrame ==
    ASSUME NEW j \in Jobs,
           \/ CreateJob(j) \/ StartJob(j) \/ StartJobFails(j) \/ AbandonRelease(j) \/ AbandonKill(j)
           \/ HeartbeatGoesStale(j) \/ StopJob(j) \/ RequestJobStop(j) \/ FinalizeAfterStop(j)
           \/ LoadSettlement(j) \/ SettleJob(j)
    PROVE  UNCHANGED workerVars
  BY DEF CreateJob, StartJob, StartJobFails, AbandonRelease, AbandonKill, HeartbeatGoesStale, StopJob,
         RequestJobStop, FinalizeAfterStop, LoadSettlement, SettleJob, workerVars

\* Every step keeps the workers' memory well typed.
LEMMA WorkersTypeStep == TypeOK /\ [Next]_vars => WorkersTypeOK'
  <1> SUFFICES ASSUME WorkersTypeOK, ItemsTypeOK, [Next]_vars PROVE WorkersTypeOK'
    BY DEF TypeOK
  <1>0. ASSUME UNCHANGED workerVars PROVE WorkersTypeOK'
    BY <1>0 DEF WorkersTypeOK, workerVars
  <1>1. ASSUME NEW w \in Workers, NEW i \in Items, ClaimNextItem(w, i) PROVE WorkersTypeOK'
    <2>1. NextAttempt(i) \in Nat
      BY DEF NextAttempt, ItemsTypeOK
    <2> QED
      BY <1>1, <2>1 DEF ClaimNextItem, attemptBudgetExceeded, WorkersTypeOK, Generating, Writing
  <1>2. ASSUME NEW w \in Workers, WorkerStep(w) PROVE WorkersTypeOK'
    <2>1. CASE LoadJob(w) \/ MarkRunning(w) \/ PrepareFails(w) \/ InvokeGateway(w)
      BY <2>1, MoveType DEF LoadJob, MarkRunning, PrepareFails, InvokeGateway, Generating, Writing
    <2>2. CASE GatewayReturns(w) \/ ShutdownCancels(w)
      BY <2>2, MoveType DEF GatewayReturns, ShutdownCancels, Generating, Writing
    <2>3. CASE WriteBack(w) \/ FinalizeJob(w)
      BY <2>3, MoveType, DoneType DEF WriteBack, FinalizeJob, Writing
    <2> QED
      BY <1>2, <2>1, <2>2, <2>3 DEF WorkerStep
  <1>3. ASSUME NEW w \in Workers,
               RenewItemLease(w) \/ LoadJobFails(w) \/ WriteBackFails(w) \/ FinalizeJobFails(w)
        PROVE  WorkersTypeOK'
    BY <1>3, <1>0, MoveType, DoneType
       DEF RenewItemLease, LoadJobFails, WriteBackFails, FinalizeJobFails, Writing
  <1>4. ASSUME NEW i \in Items, LeaseExpires(i) \/ RetryItem(i) PROVE WorkersTypeOK'
    BY <1>4, <1>0 DEF LeaseExpires, RetryItem
  <1>5. CASE Heartbeat \/ Reaping \/ PoolStop \/ ProcessStart
    BY <1>5, <1>0 DEF Heartbeat, Reaping, ReapStaleJobs, PoolStop, ProcessStart
  <1>6. CASE ProcessExit
    BY <1>6 DEF ProcessExit, WorkersTypeOK
  <1>7. CASE UNCHANGED vars
    BY <1>7, <1>0 DEF vars
  <1> QED
    BY <1>0, <1>1, <1>2, <1>3, <1>4, <1>5, <1>6, <1>7, WorkersFrame DEF Next

\* Every step keeps the image rows well typed.
LEMMA ItemsTypeStep == TypeOK /\ [Next]_vars => ItemsTypeOK'
  <1> SUFFICES ASSUME ItemsTypeOK, WorkersTypeOK, [Next]_vars PROVE ItemsTypeOK'
    BY DEF TypeOK
  <1> USE WorkersAssumption
  <1>0. ASSUME UNCHANGED itemVars PROVE ItemsTypeOK'
    BY <1>0 DEF ItemsTypeOK, itemVars
  <1>1. ASSUME NEW j \in Jobs, CreateJob(j) \/ RequestJobStop(j) PROVE ItemsTypeOK'
    BY <1>1 DEF CreateJob, RequestJobStop, ItemsTypeOK, AllItemStatuses
  <1>2. ASSUME NEW j \in Jobs,
               \/ StartJob(j) \/ StartJobFails(j) \/ AbandonRelease(j) \/ AbandonKill(j)
               \/ HeartbeatGoesStale(j) \/ StopJob(j) \/ FinalizeAfterStop(j)
               \/ LoadSettlement(j) \/ SettleJob(j)
        PROVE  ItemsTypeOK'
    BY <1>2, <1>0 DEF StartJob, StartJobFails, AbandonRelease, AbandonKill, HeartbeatGoesStale, StopJob,
                      FinalizeAfterStop, LoadSettlement, SettleJob
  <1>3. ASSUME NEW w \in Workers, NEW i \in Items, ClaimNextItem(w, i) PROVE ItemsTypeOK'
    BY <1>3 DEF ClaimNextItem, NextAttempt, NewOwner, ItemsTypeOK, AllItemStatuses
  <1>4. ASSUME NEW w \in Workers, WriteBack(w) PROVE ItemsTypeOK'
    BY <1>4 DEF WriteBack, CompleteItemSuccess, FailItem, RequeueItem, ItemsTypeOK, AllItemStatuses
  <1>5. ASSUME NEW w \in Workers,
               \/ LoadJob(w) \/ MarkRunning(w) \/ PrepareFails(w) \/ InvokeGateway(w)
               \/ GatewayReturns(w) \/ ShutdownCancels(w) \/ FinalizeJob(w)
               \/ LoadJobFails(w) \/ WriteBackFails(w) \/ FinalizeJobFails(w)
        PROVE  ItemsTypeOK'
    BY <1>5, <1>0 DEF LoadJob, MarkRunning, PrepareFails, InvokeGateway, GatewayReturns, ShutdownCancels,
                      FinalizeJob, LoadJobFails, WriteBackFails, FinalizeJobFails
  <1>6. ASSUME NEW w \in Workers, RenewItemLease(w) PROVE ItemsTypeOK'
    BY <1>6 DEF RenewItemLease, ItemsTypeOK
  <1>7. ASSUME NEW i \in Items, LeaseExpires(i) \/ RetryItem(i) PROVE ItemsTypeOK'
    BY <1>7 DEF LeaseExpires, RetryItem, ItemsTypeOK, AllItemStatuses
  <1>8. CASE Reaping
    BY <1>8 DEF Reaping, ReapStaleJobs, ItemsTypeOK, AllItemStatuses
  <1>9. CASE Heartbeat \/ PoolStop \/ ProcessExit \/ ProcessStart \/ UNCHANGED vars
    BY <1>9, <1>0 DEF Heartbeat, PoolStop, ProcessExit, ProcessStart, vars
  <1> QED
    BY <1>1, <1>2, <1>3, <1>4, <1>5, <1>6, <1>7, <1>8, <1>9 DEF Next, WorkerStep

\* Every step keeps the batch rows well typed, the counters included.
LEMMA JobsTypeStep == TypeOK /\ [Next]_vars => JobsTypeOK'
  <1> SUFFICES ASSUME JobsTypeOK, ItemsTypeOK, WorkersTypeOK, RequestsTypeOK, [Next]_vars PROVE JobsTypeOK'
    BY DEF TypeOK
  <1> USE JobOfAssumption
  <1>0. ASSUME UNCHANGED jobVars PROVE JobsTypeOK'
    BY <1>0 DEF JobsTypeOK, jobVars
  <1>a. ASSUME NEW w \in Workers, wpc[w] # "idle" PROVE WorkerJob(w) \in Jobs
    BY <1>a DEF WorkerJob, WorkersTypeOK
  <1>1. ASSUME NEW j \in Jobs, CreateJob(j) PROVE JobsTypeOK'
    BY <1>1 DEF CreateJob, JobsTypeOK, AllJobStatuses
  <1>2. ASSUME NEW j \in Jobs, StartJob(j) \/ StartJobFails(j) PROVE JobsTypeOK'
    BY <1>2 DEF StartJob, StartJobFails, Promote, NextStatus, JobsTypeOK, AllJobStatuses
  <1>3. ASSUME NEW j \in Jobs, AbandonRelease(j) \/ AbandonKill(j) PROVE JobsTypeOK'
    BY <1>3 DEF AbandonRelease, AbandonKill, ReleaseHold, JobsTypeOK, AllJobStatuses
  <1>4. ASSUME NEW j \in Jobs, HeartbeatGoesStale(j) PROVE JobsTypeOK'
    BY <1>4 DEF HeartbeatGoesStale, JobsTypeOK
  <1>5. ASSUME NEW j \in Jobs, RequestJobStop(j) PROVE JobsTypeOK'
    <2>1. Cardinality({i \in ItemsOf(j) : istatus[i] = "pending"}) \in Nat
      BY SubsetCardinality DEF ItemsOf
    <2> QED
      BY <1>5, <2>1 DEF RequestJobStop, JobsTypeOK, ItemTerminal
  <1>6. ASSUME NEW j \in Jobs, FinalizeAfterStop(j) PROVE JobsTypeOK'
    BY <1>6 DEF FinalizeAfterStop, Finalize, JobsTypeOK, AllJobStatuses
  <1>7. ASSUME NEW j \in Jobs, SettleJob(j) PROVE JobsTypeOK'
    <2>1. target[j] # "none" => target[j] \in AllJobStatuses
      BY DEF RequestsTypeOK, AllJobStatuses, JobTerminal
    <2>2. status' \in [Jobs -> AllJobStatuses \cup {"none"}] /\ settled' \subseteq Jobs /\ finished' \subseteq Jobs
      BY <1>7, <2>1 DEF SettleJob, JobsTypeOK
    <2>3. hold' \in [Jobs -> {"none", "open", "released"}]
      BY <1>7 DEF SettleJob, ReleaseHold, JobsTypeOK
    <2> QED
      BY <1>7, <2>2, <2>3 DEF SettleJob, JobsTypeOK
  <1>8. ASSUME NEW j \in Jobs, StopJob(j) \/ LoadSettlement(j) PROVE JobsTypeOK'
    BY <1>8, <1>0 DEF StopJob, LoadSettlement
  <1>9. ASSUME NEW w \in Workers, LoadJob(w) \/ MarkRunning(w) PROVE JobsTypeOK'
    BY <1>9, <1>a DEF LoadJob, MarkRunning, JobsTypeOK, AllJobStatuses
  <1>10. ASSUME NEW w \in Workers, WriteBack(w) PROVE JobsTypeOK'
    <2>1. WorkerJob(w) \in Jobs
      BY <1>10, <1>a DEF WriteBack, Writing
    <2>2. CASE CompleteItemSuccess(w)
      BY <1>10, <2>1, <2>2 DEF WriteBack, CompleteItemSuccess, JobsTypeOK, ItemTerminal
    <2>3. CASE FailItem(w)
      BY <1>10, <2>1, <2>3 DEF WriteBack, FailItem, JobsTypeOK, ItemTerminal
    <2>4. CASE UNCHANGED <<count, staleBeat>>
      BY <1>10, <2>4 DEF WriteBack, JobsTypeOK
    <2> QED
      BY <1>10, <2>2, <2>3, <2>4 DEF WriteBack, RequeueItem
  <1>11. ASSUME NEW w \in Workers, FinalizeJob(w) PROVE JobsTypeOK'
    BY <1>11, <1>a DEF FinalizeJob, Finalize, JobsTypeOK, AllJobStatuses
  <1>12. ASSUME NEW w \in Workers,
                \/ PrepareFails(w) \/ InvokeGateway(w) \/ GatewayReturns(w) \/ ShutdownCancels(w)
                \/ RenewItemLease(w) \/ LoadJobFails(w) \/ WriteBackFails(w) \/ FinalizeJobFails(w)
                \/ \E i \in Items : ClaimNextItem(w, i)
         PROVE  JobsTypeOK'
    BY <1>12, <1>0 DEF PrepareFails, InvokeGateway, GatewayReturns, ShutdownCancels, RenewItemLease,
                       LoadJobFails, WriteBackFails, FinalizeJobFails, ClaimNextItem
  <1>13. ASSUME NEW i \in Items, LeaseExpires(i) PROVE JobsTypeOK'
    BY <1>13, <1>0 DEF LeaseExpires
  <1>14. ASSUME NEW i \in Items, RetryItem(i) PROVE JobsTypeOK'
    <2>1. AdjustCount(count[JobOf[i]], istatus[i]) \in [ItemTerminal -> Nat]
      BY AdjustCountType DEF JobsTypeOK
    <2> QED
      BY <1>14, <2>1 DEF RetryItem, JobsTypeOK, AllJobStatuses
  <1>15. CASE Heartbeat
    BY <1>15 DEF Heartbeat, JobsTypeOK
  <1>16. ASSUME NEW dead \in SUBSET DeadPending, NEW stale \in SUBSET staleBeat, NEW stuck \in SUBSET Jobs,
                ReapStaleJobs(dead, stale, stuck)
         PROVE  JobsTypeOK'
    <2>1. \A S \in SUBSET Items, j \in Jobs : Tally(S, j) \in Nat
      BY SubsetCardinality DEF Tally
    <2>2. \A j \in Jobs : \A b : TerminalJobStatus(ItemCount(j), count'[j], b) \in JobTerminal
      BY TerminalJobStatusType
    <2>3. dead \in SUBSET Items
      BY DEF DeadPending
    <2>4. count' \in [Jobs -> [ItemTerminal -> Nat]]
      <3> DEFINE cut  == {i \in Items \ dead : JobOf[i] \in stale /\ istatus[i] = "pending"}
                 lost == {i \in Items : JobOf[i] \in stale /\ istatus[i] = "running"}
                 extra(j, s) == CASE s = "failed"    -> Tally(dead \cup lost, j)
                                  [] s = "cancelled" -> Tally(cut, j)
                                  [] OTHER           -> 0
      <3>1. \A j \in Jobs : \A s \in ItemTerminal : extra(j, s) \in Nat
        BY <2>1, <2>3 DEF ItemTerminal
      <3>2. count' = [j \in Jobs |-> [s \in ItemTerminal |-> count[j][s] + extra(j, s)]]
        BY <1>16 DEF ReapStaleJobs
      <3> HIDE DEF extra
      <3> QED
        BY <3>1, <3>2 DEF JobsTypeOK
    <2>5. status' \in [Jobs -> AllJobStatuses \cup {"none"}]
      BY <1>16, <2>2 DEF ReapStaleJobs, JobsTypeOK, AllJobStatuses, JobTerminal
    <2>6. SweptOut(dead) \subseteq Jobs
      BY <2>3 DEF SweptOut
    <2> QED
      BY <1>16, <2>4, <2>5, <2>6 DEF ReapStaleJobs, JobsTypeOK
  <1>17. CASE PoolStop \/ ProcessExit \/ ProcessStart \/ UNCHANGED vars
    BY <1>17, <1>0 DEF PoolStop, ProcessExit, ProcessStart, vars
  <1> QED
    BY <1>1, <1>2, <1>3, <1>4, <1>5, <1>6, <1>7, <1>8, <1>9, <1>10, <1>11, <1>12, <1>13, <1>14, <1>15,
       <1>16, <1>17 DEF Next, WorkerStep, Reaping

\* Every step keeps the requests and the environment well typed.
LEMMA RequestsTypeStep == TypeOK /\ [Next]_vars => RequestsTypeOK'
  <1> SUFFICES ASSUME RequestsTypeOK, WorkersTypeOK, [Next]_vars PROVE RequestsTypeOK'
    BY DEF TypeOK
  <1> USE DEF RequestsTypeOK, requestVars, envVars
  <1>1. ASSUME NEW j \in Jobs, CreateJob(j) \/ StartJob(j) \/ StartJobFails(j) PROVE RequestsTypeOK'
    BY <1>1 DEF CreateJob, StartJob, StartJobFails, SubmitFault, NextStatus
  <1>2. ASSUME NEW j \in Jobs, AbandonRelease(j) \/ AbandonKill(j) PROVE RequestsTypeOK'
    BY <1>2 DEF AbandonRelease, AbandonKill, SubmitFault
  <1>3. ASSUME NEW j \in Jobs,
               HeartbeatGoesStale(j) \/ StopJob(j) \/ RequestJobStop(j) \/ FinalizeAfterStop(j)
        PROVE  RequestsTypeOK'
    BY <1>3 DEF HeartbeatGoesStale, StopJob, RequestJobStop, FinalizeAfterStop, Disrupt
  <1>4. ASSUME NEW j \in Jobs, LoadSettlement(j) PROVE RequestsTypeOK'
    BY <1>4, TerminalJobStatusType DEF LoadSettlement
  <1>5. ASSUME NEW j \in Jobs, SettleJob(j) PROVE RequestsTypeOK'
    BY <1>5 DEF SettleJob, Disrupt
  <1>6. ASSUME NEW w \in Workers, InvokeGateway(w) PROVE RequestsTypeOK'
    BY <1>6 DEF InvokeGateway, WorkersTypeOK
  <1>7. ASSUME NEW w \in Workers, LoadJob(w) \/ MarkRunning(w) \/ PrepareFails(w) \/ GatewayReturns(w)
        PROVE  RequestsTypeOK'
    BY <1>7 DEF LoadJob, MarkRunning, PrepareFails, GatewayReturns, Disrupt
  <1>8. ASSUME NEW w \in Workers, ShutdownCancels(w) \/ WriteBack(w) \/ FinalizeJob(w) \/ RenewItemLease(w)
        PROVE  RequestsTypeOK'
    BY <1>8 DEF ShutdownCancels, WriteBack, FinalizeJob, RenewItemLease
  <1>9. ASSUME NEW w \in Workers,
               \/ LoadJobFails(w) \/ WriteBackFails(w) \/ FinalizeJobFails(w)
               \/ \E i \in Items : ClaimNextItem(w, i)
        PROVE  RequestsTypeOK'
    BY <1>9 DEF LoadJobFails, WriteBackFails, FinalizeJobFails, ClaimNextItem, Disrupt
  <1>10. ASSUME NEW i \in Items, LeaseExpires(i) \/ RetryItem(i) PROVE RequestsTypeOK'
    BY <1>10 DEF LeaseExpires, RetryItem, Disrupt
  <1>11. CASE Heartbeat \/ Reaping
    BY <1>11 DEF Heartbeat, Reaping, ReapStaleJobs
  <1>12. CASE PoolStop \/ ProcessExit \/ ProcessStart \/ UNCHANGED vars
    BY <1>12 DEF PoolStop, ProcessExit, ProcessStart, Disrupt, Abandoned, vars
  <1> QED
    BY <1>1, <1>2, <1>3, <1>4, <1>5, <1>6, <1>7, <1>8, <1>9, <1>10, <1>11, <1>12 DEF Next, WorkerStep

\* The four parts together.
LEMMA TypeStep == TypeOK /\ [Next]_vars => TypeOK'
  BY JobsTypeStep, ItemsTypeStep, WorkersTypeStep, RequestsTypeStep DEF TypeOK

\* Every reachable state is well typed, whatever the numbers of batches, images and workers.
THEOREM TypeCorrect == Spec => []TypeOK
  BY TypeInit, TypeStep, PTL DEF Spec

-----------------------------------------------------------------------------
(***************************************************************************)
(* The lease protocol of the item queue: no late result passes the         *)
(* write-back guard, no billing id is used twice, no image exceeds its     *)
(* attempts.  None of the three is inductive by itself; LeaseInv is.       *)
(***************************************************************************)

\* A worker that holds a claim it has not written back yet.
Busy(w) == wpc[w] \in Generating \cup Writing

\* A worker that has not called the gateway yet.
Early(w) == wpc[w] \in {"claimed", "starting", "preparing"}

\* A claim carries a number the row has reached, and a gateway call stays in the budget.
ClaimsNumbered ==
    \A w \in Workers : Busy(w) => /\ wattempt[w] >= 1
                                  /\ wattempt[w] <= attempt[witem[w]]
                                  /\ wpc[w] \in Generating => wattempt[w] <= MaxAttempts

\* Two workers on one image (the lease of the first ran out) hold different attempts.
ClaimsDistinct ==
    \A v, w \in Workers :
        v # w /\ Busy(v) /\ Busy(w) /\ witem[v] = witem[w] => wattempt[v] # wattempt[w]

\* Images come into being with their batch, with no attempt spent.
RowsBornTogether ==
    \A i \in Items : status[JobOf[i]] = "none" => istatus[i] = "none" /\ attempt[i] = 0

\* The inductive invariant.
LeaseInv ==
    /\ ClaimsNumbered
    /\ ClaimsDistinct
    /\ GuardImpliesLatestAttempt
    /\ FreshBillingId
    /\ CallsWithinBudget
    /\ RowsBornTogether
    /\ NoDeadPending

-----------------------------------------------------------------------------
(* What a step can do to the rows and the workers                          *)

\* No worker but one that claims starts work; the others go on or let go.
WorkersShrink ==
    \A w \in Workers :
        Busy(w)' => /\ Busy(w)
                    /\ witem'[w] = witem[w] /\ wattempt'[w] = wattempt[w]
                    /\ wpc'[w] \in Generating => wpc[w] \in Generating
                    /\ Early(w)' => Early(w)

\* No image but a claimed one becomes running, changes its worker or its attempt.
RowsShrink ==
    /\ attempt' = attempt
    /\ \A i \in Items : istatus'[i] = "running" => istatus[i] = "running" /\ owner'[i] = owner[i]

\* An image goes back to the queue only with attempts left, and no batch disappears.
QueueSound ==
    /\ \A i \in Items : istatus'[i] = "pending" => istatus[i] = "pending" \/ attempt[i] < MaxAttempts
    /\ \A i \in Items : status'[JobOf[i]] = "none" => status[JobOf[i]] = "none" /\ istatus'[i] = istatus[i]

\* The two ways a worker moves on.
LEMMA MoveShrinks ==
    ASSUME WorkersTypeOK, NEW w \in Workers, NEW pc, Move(w, pc), Busy(w),
           pc \in Generating => wpc[w] \in Generating,
           pc \in {"claimed", "starting", "preparing"} => Early(w)
    PROVE  WorkersShrink
  BY DEF WorkersTypeOK, Move, WorkersShrink, Busy, Early

\* handleItem returns.
LEMMA DoneShrinks ==
    ASSUME WorkersTypeOK, NEW w \in Workers, Done(w)
    PROVE  WorkersShrink
  BY DEF WorkersTypeOK, Done, WorkersShrink, Busy, Early, Generating, Writing

\* A result is written back and the worker goes on to FinalizeJob.
LEMMA FinalizingShrinks ==
    ASSUME WorkersTypeOK, NEW w \in Workers, Move(w, "finalizing")
    PROVE  WorkersShrink
  BY DEF WorkersTypeOK, Move, WorkersShrink, Busy, Early, Generating, Writing

\* Every step but a claim.
Claims == \E w \in Workers : \E i \in Items : ClaimNextItem(w, i)

\* No step but a claim gives a worker work.
LEMMA WorkersShrinkStep ==
    ASSUME TypeOK, [Next]_vars, ~Claims
    PROVE  WorkersShrink
  <1> USE DEF TypeOK
  <1>0. ASSUME UNCHANGED workerVars PROVE WorkersShrink
    BY <1>0 DEF WorkersShrink, workerVars, Busy, Early
  <1>1. ASSUME NEW w \in Workers, WorkerStep(w) PROVE WorkersShrink
    <2>1. CASE LoadJob(w)
      BY <2>1, MoveShrinks DEF LoadJob, Busy, Early, Generating
    <2>2. CASE MarkRunning(w)
      BY <2>2, MoveShrinks DEF MarkRunning, Busy, Early, Generating
    <2>3. CASE PrepareFails(w)
      BY <2>3, MoveShrinks DEF PrepareFails, Busy, Early, Generating
    <2>4. CASE InvokeGateway(w)
      BY <2>4, MoveShrinks DEF InvokeGateway, Busy, Early, Generating
    <2>5. CASE GatewayReturns(w)
      BY <2>5, MoveShrinks DEF GatewayReturns, Busy, Early, Generating, Writing
    <2>6. CASE ShutdownCancels(w)
      BY <2>6, MoveShrinks DEF ShutdownCancels, Busy, Early, Generating
    <2>7. CASE WriteBack(w) \/ FinalizeJob(w)
      BY <2>7, DoneShrinks, FinalizingShrinks DEF WriteBack, FinalizeJob
    <2> QED
      BY <1>1, <2>1, <2>2, <2>3, <2>4, <2>5, <2>6, <2>7 DEF WorkerStep
  <1>2. ASSUME NEW w \in Workers, LoadJobFails(w) PROVE WorkersShrink
    BY <1>2, MoveShrinks DEF LoadJobFails, Busy, Early, Generating
  <1>3. ASSUME NEW w \in Workers, RenewItemLease(w) \/ WriteBackFails(w) \/ FinalizeJobFails(w)
        PROVE  WorkersShrink
    BY <1>3, <1>0, DoneShrinks DEF RenewItemLease, WriteBackFails, FinalizeJobFails
  <1>4. ASSUME NEW i \in Items, LeaseExpires(i) \/ RetryItem(i) PROVE WorkersShrink
    BY <1>4, <1>0 DEF LeaseExpires, RetryItem
  <1>5. CASE Heartbeat \/ Reaping \/ PoolStop \/ ProcessStart \/ UNCHANGED vars
    BY <1>5, <1>0 DEF Heartbeat, Reaping, ReapStaleJobs, PoolStop, ProcessStart, vars
  <1>6. CASE ProcessExit
    BY <1>6 DEF ProcessExit, WorkersShrink, Busy, Generating, Writing
  <1> QED
    BY <1>0, <1>1, <1>2, <1>3, <1>4, <1>5, <1>6, WorkersFrame DEF Next, Claims

\* No step but a claim makes an image running or moves its attempt number.
LEMMA RowsShrinkStep ==
    ASSUME TypeOK, [Next]_vars, ~Claims
    PROVE  RowsShrink
  <1> USE DEF TypeOK
  <1>0. ASSUME UNCHANGED <<istatus, owner, attempt>> PROVE RowsShrink
    BY <1>0 DEF RowsShrink
  <1>1. ASSUME NEW j \in Jobs, CreateJob(j) \/ RequestJobStop(j) PROVE RowsShrink
    BY <1>1 DEF CreateJob, RequestJobStop, RowsShrink
  <1>2. ASSUME NEW j \in Jobs,
               \/ StartJob(j) \/ StartJobFails(j) \/ AbandonRelease(j) \/ AbandonKill(j)
               \/ HeartbeatGoesStale(j) \/ StopJob(j) \/ FinalizeAfterStop(j)
               \/ LoadSettlement(j) \/ SettleJob(j)
        PROVE  RowsShrink
    BY <1>2, <1>0 DEF StartJob, StartJobFails, AbandonRelease, AbandonKill, HeartbeatGoesStale, StopJob,
                      FinalizeAfterStop, LoadSettlement, SettleJob, itemVars
  <1>3. ASSUME NEW w \in Workers, WriteBack(w) PROVE RowsShrink
    BY <1>3 DEF WriteBack, CompleteItemSuccess, FailItem, RequeueItem, RowsShrink, ItemsTypeOK
  <1>4. ASSUME NEW w \in Workers,
               \/ LoadJob(w) \/ MarkRunning(w) \/ PrepareFails(w) \/ InvokeGateway(w)
               \/ GatewayReturns(w) \/ ShutdownCancels(w) \/ FinalizeJob(w) \/ RenewItemLease(w)
               \/ LoadJobFails(w) \/ WriteBackFails(w) \/ FinalizeJobFails(w)
        PROVE  RowsShrink
    BY <1>4, <1>0 DEF LoadJob, MarkRunning, PrepareFails, InvokeGateway, GatewayReturns, ShutdownCancels,
                      FinalizeJob, RenewItemLease, LoadJobFails, WriteBackFails, FinalizeJobFails, itemVars
  <1>5. ASSUME NEW i \in Items, LeaseExpires(i) \/ RetryItem(i) PROVE RowsShrink
    BY <1>5 DEF LeaseExpires, RetryItem, RowsShrink, ItemsTypeOK
  <1>6. CASE Reaping
    BY <1>6 DEF Reaping, ReapStaleJobs, RowsShrink
  <1>7. CASE Heartbeat \/ PoolStop \/ ProcessExit \/ ProcessStart \/ UNCHANGED vars
    BY <1>7, <1>0 DEF Heartbeat, PoolStop, ProcessExit, ProcessStart, vars, itemVars
  <1> QED
    BY <1>1, <1>2, <1>3, <1>4, <1>5, <1>6, <1>7 DEF Next, WorkerStep, Claims

\* Only InvokeGateway calls the gateway.
LEMMA CalledFrame ==
    ASSUME [Next]_vars
    PROVE  called' = called \/ \E w \in Workers : InvokeGateway(w)
  <1> USE DEF envVars
  <1>1. ASSUME NEW j \in Jobs,
               \/ CreateJob(j) \/ StartJob(j) \/ StartJobFails(j) \/ AbandonRelease(j) \/ AbandonKill(j)
               \/ HeartbeatGoesStale(j) \/ StopJob(j) \/ RequestJobStop(j) \/ FinalizeAfterStop(j)
               \/ LoadSettlement(j) \/ SettleJob(j)
        PROVE  called' = called
    BY <1>1 DEF CreateJob, StartJob, StartJobFails, AbandonRelease, AbandonKill, HeartbeatGoesStale, StopJob,
                RequestJobStop, FinalizeAfterStop, LoadSettlement, SettleJob
  <1>2. ASSUME NEW w \in Workers,
               \/ LoadJob(w) \/ MarkRunning(w) \/ PrepareFails(w) \/ GatewayReturns(w)
               \/ ShutdownCancels(w) \/ WriteBack(w) \/ FinalizeJob(w) \/ RenewItemLease(w)
               \/ LoadJobFails(w) \/ WriteBackFails(w) \/ FinalizeJobFails(w)
               \/ \E i \in Items : ClaimNextItem(w, i)
        PROVE  called' = called
    BY <1>2 DEF LoadJob, MarkRunning, PrepareFails, GatewayReturns, ShutdownCancels, WriteBack, FinalizeJob,
                RenewItemLease, LoadJobFails, WriteBackFails, FinalizeJobFails, ClaimNextItem
  <1>3. ASSUME NEW i \in Items, LeaseExpires(i) \/ RetryItem(i) PROVE called' = called
    BY <1>3 DEF LeaseExpires, RetryItem
  <1>4. CASE Heartbeat \/ Reaping \/ PoolStop \/ ProcessExit \/ ProcessStart \/ UNCHANGED vars
    BY <1>4 DEF Heartbeat, Reaping, ReapStaleJobs, PoolStop, ProcessExit, ProcessStart, vars
  <1> QED
    BY <1>1, <1>2, <1>3, <1>4 DEF Next, WorkerStep

\* No step but a claim puts an image into the queue beyond its budget.
LEMMA QueueSoundStep ==
    ASSUME TypeOK, LeaseInv, [Next]_vars, ~Claims
    PROVE  QueueSound
  <1> USE JobOfAssumption, MaxAttemptsAssumption DEF TypeOK
  <1>0. ASSUME UNCHANGED <<status, istatus>> PROVE QueueSound
    BY <1>0 DEF QueueSound
  <1>1. ASSUME NEW j \in Jobs, CreateJob(j) PROVE QueueSound
    BY <1>1 DEF CreateJob, QueueSound, LeaseInv, RowsBornTogether, JobsTypeOK
  <1>2. ASSUME NEW j \in Jobs, RequestJobStop(j) PROVE QueueSound
    BY <1>2 DEF RequestJobStop, QueueSound, LeaseInv, RowsBornTogether
  <1>3. ASSUME NEW j \in Jobs, StartJob(j) \/ StartJobFails(j) \/ AbandonKill(j) PROVE QueueSound
    BY <1>3 DEF StartJob, StartJobFails, AbandonKill, Promote, NextStatus, QueueSound, JobsTypeOK, itemVars
  <1>4. ASSUME NEW j \in Jobs, FinalizeAfterStop(j) PROVE QueueSound
    BY <1>4 DEF FinalizeAfterStop, Finalize, QueueSound, JobsTypeOK, itemVars
  <1>5. ASSUME NEW j \in Jobs, SettleJob(j) PROVE QueueSound
    BY <1>5 DEF SettleJob, QueueSound, JobsTypeOK, itemVars
  <1>6. ASSUME NEW j \in Jobs, AbandonRelease(j) \/ HeartbeatGoesStale(j) \/ StopJob(j) \/ LoadSettlement(j)
        PROVE  QueueSound
    BY <1>6, <1>0 DEF AbandonRelease, HeartbeatGoesStale, StopJob, LoadSettlement, itemVars, jobVars
  <1>7. ASSUME NEW w \in Workers, WriteBack(w) PROVE QueueSound
    <2>1. witem[w] \in Items
      BY <1>7 DEF WriteBack, Writing, WorkersTypeOK
    <2>2. Owns(w) /\ Requeues(w) => attempt[witem[w]] < MaxAttempts
      BY <1>7, <2>1 DEF WriteBack, Requeues, attemptBudgetExhausted, LeaseInv, GuardImpliesLatestAttempt,
                        WorkersTypeOK, ItemsTypeOK
    <2>3. \A i \in Items : istatus'[i] = "pending" => istatus[i] = "pending" \/ attempt[i] < MaxAttempts
      BY <1>7, <2>1, <2>2 DEF WriteBack, CompleteItemSuccess, FailItem, RequeueItem, ItemsTypeOK
    <2>4. \A i \in Items : istatus[i] # "running" => istatus'[i] = istatus[i]
      BY <1>7, <2>1 DEF WriteBack, Owns, CompleteItemSuccess, FailItem, RequeueItem, ItemsTypeOK
    <2> QED
      BY <1>7, <2>3, <2>4 DEF WriteBack, QueueSound, LeaseInv, RowsBornTogether
  <1>8. ASSUME NEW w \in Workers, MarkRunning(w) PROVE QueueSound
    BY <1>8 DEF MarkRunning, QueueSound, JobsTypeOK, itemVars
  <1>9. ASSUME NEW w \in Workers, FinalizeJob(w) PROVE QueueSound
    BY <1>9 DEF FinalizeJob, Finalize, QueueSound, JobsTypeOK, itemVars
  <1>10. ASSUME NEW w \in Workers,
               \/ LoadJob(w) \/ PrepareFails(w) \/ InvokeGateway(w)
               \/ GatewayReturns(w) \/ ShutdownCancels(w) \/ RenewItemLease(w)
               \/ LoadJobFails(w) \/ WriteBackFails(w) \/ FinalizeJobFails(w)
        PROVE  QueueSound
    BY <1>10, <1>0 DEF LoadJob, PrepareFails, InvokeGateway, GatewayReturns, ShutdownCancels,
                       RenewItemLease, LoadJobFails, WriteBackFails, FinalizeJobFails, itemVars, jobVars
  <1>11. ASSUME NEW i \in Items, LeaseExpires(i) PROVE QueueSound
    BY <1>11, <1>0 DEF LeaseExpires, jobVars
  <1>12. ASSUME NEW i \in Items, RetryItem(i) PROVE QueueSound
    <2>1. status[JobOf[i]] # "none"
      BY <1>12 DEF RetryItem, RetryAllowed, JobTerminal
    <2> QED
      BY <1>12, <2>1 DEF RetryItem, Retryable, QueueSound, ItemsTypeOK, JobsTypeOK
  <1>13. ASSUME NEW dead \in SUBSET DeadPending, NEW stale \in SUBSET staleBeat, NEW stuck \in SUBSET Jobs,
                ReapStaleJobs(dead, stale, stuck)
         PROVE  QueueSound
    <2>1. \A i \in Items : istatus'[i] = "pending" => istatus[i] = "pending"
      BY <1>13 DEF ReapStaleJobs
    <2>2. \A j \in Jobs : status'[j] = "none" => status[j] = "none" /\ j \notin stale
      BY <1>13, TerminalJobStatusType DEF ReapStaleJobs, JobTerminal
    <2>3. \A i \in Items : istatus[i] = "none" => istatus'[i] = "none"
      BY <1>13 DEF ReapStaleJobs, DeadPending
    <2> QED
      BY <2>1, <2>2, <2>3 DEF QueueSound, LeaseInv, RowsBornTogether
  <1>14. CASE Heartbeat \/ PoolStop \/ ProcessExit \/ ProcessStart \/ UNCHANGED vars
    BY <1>14, <1>0 DEF Heartbeat, PoolStop, ProcessExit, ProcessStart, vars, itemVars, jobVars
  <1> QED
    BY <1>1, <1>2, <1>3, <1>4, <1>5, <1>6, <1>7, <1>8, <1>9, <1>10, <1>11, <1>12, <1>13, <1>14
       DEF Next, WorkerStep, Claims, Reaping

-----------------------------------------------------------------------------
(* The invariant                                                           *)

\* The lease invariant holds at the start.
LEMMA LeaseInit == Init => LeaseInv
  BY MaxAttemptsAssumption, JobOfAssumption
     DEF Init, LeaseInv, ClaimsNumbered, ClaimsDistinct, GuardImpliesLatestAttempt, FreshBillingId,
         CallsWithinBudget, RowsBornTogether, NoDeadPending, Busy, Generating, Writing

\* A claim takes the next number, one that no worker holds and no gateway call has used.
LEMMA LeaseClaim ==
    ASSUME TypeOK, LeaseInv, NEW w \in Workers, NEW i \in Items, ClaimNextItem(w, i)
    PROVE  LeaseInv'
  <1> USE MaxAttemptsAssumption, JobOfAssumption DEF TypeOK
  <1>1. /\ attempt[i] \in Nat
        /\ attempt'[i] = attempt[i] + 1
        /\ \A k \in Items : k # i => attempt'[k] = attempt[k] /\ istatus'[k] = istatus[k] /\ owner'[k] = owner[k]
        /\ istatus'[i] = "running" /\ owner'[i] = w
        /\ called' = called /\ status' = status
    BY DEF ClaimNextItem, NextAttempt, NewOwner, ItemsTypeOK, jobVars, envVars
  <1>2. /\ witem'[w] = i /\ wattempt'[w] = attempt[i] + 1
        /\ wpc'[w] \in {"claimed", "final"}
        /\ wpc'[w] = "claimed" => wattempt'[w] <= MaxAttempts
        /\ \A v \in Workers : v # w => wpc'[v] = wpc[v] /\ witem'[v] = witem[v] /\ wattempt'[v] = wattempt[v]
    BY <1>1 DEF ClaimNextItem, NextAttempt, attemptBudgetExceeded, WorkersTypeOK
  <1>3. \A v \in Workers : Busy(v) => witem[v] \in Items
    BY DEF Busy, WorkersTypeOK, Generating, Writing
  <1>4. ClaimsNumbered'
    <2> SUFFICES ASSUME NEW v \in Workers, Busy(v)'
                 PROVE  /\ wattempt'[v] >= 1
                        /\ wattempt'[v] <= attempt'[witem'[v]]
                        /\ wpc'[v] \in Generating => wattempt'[v] <= MaxAttempts
      BY DEF ClaimsNumbered
    <2>1. CASE v = w
      BY <2>1, <1>1, <1>2 DEF Generating
    <2>2. CASE v # w
      <3>1. Busy(v)
        BY <2>2, <1>2 DEF Busy
      <3> QED
        BY <2>2, <3>1, <1>1, <1>2, <1>3 DEF LeaseInv, ClaimsNumbered, ItemsTypeOK, WorkersTypeOK
    <2> QED
      BY <2>1, <2>2
  <1>5. ClaimsDistinct'
    <2>1. \A v \in Workers : v # w /\ Busy(v)' /\ witem'[v] = i => wattempt'[v] < wattempt'[w]
      BY <1>1, <1>2 DEF LeaseInv, ClaimsNumbered, Busy, WorkersTypeOK
    <2>2. \A v \in Workers : wattempt'[v] \in Nat
      BY <1>1, <1>2 DEF WorkersTypeOK
    <2>3. \A u, v \in Workers : u # w /\ v # w /\ u # v /\ Busy(u)' /\ Busy(v)' /\ witem'[u] = witem'[v]
                                => wattempt'[u] # wattempt'[v]
      BY <1>2 DEF LeaseInv, ClaimsDistinct, Busy
    <2> QED
      BY <1>2, <2>1, <2>2, <2>3 DEF ClaimsDistinct
  <1>6. GuardImpliesLatestAttempt'
    <2>1. \A v \in Workers : v # w /\ Busy(v)' /\ Owns(v)' => wattempt'[v] = attempt'[witem'[v]]
      BY <1>1, <1>2, <1>3 DEF LeaseInv, GuardImpliesLatestAttempt, Busy, Owns
    <2> QED
      BY <1>1, <1>2, <2>1 DEF GuardImpliesLatestAttempt, Busy
  <1>7. CallsWithinBudget'
    BY <1>1 DEF LeaseInv, CallsWithinBudget, ItemsTypeOK, RequestsTypeOK
  <1>8. FreshBillingId'
    <2>1. <<i, attempt[i] + 1>> \notin called
      BY <1>1 DEF LeaseInv, CallsWithinBudget
    <2> QED
      BY <1>1, <1>2, <2>1 DEF LeaseInv, FreshBillingId
  <1>9. RowsBornTogether' /\ NoDeadPending'
    <2>1. istatus[i] # "none"
      BY DEF ClaimNextItem, Claimable
    <2> QED
      BY <1>1, <2>1 DEF LeaseInv, RowsBornTogether, NoDeadPending
  <1> QED
    BY <1>4, <1>5, <1>6, <1>7, <1>8, <1>9 DEF LeaseInv

\* Every other step only lets go of work; one of them calls the gateway.
LEMMA LeaseOther ==
    ASSUME TypeOK, LeaseInv, [Next]_vars, ~Claims
    PROVE  LeaseInv'
  <1> USE MaxAttemptsAssumption, JobOfAssumption DEF TypeOK
  <1>1. WorkersShrink /\ RowsShrink /\ QueueSound
    BY WorkersShrinkStep, RowsShrinkStep, QueueSoundStep
  <1>2. \A v \in Workers : Busy(v) => witem[v] \in Items
    BY DEF Busy, WorkersTypeOK, Generating, Writing
  <1>3. ClaimsNumbered'
    BY <1>1 DEF WorkersShrink, RowsShrink, LeaseInv, ClaimsNumbered
  <1>4. ClaimsDistinct'
    BY <1>1 DEF WorkersShrink, LeaseInv, ClaimsDistinct
  <1>5. GuardImpliesLatestAttempt'
    BY <1>1, <1>2 DEF WorkersShrink, RowsShrink, LeaseInv, GuardImpliesLatestAttempt, Busy, Owns
  <1>6. CallsWithinBudget' /\ FreshBillingId'
    <2>1. CASE \E w \in Workers : InvokeGateway(w)
      <3> PICK w \in Workers : InvokeGateway(w)
        BY <2>1
      <3>1. /\ called' = called \cup {<<witem[w], wattempt[w]>>}
            /\ Busy(w) /\ wpc[w] \in Generating /\ ~Early(w)'
            /\ \A v \in Workers : v # w => wpc'[v] = wpc[v]
        BY DEF InvokeGateway, Move, Busy, Early, Generating, WorkersTypeOK
      <3>2. CallsWithinBudget'
        BY <1>1, <3>1 DEF RowsShrink, LeaseInv, CallsWithinBudget, ClaimsNumbered, WorkersTypeOK
      <3>3. ASSUME NEW v \in Workers, Early(v)' PROVE <<witem'[v], wattempt'[v]>> \notin called'
        <4>1. v # w /\ Early(v) /\ Busy(v) /\ witem'[v] = witem[v] /\ wattempt'[v] = wattempt[v]
          BY <1>1, <3>1, <3>3 DEF WorkersShrink, Busy, Early, Generating
        <4>2. <<witem[v], wattempt[v]>> \notin called
          BY <4>1 DEF LeaseInv, FreshBillingId, Early
        <4>3. <<witem[v], wattempt[v]>> # <<witem[w], wattempt[w]>>
          BY <4>1, <3>1 DEF LeaseInv, ClaimsDistinct
        <4> QED
          BY <3>1, <4>1, <4>2, <4>3
      <3> QED
        BY <3>2, <3>3 DEF FreshBillingId, Early
    <2>2. CASE called' = called
      <3>1. CallsWithinBudget'
        BY <1>1, <2>2 DEF RowsShrink, LeaseInv, CallsWithinBudget
      <3>2. FreshBillingId'
        BY <1>1, <2>2 DEF WorkersShrink, LeaseInv, FreshBillingId, Busy, Early, Generating
      <3> QED
        BY <3>1, <3>2
    <2> QED
      BY <2>1, <2>2, CalledFrame
  <1>7. RowsBornTogether' /\ NoDeadPending'
    BY <1>1 DEF RowsShrink, QueueSound, LeaseInv, RowsBornTogether, NoDeadPending
  <1> QED
    BY <1>3, <1>4, <1>5, <1>6, <1>7 DEF LeaseInv

\* The lease invariant is inductive, given the types.
LEMMA LeaseStep == TypeOK /\ LeaseInv /\ [Next]_vars => LeaseInv'
  BY LeaseClaim, LeaseOther DEF Claims

\* The lease invariant holds in every reachable state.
LEMMA LeaseInvariant == Spec => []LeaseInv
  BY LeaseInit, LeaseStep, TypeCorrect, PTL DEF Spec

\* Whatever the number of workers, crashes and lost leases: a worker that passes the
\* write-back guard holds the latest attempt.
THEOREM GuardIsEnough == Spec => []GuardImpliesLatestAttempt
  BY LeaseInvariant, PTL DEF LeaseInv

\* No billing id goes to the gateway twice.
THEOREM BillingIdsFresh == Spec => []FreshBillingId
  BY LeaseInvariant, PTL DEF LeaseInv

\* An image reaches the gateway at most MaxAttempts times, under the ids settlement looks for.
THEOREM CallsBounded == Spec => []CallsWithinBudget
  BY LeaseInvariant, PTL DEF LeaseInv

\* No image is left pending with its attempts used up.
THEOREM NoImageStranded == Spec => []NoDeadPending
  BY LeaseInvariant, PTL DEF LeaseInv

-----------------------------------------------------------------------------
(***************************************************************************)
(* The counters of a batch are adjusted by write-backs, stop requests,     *)
(* retries and the reaper, each in the transaction that changes the image  *)
(* rows.  They never drift: CountersMatchItems is inductive on top of the  *)
(* type invariant and RowsBornTogether.                                    *)
(***************************************************************************)

\* Disjoint groups of images add up.
LEMMA DisjointUnion ==
    ASSUME NEW A \in SUBSET Items, NEW B \in SUBSET Items, A \cap B = {}
    PROVE  Cardinality(A \cup B) = Cardinality(A) + Cardinality(B)
  <1>1. IsFiniteSet(A) /\ IsFiniteSet(B) /\ Cardinality(A) \in Nat /\ Cardinality(B) \in Nat
    BY SubsetCardinality
  <1>2. Cardinality(A \cap B) = 0
    BY FS_EmptySet
  <1>3. Cardinality(A \cup B) = Cardinality(A) + Cardinality(B) - Cardinality(A \cap B)
    BY <1>1, FS_Union
  <1> QED
    BY <1>1, <1>2, <1>3

\* No image enters or leaves a terminal status.
SameTerminalRows == \A i \in Items : \A s \in ItemTerminal : istatus'[i] = s <=> istatus[i] = s

\* A step that lands no image and touches no counter.
LEMMA SameRows ==
    ASSUME CountersMatchItems, SameTerminalRows, count' = count
    PROVE  CountersMatchItems'
  <1>1. \A j \in Jobs : \A s \in ItemTerminal : RowsIn(j, s)' = RowsIn(j, s)
    BY DEF SameTerminalRows, RowsIn, ItemsOf
  <1> QED
    BY <1>1 DEF CountersMatchItems

\* One image lands in status t and its batch counts it.
LEMMA OneLands ==
    ASSUME TypeOK, CountersMatchItems, NEW i \in Items, NEW t \in ItemTerminal,
           istatus[i] \notin ItemTerminal,
           istatus' = [istatus EXCEPT ![i] = t],
           count' = [count EXCEPT ![JobOf[i]][t] = @ + 1]
    PROVE  CountersMatchItems'
  <1> USE JobOfAssumption DEF TypeOK
  <1> SUFFICES ASSUME NEW j \in Jobs, NEW s \in ItemTerminal
               PROVE  count'[j][s] = Cardinality(RowsIn(j, s)')
    BY DEF CountersMatchItems
  <1>1. CASE j = JobOf[i] /\ s = t
    <2>1. RowsIn(j, s)' = RowsIn(j, s) \cup {i} /\ i \notin RowsIn(j, s)
      BY <1>1 DEF RowsIn, ItemsOf, ItemsTypeOK
    <2>2. IsFiniteSet(RowsIn(j, s))
      BY SubsetCardinality DEF RowsIn, ItemsOf
    <2>3. count'[j][s] = count[j][s] + 1
      BY <1>1 DEF JobsTypeOK
    <2>4. Cardinality(RowsIn(j, s) \cup {i}) = Cardinality(RowsIn(j, s)) + 1
      BY <2>1, <2>2, FS_AddElement
    <2> QED
      BY <2>1, <2>3, <2>4 DEF CountersMatchItems
  <1>2. CASE ~(j = JobOf[i] /\ s = t)
    <2>1. RowsIn(j, s)' = RowsIn(j, s)
      BY <1>2 DEF RowsIn, ItemsOf, ItemsTypeOK
    <2>2. count'[j][s] = count[j][s]
      BY <1>2 DEF JobsTypeOK
    <2> QED
      BY <2>1, <2>2 DEF CountersMatchItems
  <1> QED
    BY <1>1, <1>2

\* RetryItem takes an image off the counter it was booked on, never off another.
LEMMA CountRetry ==
    ASSUME TypeOK, CountersMatchItems, NEW i \in Items, RetryItem(i)
    PROVE  CountersMatchItems'
  <1> USE JobOfAssumption DEF TypeOK
  <1>1. istatus' = [istatus EXCEPT ![i] = "pending"]
        /\ count' = [count EXCEPT ![JobOf[i]] = AdjustCount(@, istatus[i])]
    BY DEF RetryItem
  <1>2. CASE istatus[i] \notin ItemTerminal
    <2>1. count' = count
      BY <1>1, <1>2 DEF AdjustCount, JobsTypeOK
    <2>2. SameTerminalRows
      BY <1>1, <1>2 DEF SameTerminalRows, ItemsTypeOK, ItemTerminal
    <2> QED
      BY <2>1, <2>2, SameRows
  <1>3. CASE istatus[i] \in ItemTerminal
    <2> SUFFICES ASSUME NEW j \in Jobs, NEW s \in ItemTerminal
                 PROVE  count'[j][s] = Cardinality(RowsIn(j, s)')
      BY DEF CountersMatchItems
    <2>1. CASE j = JobOf[i] /\ s = istatus[i]
      <3>1. RowsIn(j, s)' = RowsIn(j, s) \ {i} /\ i \in RowsIn(j, s)
        BY <1>1, <2>1 DEF RowsIn, ItemsOf, ItemsTypeOK, ItemTerminal
      <3>2. IsFiniteSet(RowsIn(j, s)) /\ Cardinality(RowsIn(j, s)) \in Nat
        BY SubsetCardinality DEF RowsIn, ItemsOf
      <3>3. Cardinality(RowsIn(j, s)) > 0
        BY <3>1, <3>2, FS_EmptySet
      <3>4. Cardinality(RowsIn(j, s)') = Cardinality(RowsIn(j, s)) - 1
        BY <3>1, <3>2, FS_RemoveElement
      <3>5. count[j][s] > 0
        BY <3>3 DEF CountersMatchItems
      <3>6. count'[j] = AdjustCount(count[j], s)
        BY <1>1, <2>1 DEF JobsTypeOK
      <3>7. count'[j][s] = count[j][s] - 1
        BY <3>5, <3>6 DEF AdjustCount, JobsTypeOK
      <3> QED
        BY <3>4, <3>7 DEF CountersMatchItems
    <2>2. CASE ~(j = JobOf[i] /\ s = istatus[i])
      <3>1. RowsIn(j, s)' = RowsIn(j, s)
        BY <1>1, <2>2 DEF RowsIn, ItemsOf, ItemsTypeOK, ItemTerminal
      <3>2. count'[j][s] = count[j][s]
        BY <1>1, <1>3, <2>2 DEF AdjustCount, JobsTypeOK
      <3> QED
        BY <3>1, <3>2 DEF CountersMatchItems
    <2> QED
      BY <2>1, <2>2
  <1> QED
    BY <1>2, <1>3

\* RequestJobStop counts exactly the images it cancels.
LEMMA CountStop ==
    ASSUME TypeOK, CountersMatchItems, NEW j \in Jobs, RequestJobStop(j)
    PROVE  CountersMatchItems'
  <1> USE DEF TypeOK
  <1> DEFINE cut == {i \in ItemsOf(j) : istatus[i] = "pending"}
  <1>1. /\ istatus' = [i \in Items |-> IF i \in cut THEN "cancelled" ELSE istatus[i]]
        /\ count' = [count EXCEPT ![j]["cancelled"] = @ + Cardinality(cut)]
    BY DEF RequestJobStop
  <1> SUFFICES ASSUME NEW k \in Jobs, NEW s \in ItemTerminal
               PROVE  count'[k][s] = Cardinality(RowsIn(k, s)')
    BY DEF CountersMatchItems
  <1>2. CASE k = j /\ s = "cancelled"
    <2>1. RowsIn(k, s)' = RowsIn(k, s) \cup cut /\ RowsIn(k, s) \cap cut = {}
      BY <1>1, <1>2 DEF RowsIn, ItemsOf
    <2>2. Cardinality(RowsIn(k, s)') = Cardinality(RowsIn(k, s)) + Cardinality(cut)
      <3>1. RowsIn(k, s) \in SUBSET Items /\ cut \in SUBSET Items
        BY DEF RowsIn, ItemsOf
      <3> HIDE DEF cut
      <3> QED
        BY <2>1, <3>1, DisjointUnion
    <2>3. count'[k][s] = count[k][s] + Cardinality(cut)
      <3> HIDE DEF cut
      <3> QED
        BY <1>1, <1>2 DEF JobsTypeOK, ItemTerminal
    <2> QED
      BY <2>2, <2>3 DEF CountersMatchItems
  <1>3. CASE ~(k = j /\ s = "cancelled")
    <2>1. RowsIn(k, s)' = RowsIn(k, s)
      BY <1>1, <1>3 DEF RowsIn, ItemsOf, ItemTerminal
    <2>2. count'[k][s] = count[k][s]
      BY <1>1, <1>3 DEF JobsTypeOK
    <2> QED
      BY <2>1, <2>2 DEF CountersMatchItems
  <1> QED
    BY <1>2, <1>3

\* The reaper counts what it fails and cancels, in the three parts of its transaction.
LEMMA CountReap ==
    ASSUME TypeOK, CountersMatchItems, NEW dead, NEW stale, NEW stuck, ReapStaleJobs(dead, stale, stuck)
    PROVE  CountersMatchItems'
  <1> USE DEF TypeOK
  <1> DEFINE cut  == {i \in Items \ dead : JobOf[i] \in stale /\ istatus[i] = "pending"}
             lost == {i \in Items : JobOf[i] \in stale /\ istatus[i] = "running"}
             fell == dead \cup lost
             extra(j, s) == CASE s = "failed"    -> Tally(fell, j)
                              [] s = "cancelled" -> Tally(cut, j)
                              [] OTHER           -> 0
  <1>1. /\ dead \subseteq {i \in Items : istatus[i] = "pending"}
        /\ istatus' = [i \in Items |-> IF i \in fell THEN "failed" ELSE IF i \in cut THEN "cancelled" ELSE istatus[i]]
        /\ count' = [j \in Jobs |-> [s \in ItemTerminal |-> count[j][s] + extra(j, s)]]
    BY DEF ReapStaleJobs, DeadPending
  <1> SUFFICES ASSUME NEW j \in Jobs, NEW s \in ItemTerminal
               PROVE  count'[j][s] = Cardinality(RowsIn(j, s)')
    BY DEF CountersMatchItems
  <1>2. fell \in SUBSET Items /\ cut \in SUBSET Items /\ fell \cap cut = {}
    BY <1>1
  <1>3. \A i \in fell \cup cut : istatus[i] \notin ItemTerminal
    BY <1>1 DEF ItemTerminal
  <1>4. count'[j][s] = count[j][s] + extra(j, s)
    <2> HIDE DEF extra
    <2> QED
      BY <1>1
  <1> HIDE DEF cut, lost, fell
  <1>5. RowsIn(j, s) \in SUBSET Items
    BY DEF RowsIn, ItemsOf
  <1>6. CASE s = "failed"
    <2>1. RowsIn(j, s)' = RowsIn(j, s) \cup (fell \cap ItemsOf(j))
      BY <1>1, <1>2, <1>3, <1>6 DEF RowsIn, ItemsOf
    <2>2. RowsIn(j, s) \cap (fell \cap ItemsOf(j)) = {}
      BY <1>3 DEF RowsIn
    <2>3. Cardinality(RowsIn(j, s)') = Cardinality(RowsIn(j, s)) + Cardinality(fell \cap ItemsOf(j))
      BY <2>1, <2>2, <1>2, <1>5, DisjointUnion
    <2> QED
      BY <2>3, <1>4, <1>6 DEF CountersMatchItems, Tally
  <1>7. CASE s = "cancelled"
    <2>1. RowsIn(j, s)' = RowsIn(j, s) \cup (cut \cap ItemsOf(j))
      BY <1>1, <1>2, <1>3, <1>7 DEF RowsIn, ItemsOf
    <2>2. RowsIn(j, s) \cap (cut \cap ItemsOf(j)) = {}
      BY <1>3 DEF RowsIn
    <2>3. Cardinality(RowsIn(j, s)') = Cardinality(RowsIn(j, s)) + Cardinality(cut \cap ItemsOf(j))
      BY <2>1, <2>2, <1>2, <1>5, DisjointUnion
    <2> QED
      BY <2>3, <1>4, <1>7 DEF CountersMatchItems, Tally
  <1>8. CASE s = "succeeded"
    <2>1. RowsIn(j, s)' = RowsIn(j, s)
      BY <1>1, <1>3, <1>8 DEF RowsIn, ItemsOf
    <2>2. extra(j, s) = 0
      BY <1>8
    <2>3. count[j][s] \in Nat
      BY DEF JobsTypeOK
    <2> HIDE DEF extra
    <2> QED
      BY <2>1, <2>2, <2>3, <1>4 DEF CountersMatchItems
  <1> QED
    BY <1>6, <1>7, <1>8 DEF ItemTerminal

\* The counters start at zero, with no image landed.
LEMMA CountInit == Init => CountersMatchItems
  <1> SUFFICES ASSUME Init, NEW j \in Jobs, NEW s \in ItemTerminal
               PROVE  count[j][s] = Cardinality(RowsIn(j, s))
    BY DEF CountersMatchItems
  <1>1. RowsIn(j, s) = {}
    BY DEF Init, RowsIn, ItemsOf, ItemTerminal
  <1> QED
    BY <1>1, FS_EmptySet DEF Init, ZeroCount

\* Every step keeps counters and rows together.
LEMMA CountStep == TypeOK /\ LeaseInv /\ CountersMatchItems /\ [Next]_vars => CountersMatchItems'
  <1> SUFFICES ASSUME TypeOK, LeaseInv, CountersMatchItems, [Next]_vars PROVE CountersMatchItems'
    OBVIOUS
  <1> USE JobOfAssumption DEF TypeOK
  <1>0. ASSUME UNCHANGED <<istatus, count>> PROVE CountersMatchItems'
    BY <1>0, SameRows DEF SameTerminalRows
  <1>1. ASSUME NEW j \in Jobs, CreateJob(j) PROVE CountersMatchItems'
    BY <1>1, SameRows DEF CreateJob, SameTerminalRows, LeaseInv, RowsBornTogether, ItemTerminal
  <1>2. ASSUME NEW j \in Jobs,
               \/ StartJob(j) \/ StartJobFails(j) \/ AbandonRelease(j) \/ AbandonKill(j)
               \/ HeartbeatGoesStale(j) \/ StopJob(j) \/ FinalizeAfterStop(j)
               \/ LoadSettlement(j) \/ SettleJob(j)
        PROVE  CountersMatchItems'
    BY <1>2, <1>0 DEF StartJob, StartJobFails, AbandonRelease, AbandonKill, HeartbeatGoesStale, StopJob,
                      FinalizeAfterStop, LoadSettlement, SettleJob, itemVars, jobVars
  <1>3. ASSUME NEW w \in Workers, NEW i \in Items, ClaimNextItem(w, i) PROVE CountersMatchItems'
    BY <1>3, SameRows DEF ClaimNextItem, Claimable, SameTerminalRows, ItemsTypeOK, ItemTerminal, jobVars
  <1>4. ASSUME NEW w \in Workers, WriteBack(w) PROVE CountersMatchItems'
    <2>1. witem[w] \in Items
      BY <1>4 DEF WriteBack, Writing, WorkersTypeOK
    <2>2. CASE Owns(w) /\ CompleteItemSuccess(w)
      BY <2>1, <2>2, OneLands DEF Owns, CompleteItemSuccess, WorkerJob, ItemTerminal
    <2>3. CASE Owns(w) /\ FailItem(w)
      BY <2>1, <2>3, OneLands DEF Owns, FailItem, WorkerJob, ItemTerminal
    <2>4. CASE Owns(w) /\ RequeueItem(w)
      BY <2>1, <2>4, SameRows DEF Owns, RequeueItem, SameTerminalRows, ItemTerminal, ItemsTypeOK
    <2> QED
      BY <1>4, <2>2, <2>3, <2>4, <1>0 DEF WriteBack
  <1>5. ASSUME NEW w \in Workers,
               \/ LoadJob(w) \/ MarkRunning(w) \/ PrepareFails(w) \/ InvokeGateway(w)
               \/ GatewayReturns(w) \/ ShutdownCancels(w) \/ FinalizeJob(w) \/ RenewItemLease(w)
               \/ LoadJobFails(w) \/ WriteBackFails(w) \/ FinalizeJobFails(w)
        PROVE  CountersMatchItems'
    BY <1>5, <1>0 DEF LoadJob, MarkRunning, PrepareFails, InvokeGateway, GatewayReturns, ShutdownCancels,
                      FinalizeJob, RenewItemLease, LoadJobFails, WriteBackFails, FinalizeJobFails,
                      itemVars, jobVars
  <1>6. ASSUME NEW i \in Items, LeaseExpires(i) PROVE CountersMatchItems'
    BY <1>6, <1>0 DEF LeaseExpires, jobVars
  <1>7. CASE Heartbeat \/ PoolStop \/ ProcessExit \/ ProcessStart \/ UNCHANGED vars
    BY <1>7, <1>0 DEF Heartbeat, PoolStop, ProcessExit, ProcessStart, vars, itemVars, jobVars
  <1> QED
    BY <1>1, <1>2, <1>3, <1>4, <1>5, <1>6, <1>7, CountStop, CountRetry, CountReap DEF Next, WorkerStep, Reaping

\* The three counters of every batch equal what its image rows say, in every reachable state.
THEOREM CountersNeverDrift == Spec => []CountersMatchItems
  BY CountInit, CountStep, LeaseInvariant, TypeCorrect, PTL DEF Spec
=============================================================================
