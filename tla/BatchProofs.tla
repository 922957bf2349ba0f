---------------------------- MODULE BatchProofs -----------------------------
(***************************************************************************)
(* The life of a batch: how stop, retry, finalize, settle, abandon and the *)
(* reaper, none of which sees what the others are about to do, keep the    *)
(* status, the hold, the counters and the images of a batch together.      *)
(* The second part proves what Settlement takes for granted of the queue,  *)
(* the third that JobQueue implements BatchLedger.                         *)
(***************************************************************************)
EXTENDS LedgerRefinement, JobQueueProofs

-----------------------------------------------------------------------------
(* Operators                                                               *)

\* If three disjoint groups of images add up to the batch, they are the batch.
LEMMA ThreeGroups ==
    ASSUME NEW S \in SUBSET Items, NEW A \in SUBSET S, NEW B \in SUBSET S, NEW C \in SUBSET S,
           A \cap B = {}, A \cap C = {}, B \cap C = {},
           Cardinality(A) + Cardinality(B) + Cardinality(C) = Cardinality(S)
    PROVE  S = (A \cup B) \cup C
  <1>1. Cardinality(A \cup B) = Cardinality(A) + Cardinality(B)
    BY DisjointUnion
  <1>2. Cardinality((A \cup B) \cup C) = Cardinality(A \cup B) + Cardinality(C)
    <2>1. (A \cup B) \cap C = {}
      OBVIOUS
    <2> QED
      BY <2>1, DisjointUnion
  <1>3. IsFiniteSet(S)
    BY SubsetCardinality
  <1> QED
    BY <1>1, <1>2, <1>3, FS_Subset

\* Without cancelled images a stop request does not change the terminal status.
LEMMA StopIrrelevant ==
    ASSUME NEW n, NEW c \in [ItemTerminal -> Nat], c["cancelled"] = 0, NEW a, NEW b
    PROVE  TerminalJobStatus(n, c, a) = TerminalJobStatus(n, c, b)
  BY DEF TerminalJobStatus, ItemTerminal

\* The three tables a batch's guards are computed from.
LEMMA Sources ==
    /\ finalizeSourceStatuses = reapableStatuses
    /\ \A s : s \in JobTerminal /\ CanTransition(s, "running") => s \in JobTerminal \ {"failed"}
  BY DEF finalizeSourceStatuses, allowedSourceStatuses, reapableStatuses, CanTransition, jobTransitions,
         AllJobStatuses, JobTerminal

-----------------------------------------------------------------------------
(* The inductive invariant, one batch at a time                            *)

\* Nothing is generated for the batch any more.
Ended(j) == status[j] = "settling" \/ j \in settled \/ (status[j] = "failed" /\ ~Abandoned(j))

\* settled_at and the status go together, and the settlement loop works on a settling batch.
SettlementInv(j) ==
    /\ j \in settled => status[j] \in JobTerminal
    /\ status[j] \in JobTerminal \ {"failed"} => j \in settled
    /\ target[j] # "none" => status[j] = "settling" \/ j \in settled

HoldInv(j) == status[j] # "none" /\ ~Abandoned(j) => (hold[j] = "open" <=> status[j] \notin JobTerminal)

QuietInv(j) ==
    /\ Ended(j) => \A i \in ItemsOf(j) : istatus[i] \in ItemTerminal
    /\ status[j] # "none" => \A i \in ItemsOf(j) : istatus[i] # "none"

\* What the batch's counters and its stop request call for.
Due(j) == TerminalJobStatus(ItemCount(j), count[j], j \in stopRequested)

\* Cancelled images come from a stop request, unless the reaper closed the batch; so a stop
\* that arrives late cannot change a status that was already computed.
StatusInv(j) ==
    /\ count[j]["cancelled"] > 0 => j \in stopRequested \/ (status[j] = "failed" /\ j \notin settled)
    /\ target[j] # "none" /\ j \notin settled => target[j] = Due(j)
    /\ j \in settled => status[j] = Due(j)

BatchInv(j) == SettlementInv(j) /\ HoldInv(j) /\ QuietInv(j) /\ StatusInv(j)

\* A batch the step does not touch.
Untouched(j) ==
    /\ status'[j] = status[j] /\ hold'[j] = hold[j] /\ target'[j] = target[j] /\ count'[j] = count[j]
    /\ j \in settled' <=> j \in settled
    /\ j \in stopRequested' <=> j \in stopRequested
    /\ Abandoned(j)' <=> Abandoned(j)
    /\ \A i \in ItemsOf(j) : istatus'[i] = istatus[i]

\* The invariant of a batch the step leaves alone.
LEMMA UntouchedInv ==
    ASSUME NEW j \in Jobs, BatchInv(j), Untouched(j)
    PROVE  BatchInv(j)'
  <1>1. ItemsOf(j)' = ItemsOf(j) /\ ItemCount(j)' = ItemCount(j)
    BY DEF ItemsOf, ItemCount
  <1>2. Due(j)' = Due(j)
    BY <1>1 DEF Due, Untouched
  <1>3. Ended(j)' <=> Ended(j)
    BY DEF Ended, Untouched
  <1> QED
    BY <1>1, <1>2, <1>3 DEF BatchInv, SettlementInv, HoldInv, QuietInv, StatusInv, Untouched

\* A batch that is neither settling nor over moves to another such status, or has a
\* non-terminal image moved, with its hold left open.
LEMMA UnfinishedInv ==
    ASSUME TypeOK, NEW j \in Jobs, BatchInv(j),
           status[j] \in reapableStatuses, status'[j] \in reapableStatuses,
           target'[j] = target[j],
           j \in settled' <=> j \in settled,
           ~Abandoned(j)' => hold'[j] = "open",
           \A i \in ItemsOf(j) : istatus'[i] # "none",
           count'[j]["cancelled"] > 0 => j \in stopRequested'
    PROVE  BatchInv(j)'
  <1>1. target[j] = "none" /\ j \notin settled
    BY DEF BatchInv, SettlementInv, reapableStatuses, JobTerminal
  <1>2. ItemsOf(j)' = ItemsOf(j)
    BY DEF ItemsOf
  <1>3. ~Ended(j)' /\ status'[j] \notin JobTerminal
    BY <1>1 DEF Ended, reapableStatuses, JobTerminal
  <1> QED
    BY <1>1, <1>2, <1>3 DEF BatchInv, SettlementInv, HoldInv, QuietInv, StatusInv, JobTerminal

\* The hold of a batch that is under way.
LEMMA HoldUnderWay ==
    ASSUME NEW j \in Jobs, BatchInv(j), status[j] \in reapableStatuses, ~Abandoned(j)
    PROVE  hold[j] = "open"
  BY DEF BatchInv, HoldInv, reapableStatuses, JobTerminal

\* The counters of a batch that is under way.
LEMMA CancelledUnderWay ==
    ASSUME NEW j \in Jobs, BatchInv(j), status[j] \in reapableStatuses, count[j]["cancelled"] > 0
    PROVE  j \in stopRequested
  BY DEF BatchInv, StatusInv, reapableStatuses

\* When the counters add up to the batch, every image of it has landed.
LEMMA AllLanded ==
    ASSUME NEW j \in Jobs, CountersMatchItems, Landed(j) = ItemCount(j)
    PROVE  \A i \in ItemsOf(j) : istatus[i] \in ItemTerminal
  <1>1. /\ count[j]["succeeded"] = Cardinality(RowsIn(j, "succeeded"))
        /\ count[j]["failed"] = Cardinality(RowsIn(j, "failed"))
        /\ count[j]["cancelled"] = Cardinality(RowsIn(j, "cancelled"))
    BY DEF CountersMatchItems, ItemTerminal
  <1>2. ItemsOf(j) = (RowsIn(j, "succeeded") \cup RowsIn(j, "failed")) \cup RowsIn(j, "cancelled")
    <2>1. ItemsOf(j) \in SUBSET Items
      BY DEF ItemsOf
    <2>2. \A s : RowsIn(j, s) \in SUBSET ItemsOf(j)
      BY DEF RowsIn
    <2>3. \A s, t : s # t => RowsIn(j, s) \cap RowsIn(j, t) = {}
      BY DEF RowsIn
    <2>4. Cardinality(RowsIn(j, "succeeded")) + Cardinality(RowsIn(j, "failed")) + Cardinality(RowsIn(j, "cancelled"))
          = Cardinality(ItemsOf(j))
      BY <1>1 DEF Landed, ItemCount
    <2> QED
      BY <2>1, <2>2, <2>3, <2>4, ThreeGroups
  <1> QED
    BY <1>2 DEF RowsIn, ItemTerminal

\* The same as a formula, to be used in the state after a step.
LandedMeansAll ==
    \A j \in Jobs : CountersMatchItems /\ Landed(j) = ItemCount(j) => \A i \in ItemsOf(j) : istatus[i] \in ItemTerminal

\* AllLanded in the state after a step.
LEMMA LandedAfter == LandedMeansAll'
  <1>1. LandedMeansAll
    BY AllLanded DEF LandedMeansAll
  <1> QED
    BY <1>1, PTL

-----------------------------------------------------------------------------
(* The actions                                                             *)

\* Before its submission a batch satisfies the invariant.
LEMMA BatchInit == Init => \A j \in Jobs : BatchInv(j)
  BY DEF Init, BatchInv, SettlementInv, HoldInv, QuietInv, StatusInv, Ended, JobTerminal, ZeroCount, ItemTerminal

\* CreateJobWithItemsAndHold.
LEMMA BatchCreate ==
    ASSUME TypeOK, NEW j \in Jobs, CreateJob(j), \A k \in Jobs : BatchInv(k), NEW k \in Jobs
    PROVE  BatchInv(k)'
  <1> USE DEF TypeOK
  <1>1. CASE k # j
    <2>1. Untouched(k)
      BY <1>1 DEF CreateJob, Untouched, ItemsOf, Abandoned, JobsTypeOK, RequestsTypeOK
    <2> QED
      BY <2>1, UntouchedInv
  <1>2. CASE k = j
    <2>1. target[j] = "none" /\ j \notin settled
      BY DEF CreateJob, BatchInv, SettlementInv, JobTerminal
    <2>2. ItemsOf(j)' = ItemsOf(j)
      BY DEF ItemsOf
    <2>3. /\ status'[j] = "created" /\ hold'[j] = "open" /\ target' = target /\ settled' = settled
          /\ count' = count /\ stopRequested' = stopRequested
          /\ \A i \in ItemsOf(j) : istatus'[i] = "pending"
      BY DEF CreateJob, ItemsOf, JobsTypeOK
    <2>4. ~Ended(j)' /\ status'[j] \notin JobTerminal
      BY <2>1, <2>3 DEF Ended, JobTerminal
    <2>5. count[j]["cancelled"] > 0 => j \in stopRequested
      BY DEF CreateJob, BatchInv, StatusInv
    <2> QED
      BY <1>2, <2>1, <2>2, <2>3, <2>4, <2>5 DEF BatchInv, SettlementInv, HoldInv, QuietInv, StatusInv
  <1> QED
    BY <1>1, <1>2

\* startJob, its failure included.
LEMMA BatchSubmit ==
    ASSUME TypeOK, NEW j \in Jobs, StartJob(j) \/ StartJobFails(j), \A k \in Jobs : BatchInv(k), NEW k \in Jobs
    PROVE  BatchInv(k)'
  <1> USE DEF TypeOK, itemVars
  <1>1. CASE k # j
    <2>1. Untouched(k)
      BY <1>1 DEF StartJob, StartJobFails, Promote, Untouched, Abandoned, JobsTypeOK, RequestsTypeOK
    <2> QED
      BY <2>1, UntouchedInv
  <1>2. CASE k = j /\ Promote(j)
    <2>1. status[j] \in reapableStatuses /\ status'[j] \in reapableStatuses
      BY <1>2 DEF Promote, NextStatus, reapableStatuses, JobsTypeOK, RequestsTypeOK
    <2>2. ~Abandoned(j)
      BY DEF StartJob, StartJobFails, Abandoned
    <2>3. \A i \in ItemsOf(j) : istatus'[i] # "none"
      BY <2>1 DEF StartJob, StartJobFails, BatchInv, QuietInv, reapableStatuses
    <2>4. target' = target /\ settled' = settled /\ hold' = hold /\ count' = count /\ stopRequested' = stopRequested
      BY DEF StartJob, StartJobFails
    <2> QED
      BY <1>2, <2>1, <2>2, <2>3, <2>4, UnfinishedInv, HoldUnderWay, CancelledUnderWay
  <1>3. CASE k = j /\ UNCHANGED status /\ StartJob(j)
    <2>1. Untouched(k)
      BY <1>3 DEF StartJob, Untouched, Abandoned, RequestsTypeOK
    <2> QED
      BY <2>1, UntouchedInv
  <1>4. CASE k = j /\ UNCHANGED status /\ StartJobFails(j)
    <2>1. Abandoned(j)' /\ ~Abandoned(j)
      BY <1>4 DEF StartJobFails, Abandoned, RequestsTypeOK
    <2>2. UNCHANGED <<status, settled, stopRequested, count, hold, istatus, target>>
      BY <1>4 DEF StartJobFails
    <2>3. ItemsOf(j)' = ItemsOf(j) /\ Due(j)' = Due(j) /\ (Ended(j)' => Ended(j))
      BY <2>1, <2>2 DEF ItemsOf, Due, ItemCount, Ended
    <2> QED
      BY <1>4, <2>1, <2>2, <2>3 DEF BatchInv, SettlementInv, HoldInv, QuietInv, StatusInv
  <1> QED
    BY <1>1, <1>2, <1>3, <1>4 DEF StartJob, StartJobFails

\* abandonJob, both halves.
LEMMA BatchAbandon ==
    ASSUME TypeOK, NEW j \in Jobs, AbandonRelease(j) \/ AbandonKill(j), \A k \in Jobs : BatchInv(k), NEW k \in Jobs
    PROVE  BatchInv(k)'
  <1> USE DEF TypeOK, itemVars
  <1>1. CASE k # j
    <2>1. Untouched(k)
      BY <1>1 DEF AbandonRelease, AbandonKill, ReleaseHold, Untouched, Abandoned, JobsTypeOK, RequestsTypeOK
    <2> QED
      BY <2>1, UntouchedInv
  <1>2. CASE k = j
    <2>1. Abandoned(j) /\ Abandoned(j)'
      BY DEF AbandonRelease, AbandonKill, Abandoned, RequestsTypeOK
    <2>2. UNCHANGED <<settled, stopRequested, count, istatus, target>>
      BY DEF AbandonRelease, AbandonKill
    <2>3. ItemsOf(j)' = ItemsOf(j) /\ Due(j)' = Due(j)
      BY <2>2 DEF ItemsOf, Due, ItemCount
    <2>4. CASE status' = status
      BY <1>2, <2>1, <2>2, <2>3, <2>4 DEF BatchInv, SettlementInv, HoldInv, QuietInv, StatusInv, Ended
    <2>5. CASE status[j] = known[j] /\ status'[j] = "failed"
      <3>1. j \notin settled /\ target[j] = "none" /\ status[j] # "none"
        BY <2>5 DEF BatchInv, SettlementInv, JobTerminal, RequestsTypeOK
      <3> QED
        BY <1>2, <2>1, <2>2, <2>3, <2>5, <3>1 DEF BatchInv, SettlementInv, HoldInv, QuietInv, StatusInv, Ended, JobTerminal
    <2> QED
      BY <2>4, <2>5 DEF AbandonRelease, AbandonKill, JobsTypeOK
  <1> QED
    BY <1>1, <1>2

\* Claims and write-backs work on images of batches that have not ended.
LEMMA BatchRows ==
    ASSUME TypeOK, NEW i \in Items, istatus[i] \in {"pending", "running"}, NEW t \in AllItemStatuses,
           istatus' = [istatus EXCEPT ![i] = t],
           UNCHANGED <<status, settled, stopRequested, hold, submit, target>>,
           \A j \in Jobs : j # JobOf[i] => count'[j] = count[j],
           count'[JobOf[i]]["cancelled"] = count[JobOf[i]]["cancelled"],
           \A k \in Jobs : BatchInv(k), NEW k \in Jobs
    PROVE  BatchInv(k)'
  <1> USE JobOfAssumption DEF TypeOK
  <1>1. CASE k # JobOf[i]
    <2>1. Untouched(k)
      BY <1>1 DEF Untouched, ItemsOf, Abandoned, ItemsTypeOK
    <2> QED
      BY <2>1, UntouchedInv
  <1>2. CASE k = JobOf[i]
    <2>1. ~Ended(k)
      BY <1>2 DEF BatchInv, QuietInv, ItemsOf, ItemTerminal
    <2>2. target[k] = "none" /\ k \notin settled
      BY <2>1 DEF Ended, BatchInv, SettlementInv
    <2>3. ~Ended(k)' /\ ItemsOf(k)' = ItemsOf(k) /\ (Abandoned(k)' <=> Abandoned(k))
      BY <2>1 DEF Ended, Abandoned, ItemsOf
    <2>4. status[k] # "none" => \A l \in ItemsOf(k) : istatus'[l] # "none"
      BY DEF BatchInv, QuietInv, ItemsOf, ItemsTypeOK, AllItemStatuses
    <2> QED
      BY <1>2, <2>2, <2>3, <2>4 DEF BatchInv, SettlementInv, HoldInv, QuietInv, StatusInv
  <1> QED
    BY <1>1, <1>2

\* A claim never meets an image of a batch that has ended.
LEMMA BatchClaim ==
    ASSUME TypeOK, NEW w \in Workers, NEW i \in Items, ClaimNextItem(w, i), \A k \in Jobs : BatchInv(k), NEW k \in Jobs
    PROVE  BatchInv(k)'
  BY BatchRows DEF ClaimNextItem, Claimable, jobVars, requestVars, AllItemStatuses

\* Neither does a write-back that passes its guard.
LEMMA BatchWriteBack ==
    ASSUME TypeOK, NEW w \in Workers, WriteBack(w), \A k \in Jobs : BatchInv(k), NEW k \in Jobs
    PROVE  BatchInv(k)'
  <1> USE JobOfAssumption DEF TypeOK, requestVars
  <1>1. witem[w] \in Items
    BY DEF WriteBack, Writing, WorkersTypeOK
  <1>2. CASE ~Owns(w)
    <2>1. Untouched(k)
      BY <1>2 DEF WriteBack, Requeues, Untouched, Abandoned
    <2> QED
      BY <2>1, UntouchedInv
  <1>3. CASE Owns(w)
    <2>1. PICK t \in {"succeeded", "failed", "pending"} : istatus' = [istatus EXCEPT ![witem[w]] = t]
      BY <1>3 DEF WriteBack, CompleteItemSuccess, FailItem, RequeueItem
    <2>2. UNCHANGED <<status, settled, stopRequested, hold, submit, target>>
      BY DEF WriteBack
    <2>3. /\ \A j \in Jobs : j # JobOf[witem[w]] => count'[j] = count[j]
          /\ count'[JobOf[witem[w]]]["cancelled"] = count[JobOf[witem[w]]]["cancelled"]
      BY <1>1, <1>3 DEF WriteBack, CompleteItemSuccess, FailItem, RequeueItem, WorkerJob, JobsTypeOK, ItemTerminal
    <2>4. istatus[witem[w]] = "running" /\ t \in AllItemStatuses
      BY <1>3 DEF Owns, AllItemStatuses
    <2> QED
      BY <1>1, <2>1, <2>2, <2>3, <2>4, BatchRows
  <1> QED
    BY <1>2, <1>3

\* MarkRunning moves holding to running and nothing else.
LEMMA BatchMarkRunning ==
    ASSUME TypeOK, NEW w \in Workers, MarkRunning(w), \A k \in Jobs : BatchInv(k), NEW k \in Jobs
    PROVE  BatchInv(k)'
  <1> USE DEF TypeOK, requestVars, itemVars
  <1>1. CASE status'[k] = status[k]
    <2>1. Untouched(k)
      BY <1>1 DEF MarkRunning, Untouched, Abandoned
    <2> QED
      BY <2>1, UntouchedInv
  <1>2. CASE status[k] = "holding" /\ status'[k] = "running"
    <2>1. UNCHANGED <<target, settled, stopRequested, hold, count, istatus, submit>>
      BY DEF MarkRunning
    <2>2. status[k] \in reapableStatuses /\ status'[k] \in reapableStatuses
      BY <1>2 DEF reapableStatuses
    <2>3. ~Abandoned(k)' => hold'[k] = "open"
      BY <2>1, <2>2, HoldUnderWay DEF Abandoned
    <2>4. \A i \in ItemsOf(k) : istatus'[i] # "none"
      BY <1>2, <2>1 DEF BatchInv, QuietInv
    <2> QED
      BY <2>1, <2>2, <2>3, <2>4, UnfinishedInv, CancelledUnderWay
  <1> QED
    BY <1>1, <1>2 DEF MarkRunning, JobsTypeOK

\* finished_at flips once, when the counters add up.
LEMMA BatchFinalize ==
    ASSUME TypeOK, CountersMatchItems, NEW j \in Jobs, Finalize(j),
           UNCHANGED <<settled, stopRequested, count, hold, istatus, submit, target>>,
           \A k \in Jobs : BatchInv(k), NEW k \in Jobs
    PROVE  BatchInv(k)'
  <1> USE DEF TypeOK
  <1>1. CASE status'[k] = status[k]
    <2>1. Untouched(k)
      BY <1>1 DEF Untouched, Abandoned
    <2> QED
      BY <2>1, UntouchedInv
  <1>2. CASE k = j /\ Landed(j) = ItemCount(j) /\ status[j] \in finalizeSourceStatuses /\ status'[j] = "settling"
    <2>1. status[j] \in reapableStatuses
      BY <1>2, Sources
    <2>2. target[j] = "none" /\ j \notin settled
      BY <2>1 DEF BatchInv, SettlementInv, reapableStatuses, JobTerminal
    <2>3. \A i \in ItemsOf(j)' : istatus'[i] \in ItemTerminal
      BY <1>2, AllLanded DEF ItemsOf
    <2>4. ~Abandoned(j)' => hold'[j] = "open"
      BY <2>1, HoldUnderWay DEF Abandoned
    <2>5. count'[j]["cancelled"] > 0 => j \in stopRequested'
      BY <2>1, CancelledUnderWay
    <2> QED
      BY <1>2, <2>2, <2>3, <2>4, <2>5
         DEF BatchInv, SettlementInv, HoldInv, QuietInv, StatusInv, JobTerminal, ItemTerminal
  <1> QED
    BY <1>1, <1>2 DEF Finalize, JobsTypeOK

\* The two callers of FinalizeJob.
LEMMA BatchFinalizers ==
    ASSUME TypeOK, CountersMatchItems, \A k \in Jobs : BatchInv(k), NEW k \in Jobs,
           (\E w \in Workers : FinalizeJob(w)) \/ (\E j \in Jobs : FinalizeAfterStop(j))
    PROVE  BatchInv(k)'
  <1> USE JobOfAssumption DEF TypeOK, itemVars, requestVars
  <1>1. ASSUME NEW w \in Workers, FinalizeJob(w) PROVE BatchInv(k)'
    <2>1. WorkerJob(w) \in Jobs
      BY <1>1 DEF FinalizeJob, WorkerJob, WorkersTypeOK
    <2>2. Finalize(WorkerJob(w)) /\ UNCHANGED <<settled, stopRequested, count, hold, istatus, submit, target>>
      BY <1>1 DEF FinalizeJob
    <2> QED
      BY <2>1, <2>2, BatchFinalize
  <1>2. ASSUME NEW j \in Jobs, FinalizeAfterStop(j) PROVE BatchInv(k)'
    <2>1. UNCHANGED <<settled, stopRequested, count, hold, istatus, submit, target>>
      BY <1>2 DEF FinalizeAfterStop
    <2>2. CASE Finalize(j)
      BY <2>1, <2>2, BatchFinalize
    <2>3. CASE UNCHANGED status
      <3>1. Untouched(k)
        BY <2>1, <2>3 DEF Untouched, Abandoned
      <3> QED
        BY <3>1, UntouchedInv
    <2> QED
      BY <1>2, <2>2, <2>3 DEF FinalizeAfterStop
  <1> QED
    BY <1>1, <1>2

\* A stop request that arrives after the batch has ended finds nothing to cancel.
LEMMA BatchStop ==
    ASSUME TypeOK, NEW j \in Jobs, RequestJobStop(j), \A k \in Jobs : BatchInv(k), NEW k \in Jobs
    PROVE  BatchInv(k)'
  <1> USE DEF TypeOK
  <1> DEFINE cut == {i \in ItemsOf(j) : istatus[i] = "pending"}
  <1>0. /\ istatus' = [i \in Items |-> IF i \in cut THEN "cancelled" ELSE istatus[i]]
        /\ count' = [count EXCEPT ![j]["cancelled"] = @ + Cardinality(cut)]
        /\ stopRequested' = stopRequested \cup {j}
        /\ UNCHANGED <<status, settled, hold, submit, target>>
    BY DEF RequestJobStop
  <1>1. CASE k # j
    <2>1. Untouched(k)
      BY <1>0, <1>1 DEF Untouched, Abandoned, ItemsOf, JobsTypeOK
    <2> QED
      BY <2>1, UntouchedInv
  <1>2. CASE k = j /\ ~Ended(j)
    <2>1. target[j] = "none" /\ j \notin settled
      BY <1>2 DEF Ended, BatchInv, SettlementInv
    <2>2. ~Ended(j)' /\ ItemsOf(j)' = ItemsOf(j) /\ (Abandoned(j)' <=> Abandoned(j))
      BY <1>0, <1>2 DEF Ended, Abandoned, ItemsOf
    <2>3. status[j] # "none" => \A i \in ItemsOf(j) : istatus'[i] # "none"
      BY <1>0 DEF BatchInv, QuietInv, ItemsOf
    <2> QED
      BY <1>0, <1>2, <2>1, <2>2, <2>3 DEF BatchInv, SettlementInv, HoldInv, QuietInv, StatusInv
  <1>3. CASE k = j /\ Ended(j)
    <2>1. cut = {}
      BY <1>3 DEF BatchInv, QuietInv, ItemTerminal
    <2>2. count' = count
      <3>1. Cardinality(cut) = 0
        BY <2>1, FS_EmptySet
      <3> HIDE DEF cut
      <3> QED
        BY <1>0, <3>1 DEF JobsTypeOK, ItemTerminal
    <2>3. \A i \in ItemsOf(j) : istatus'[i] = istatus[i]
      BY <1>0, <2>1 DEF ItemsOf
    <2>4. ItemsOf(j)' = ItemsOf(j) /\ ItemCount(j)' = ItemCount(j) /\ (Abandoned(j)' <=> Abandoned(j))
      BY <1>0 DEF ItemsOf, ItemCount, Abandoned
    <2>5. Ended(j)' <=> Ended(j)
      BY <1>0, <2>4 DEF Ended
    <2>6. ASSUME j \in settled \/ target[j] # "none" PROVE Due(j)' = Due(j)
      <3>1. count[j] \in [ItemTerminal -> Nat]
        BY DEF JobsTypeOK
      <3>2. CASE count[j]["cancelled"] = 0
        BY <1>0, <2>2, <2>4, <3>1, <3>2, StopIrrelevant DEF Due
      <3>3. CASE count[j]["cancelled"] > 0
        <4>1. j \in stopRequested
          BY <2>6, <3>3 DEF BatchInv, StatusInv, SettlementInv
        <4> QED
          BY <1>0, <2>2, <2>4, <4>1 DEF Due
      <3> QED
        BY <3>1, <3>2, <3>3 DEF ItemTerminal
    <2> QED
      BY <1>0, <1>3, <2>2, <2>3, <2>4, <2>5, <2>6 DEF BatchInv, SettlementInv, HoldInv, QuietInv, StatusInv
  <1> QED
    BY <1>1, <1>2, <1>3

\* A retry only ever meets a batch that is under way.
LEMMA RetryUnderWay ==
    ASSUME NEW j \in Jobs, BatchInv(j), RetryAllowed(j)
    PROVE  status[j] \in {"holding", "running"}
  BY Sources DEF RetryAllowed, BatchInv, SettlementInv

\* RetryItem reopens an image of a batch that is under way and freezes credit for it.
LEMMA BatchRetry ==
    ASSUME TypeOK, NEW i \in Items, RetryItem(i), \A k \in Jobs : BatchInv(k), NEW k \in Jobs
    PROVE  BatchInv(k)'
  <1> USE JobOfAssumption DEF TypeOK, requestVars
  <1>1. CASE k # JobOf[i]
    <2>1. Untouched(k)
      BY <1>1 DEF RetryItem, Untouched, Abandoned, ItemsOf, ItemsTypeOK, JobsTypeOK
    <2> QED
      BY <2>1, UntouchedInv
  <1>2. CASE k = JobOf[i]
    <2>1. status[k] \in {"holding", "running"}
      BY <1>2, RetryUnderWay DEF RetryItem
    <2>2. status[k] \in reapableStatuses /\ status'[k] \in reapableStatuses
      BY <1>2, <2>1 DEF RetryItem, reapableStatuses, JobTerminal, JobsTypeOK
    <2>3. target' = target /\ settled' = settled /\ stopRequested' = stopRequested /\ hold'[k] = "open"
      BY <1>2 DEF RetryItem, JobsTypeOK
    <2>4. \A l \in ItemsOf(k) : istatus'[l] # "none"
      BY <2>1 DEF RetryItem, BatchInv, QuietInv, ItemsOf, ItemsTypeOK
    <2>5. count'[k]["cancelled"] > 0 => count[k]["cancelled"] > 0
      <3>1. count'[k] = AdjustCount(count[k], istatus[i])
        BY <1>2 DEF RetryItem, JobsTypeOK
      <3>2. count[k] \in [ItemTerminal -> Nat]
        BY DEF JobsTypeOK
      <3> QED
        BY <3>1, <3>2 DEF AdjustCount, ItemTerminal
    <2> QED
      BY <2>2, <2>3, <2>4, <2>5, UnfinishedInv, CancelledUnderWay
  <1> QED
    BY <1>1, <1>2

\* Settlement writes the status it computed when it read the row.
LEMMA BatchSettle ==
    ASSUME TypeOK, NEW j \in Jobs, LoadSettlement(j) \/ SettleJob(j), \A k \in Jobs : BatchInv(k), NEW k \in Jobs
    PROVE  BatchInv(k)'
  <1> USE DEF TypeOK, itemVars, requestVars, jobVars
  <1>1. CASE k # j
    <2>1. Untouched(k)
      BY <1>1 DEF LoadSettlement, SettleJob, ReleaseHold, Untouched, Abandoned, JobsTypeOK, RequestsTypeOK
    <2> QED
      BY <2>1, UntouchedInv
  <1>2. ItemsOf(j)' = ItemsOf(j) /\ ItemCount(j)' = ItemCount(j) /\ (Abandoned(j)' <=> Abandoned(j))
    BY DEF LoadSettlement, SettleJob, ItemsOf, ItemCount, Abandoned
  <1>3. UNCHANGED <<istatus, count, stopRequested>>
    BY DEF LoadSettlement, SettleJob
  <1>4. Due(j)' = Due(j)
    BY <1>2, <1>3 DEF Due
  <1>5. CASE k = j /\ LoadSettlement(j)
    <2>1. target'[j] = Due(j) /\ status[j] = "settling" /\ j \notin settled /\ UNCHANGED <<status, settled, hold>>
      BY <1>5 DEF LoadSettlement, Due, RequestsTypeOK
    <2> QED
      BY <1>2, <1>3, <1>4, <1>5, <2>1
         DEF BatchInv, SettlementInv, HoldInv, QuietInv, StatusInv, Ended
  <1>6. CASE k = j /\ SettleJob(j) /\ UNCHANGED <<status, settled, hold>>
    <2>1. target'[j] = "none"
      BY <1>6 DEF SettleJob, RequestsTypeOK
    <2> QED
      BY <1>2, <1>3, <1>4, <1>6, <2>1
         DEF BatchInv, SettlementInv, HoldInv, QuietInv, StatusInv, Ended
  <1>7. CASE k = j /\ SettleJob(j) /\ j \notin settled /\ status'[j] = target[j] /\ settled' = settled \cup {j}
             /\ ReleaseHold(j)
    <2>1. status[j] = "settling" /\ target[j] = Due(j) /\ target[j] \in JobTerminal
      BY <1>7 DEF SettleJob, BatchInv, SettlementInv, StatusInv, RequestsTypeOK
    <2>2. hold'[j] # "open" /\ j \in settled'
      BY <1>7 DEF ReleaseHold, JobsTypeOK
    <2>3. Ended(j)
      BY <2>1 DEF Ended
    <2>4. SettlementInv(j)' /\ HoldInv(j)'
      BY <1>7, <2>1, <2>2 DEF SettlementInv, HoldInv
    <2>5. QuietInv(j)'
      BY <1>2, <1>3, <1>7, <2>3 DEF BatchInv, QuietInv, ItemTerminal
    <2>6. StatusInv(j)'
      BY <1>3, <1>4, <1>7, <2>1, <2>2 DEF BatchInv, StatusInv
    <2> QED
      BY <1>7, <2>4, <2>5, <2>6 DEF BatchInv
  <1> QED
    BY <1>1, <1>5, <1>6, <1>7 DEF SettleJob, JobsTypeOK

\* The reaper, which handles a batch in at most one of its three ways.
LEMMA BatchReap ==
    ASSUME TypeOK, CountersMatchItems, CountersMatchItems', NEW dead, NEW stale, NEW stuck,
           ReapStaleJobs(dead, stale, stuck), \A k \in Jobs : BatchInv(k), NEW k \in Jobs
    PROVE  BatchInv(k)'
  <1> USE DEF TypeOK, requestVars
  <1> DEFINE cut  == {i \in Items \ dead : JobOf[i] \in stale /\ istatus[i] = "pending"}
             lost == {i \in Items : JobOf[i] \in stale /\ istatus[i] = "running"}
  <1>0. /\ dead \subseteq {i \in Items : istatus[i] = "pending"}
        /\ \A i \in Items : istatus'[i] = IF i \in dead \cup lost THEN "failed"
                                          ELSE IF i \in cut THEN "cancelled" ELSE istatus[i]
        /\ hold'[k] = IF k \in stale \cup stuck /\ hold[k] = "open" THEN "released" ELSE hold[k]
        /\ settled' = settled \cup stuck
        /\ UNCHANGED <<stopRequested, target>>
    BY DEF ReapStaleJobs, DeadPending
  <1>1. /\ count'[k]["succeeded"] = count[k]["succeeded"]
        /\ count'[k]["failed"] = count[k]["failed"] + Tally(dead \cup lost, k)
        /\ count'[k]["cancelled"] = count[k]["cancelled"] + Tally(cut, k)
    <2>1. count[k]["succeeded"] \in Nat
      BY DEF JobsTypeOK, ItemTerminal
    <2>2. count'[k] = [s \in ItemTerminal |->
                          count[k][s] + (CASE s = "failed"    -> Tally(dead \cup lost, k)
                                           [] s = "cancelled" -> Tally(cut, k)
                                           [] OTHER           -> 0)]
      BY DEF ReapStaleJobs
    <2> HIDE DEF cut, lost
    <2> QED
      BY <2>1, <2>2 DEF ItemTerminal
  <1>2. status'[k] = IF k \in stale THEN "failed"
                     ELSE IF k \in SweptOut(dead) THEN "settling"
                     ELSE IF k \in stuck THEN TerminalJobStatus(ItemCount(k), count'[k], k \in stopRequested)
                     ELSE status[k]
    BY DEF ReapStaleJobs
  <1>3. /\ k \in stale => k \notin SweptOut(dead) /\ status[k] \in reapableStatuses
        /\ k \in stuck => status[k] = "settling" /\ k \notin settled
        /\ k \in SweptOut(dead) => status[k] \in reapableStatuses /\ Landed(k) + Tally(dead, k) = ItemCount(k)
    BY Sources DEF ReapStaleJobs, SweptOut
  <1>4. ItemsOf(k)' = ItemsOf(k) /\ ItemCount(k)' = ItemCount(k) /\ (Abandoned(k)' <=> Abandoned(k))
    BY DEF ReapStaleJobs, ItemsOf, ItemCount, Abandoned
  <1>5. k \notin stale => cut \cap ItemsOf(k) = {} /\ lost \cap ItemsOf(k) = {}
    BY DEF ItemsOf
  <1>6. k \notin stale => Tally(cut, k) = 0 /\ Tally(dead \cup lost, k) = Tally(dead, k)
    <2>1. k \notin stale => (dead \cup lost) \cap ItemsOf(k) = dead \cap ItemsOf(k)
      BY <1>5
    <2> QED
      BY <1>5, <2>1, FS_EmptySet DEF Tally
  <1>7. \A i \in ItemsOf(k) : i \in Items /\ JobOf[i] = k
    BY DEF ItemsOf
  <1>8. status[k] # "none" => \A i \in ItemsOf(k) : istatus'[i] # "none"
    BY <1>0, <1>7 DEF BatchInv, QuietInv
  <1>9. count[k] \in [ItemTerminal -> Nat] /\ Tally(dead, k) \in Nat
    BY <1>0, SubsetCardinality DEF JobsTypeOK, Tally
  <1>10. CASE k \in stale
    <2>1. target[k] = "none" /\ k \notin settled /\ k \notin stuck /\ status[k] # "none"
      BY <1>3, <1>10 DEF BatchInv, SettlementInv, reapableStatuses, JobTerminal
    <2>2. status'[k] = "failed" /\ hold'[k] # "open" /\ k \notin settled' /\ target'[k] = "none"
      BY <1>0, <1>2, <1>10, <2>1
    <2>3. \A i \in ItemsOf(k) : istatus'[i] \in ItemTerminal
      <3> SUFFICES ASSUME NEW i \in ItemsOf(k) PROVE istatus'[i] \in ItemTerminal
        OBVIOUS
      <3>1. istatus[i] \in {"pending", "running"} \cup ItemTerminal
        BY <1>7, <2>1 DEF BatchInv, QuietInv, ItemsTypeOK, AllItemStatuses, ItemTerminal
      <3> QED
        BY <1>0, <1>7, <1>10, <3>1 DEF ItemTerminal
    <2> HIDE DEF cut, lost
    <2> QED
      BY <1>4, <2>2, <2>3 DEF BatchInv, SettlementInv, HoldInv, QuietInv, StatusInv, JobTerminal, ItemTerminal
  <1>11. CASE k \notin stale /\ k \in SweptOut(dead)
    <2>1. target[k] = "none" /\ k \notin settled /\ k \notin stuck
      BY <1>3, <1>11 DEF BatchInv, SettlementInv, reapableStatuses, JobTerminal
    <2>2. Landed(k)' = ItemCount(k)'
      <3> HIDE DEF cut, lost
      <3> QED
        BY <1>1, <1>3, <1>4, <1>6, <1>9, <1>11 DEF Landed, ItemTerminal
    <2>3. \A i \in ItemsOf(k)' : istatus'[i] \in ItemTerminal
      <3>1. (CountersMatchItems /\ Landed(k) = ItemCount(k) => \A i \in ItemsOf(k) : istatus[i] \in ItemTerminal)'
        BY LandedAfter DEF LandedMeansAll
      <3> QED
        BY <2>2, <3>1
    <2>4. ~Abandoned(k)' => hold'[k] = "open"
      BY <1>0, <1>3, <1>4, <1>11, <2>1, HoldUnderWay
    <2>5. count'[k]["cancelled"] > 0 => k \in stopRequested'
      <3> HIDE DEF cut, lost
      <3> QED
        BY <1>0, <1>1, <1>3, <1>6, <1>9, <1>11, CancelledUnderWay DEF ItemTerminal
    <2>6. status'[k] = "settling" /\ k \notin settled' /\ target'[k] = "none"
      BY <1>0, <1>2, <1>11, <2>1
    <2> HIDE DEF cut, lost
    <2> QED
      BY <2>3, <2>4, <2>5, <2>6
         DEF BatchInv, SettlementInv, HoldInv, QuietInv, StatusInv, JobTerminal, ItemTerminal
  <1>12. CASE k \notin stale /\ k \notin SweptOut(dead) /\ Ended(k)
    <2>1. dead \cap ItemsOf(k) = {}
      BY <1>0, <1>12 DEF BatchInv, QuietInv, ItemTerminal
    <2>2. \A i \in ItemsOf(k) : istatus'[i] = istatus[i]
      BY <1>0, <1>5, <1>7, <1>12, <2>1
    <2>3. count'[k] = count[k]
      <3>1. Tally(dead, k) = 0
        BY <2>1, FS_EmptySet DEF Tally
      <3>2. count'[k] = [s \in ItemTerminal |-> count'[k][s]]
        BY DEF ReapStaleJobs
      <3> HIDE DEF cut, lost
      <3> QED
        BY <1>1, <1>6, <1>9, <1>12, <3>1, <3>2 DEF ItemTerminal
    <2>4. CASE k \notin stuck
      <3>1. Untouched(k)
        BY <1>0, <1>2, <1>4, <1>12, <2>2, <2>3, <2>4 DEF Untouched
      <3> QED
        BY <3>1, UntouchedInv
    <2>5. CASE k \in stuck
      <3>1. Due(k)' = Due(k)
        BY <1>0, <1>4, <2>3 DEF Due
      <3>2. status'[k] = Due(k) /\ k \in settled' /\ hold'[k] # "open" /\ Due(k) \in JobTerminal
        BY <1>0, <1>2, <1>12, <2>3, <2>5, TerminalJobStatusType DEF Due
      <3>3. SettlementInv(k)' /\ HoldInv(k)'
        BY <3>2 DEF SettlementInv, HoldInv
      <3>4. QuietInv(k)'
        BY <1>4, <1>12, <2>2 DEF BatchInv, QuietInv, ItemTerminal
      <3>5. StatusInv(k)'
        BY <1>0, <1>3, <2>3, <2>5, <3>1, <3>2 DEF BatchInv, StatusInv
      <3> QED
        BY <3>3, <3>4, <3>5 DEF BatchInv
    <2> QED
      BY <2>4, <2>5
  <1>13. CASE k \notin stale /\ k \notin SweptOut(dead) /\ ~Ended(k)
    <2>1. k \notin stuck /\ target[k] = "none" /\ k \notin settled
      BY <1>3, <1>13 DEF Ended, BatchInv, SettlementInv
    <2>2. status'[k] = status[k] /\ hold'[k] = hold[k] /\ target'[k] = "none" /\ k \notin settled'
      BY <1>0, <1>2, <1>13, <2>1
    <2>3. count'[k]["cancelled"] = count[k]["cancelled"]
      <3> HIDE DEF cut, lost
      <3> QED
        BY <1>1, <1>6, <1>9, <1>13 DEF ItemTerminal
    <2>4. ~Ended(k)'
      BY <1>4, <1>13, <2>2 DEF Ended
    <2> HIDE DEF cut, lost
    <2> QED
      BY <1>0, <1>4, <1>8, <2>2, <2>3, <2>4, <2>1
         DEF BatchInv, SettlementInv, HoldInv, QuietInv, StatusInv
  <1> QED
    BY <1>10, <1>11, <1>12, <1>13

\* A crash forgets the settlement in progress and keeps every row.
LEMMA BatchExit ==
    ASSUME TypeOK, ProcessExit, \A k \in Jobs : BatchInv(k), NEW k \in Jobs
    PROVE  BatchInv(k)'
  <1>1. UNCHANGED <<status, settled, stopRequested, count, hold, istatus>> /\ target'[k] = "none"
    BY DEF ProcessExit, jobVars, itemVars
  <1>2. Abandoned(k)' <=> Abandoned(k)
    BY DEF ProcessExit, Abandoned
  <1>3. ItemsOf(k)' = ItemsOf(k) /\ ItemCount(k)' = ItemCount(k)
    BY DEF ItemsOf, ItemCount
  <1>4. Due(k)' = Due(k) /\ (Ended(k)' <=> Ended(k))
    BY <1>1, <1>2, <1>3 DEF Due, Ended
  <1> QED
    BY <1>1, <1>2, <1>3, <1>4 DEF BatchInv, SettlementInv, HoldInv, QuietInv, StatusInv

\* Every step preserves the invariant of every batch.
LEMMA BatchStep ==
    ASSUME TypeOK, CountersMatchItems, CountersMatchItems', [Next]_vars, \A k \in Jobs : BatchInv(k)
    PROVE  \A k \in Jobs : BatchInv(k)'
  <1> SUFFICES ASSUME NEW k \in Jobs PROVE BatchInv(k)'
    OBVIOUS
  <1> USE DEF jobVars, itemVars, requestVars
  <1>0. ASSUME UNCHANGED <<status, settled, stopRequested, count, hold, istatus, submit, target>> PROVE BatchInv(k)'
    BY <1>0, UntouchedInv DEF Untouched, Abandoned
  <1>1. ASSUME NEW j \in Jobs, HeartbeatGoesStale(j) \/ StopJob(j) PROVE BatchInv(k)'
    BY <1>1, <1>0 DEF HeartbeatGoesStale, StopJob
  <1>2. ASSUME NEW w \in Workers,
               \/ LoadJob(w) \/ PrepareFails(w) \/ InvokeGateway(w) \/ GatewayReturns(w)
               \/ ShutdownCancels(w) \/ RenewItemLease(w)
               \/ LoadJobFails(w) \/ WriteBackFails(w) \/ FinalizeJobFails(w)
        PROVE  BatchInv(k)'
    BY <1>2, <1>0 DEF LoadJob, PrepareFails, InvokeGateway, GatewayReturns, ShutdownCancels, RenewItemLease,
                      LoadJobFails, WriteBackFails, FinalizeJobFails
  <1>3. ASSUME NEW i \in Items, LeaseExpires(i) PROVE BatchInv(k)'
    BY <1>3, <1>0 DEF LeaseExpires
  <1>4. CASE Heartbeat \/ PoolStop \/ ProcessStart \/ UNCHANGED vars
    BY <1>4, <1>0 DEF Heartbeat, PoolStop, ProcessStart, vars
  <1> QED
    BY <1>1, <1>2, <1>3, <1>4, BatchCreate, BatchSubmit, BatchAbandon, BatchClaim, BatchWriteBack,
       BatchMarkRunning, BatchFinalizers, BatchStop, BatchRetry, BatchSettle, BatchReap, BatchExit
       DEF Next, WorkerStep, Reaping

\* The inductive invariant of the life of every batch.
Lifecycle == \A j \in Jobs : BatchInv(j)

\* The same as a formula.
LEMMA LifecycleStep == TypeOK /\ CountersMatchItems /\ CountersMatchItems' /\ Lifecycle /\ [Next]_vars => Lifecycle'
  BY BatchStep DEF Lifecycle

\* The invariant of the life of every batch holds in every reachable state.
THEOREM LifecycleInvariant == Spec => []Lifecycle
  <1>1. Init => Lifecycle
    BY BatchInit DEF Lifecycle
  <1> QED
    BY <1>1, LifecycleStep, TypeCorrect, CountersNeverDrift, PTL DEF Spec

\* Nothing is generated for a batch that is settling or over, unless its submission was abandoned.
THEOREM FinishedQuiet == Spec => []FinishedBatchIsQuiet
  <1>1. Lifecycle => FinishedBatchIsQuiet
    BY JobOfAssumption DEF Lifecycle, BatchInv, SettlementInv, QuietInv, Ended, FinishedBatchIsQuiet, ItemsOf, JobTerminal
  <1> QED
    BY <1>1, LifecycleInvariant, PTL

\* Credit is frozen exactly while a batch is under way, unless its submission was abandoned.
THEOREM HoldsExact == Spec => []HoldOpenIffUnfinished
  <1>1. Lifecycle => HoldOpenIffUnfinished
    BY DEF Lifecycle, BatchInv, HoldInv, HoldOpenIffUnfinished
  <1> QED
    BY <1>1, LifecycleInvariant, PTL

\* A settled batch has the status its image rows call for, whatever arrived while it was settled.
THEOREM SettledExact == Spec => []SettledStatusMatchesItems
  <1>1. TypeOK /\ CountersMatchItems /\ Lifecycle => SettledStatusMatchesItems
    <2> SUFFICES ASSUME TypeOK, CountersMatchItems, Lifecycle, NEW j \in settled
                 PROVE  status[j] = TerminalJobStatus(ItemCount(j),
                                        [s \in ItemTerminal |-> Cardinality(RowsIn(j, s))], j \in stopRequested)
      BY DEF SettledStatusMatchesItems
    <2>1. j \in Jobs
      BY DEF TypeOK, JobsTypeOK
    <2>2. count[j] = [s \in ItemTerminal |-> Cardinality(RowsIn(j, s))]
      BY <2>1 DEF CountersMatchItems, TypeOK, JobsTypeOK
    <2> QED
      BY <2>1, <2>2 DEF Lifecycle, BatchInv, StatusInv, Due
  <1> QED
    BY <1>1, LifecycleInvariant, CountersNeverDrift, TypeCorrect, PTL

\* No action takes a batch out of a terminal status.
LEMMA TerminalStep ==
    ASSUME TypeOK, Lifecycle, [Next]_vars, NEW k \in Jobs, status[k] \in JobTerminal
    PROVE  status'[k] = status[k]
  <1> USE JobOfAssumption DEF TypeOK, jobVars, JobTerminal
  <1>1. ASSUME NEW j \in Jobs, CreateJob(j) \/ StartJob(j) \/ StartJobFails(j) \/ AbandonKill(j)
        PROVE  status'[k] = status[k]
    <2>1. CASE CreateJob(j)
      BY <2>1 DEF CreateJob, JobsTypeOK
    <2>2. CASE StartJob(j) \/ StartJobFails(j)
      BY <2>2 DEF StartJob, StartJobFails, Promote, JobsTypeOK, RequestsTypeOK
    <2>3. CASE AbandonKill(j)
      BY <2>3 DEF AbandonKill, JobsTypeOK, RequestsTypeOK
    <2> QED
      BY <1>1, <2>1, <2>2, <2>3
  <1>2. ASSUME NEW j \in Jobs,
               \/ AbandonRelease(j) \/ HeartbeatGoesStale(j) \/ StopJob(j) \/ RequestJobStop(j) \/ LoadSettlement(j)
        PROVE  status'[k] = status[k]
    BY <1>2 DEF AbandonRelease, HeartbeatGoesStale, StopJob, RequestJobStop, LoadSettlement
  <1>3. ASSUME NEW j \in Jobs, Finalize(j) PROVE status'[k] = status[k]
    BY <1>3, Sources DEF Finalize, reapableStatuses, JobsTypeOK
  <1>4. ASSUME NEW j \in Jobs, FinalizeAfterStop(j) PROVE status'[k] = status[k]
    BY <1>4, <1>3 DEF FinalizeAfterStop
  <1>5. ASSUME NEW j \in Jobs, SettleJob(j) PROVE status'[k] = status[k]
    BY <1>5 DEF SettleJob, Lifecycle, BatchInv, SettlementInv, JobsTypeOK
  <1>6. ASSUME NEW w \in Workers, FinalizeJob(w) PROVE status'[k] = status[k]
    <2>1. WorkerJob(w) \in Jobs
      BY <1>6 DEF FinalizeJob, WorkerJob, WorkersTypeOK
    <2> QED
      BY <1>6, <1>3, <2>1 DEF FinalizeJob
  <1>7. ASSUME NEW w \in Workers,
               \/ LoadJob(w) \/ MarkRunning(w) \/ PrepareFails(w) \/ InvokeGateway(w) \/ GatewayReturns(w)
               \/ ShutdownCancels(w) \/ WriteBack(w) \/ RenewItemLease(w)
               \/ LoadJobFails(w) \/ WriteBackFails(w) \/ FinalizeJobFails(w)
               \/ \E i \in Items : ClaimNextItem(w, i)
        PROVE  status'[k] = status[k]
    BY <1>7 DEF LoadJob, MarkRunning, PrepareFails, InvokeGateway, GatewayReturns, ShutdownCancels, WriteBack,
                RenewItemLease, LoadJobFails, WriteBackFails, FinalizeJobFails, ClaimNextItem, JobsTypeOK
  <1>8. ASSUME NEW i \in Items, LeaseExpires(i) PROVE status'[k] = status[k]
    BY <1>8 DEF LeaseExpires
  <1>9. ASSUME NEW i \in Items, RetryItem(i) PROVE status'[k] = status[k]
    <2>1. status[JobOf[i]] \in {"holding", "running"}
      BY <1>9, RetryUnderWay DEF RetryItem, Lifecycle
    <2> QED
      BY <1>9, <2>1 DEF RetryItem, JobsTypeOK
  <1>10. ASSUME NEW dead, NEW stale, NEW stuck, ReapStaleJobs(dead, stale, stuck) PROVE status'[k] = status[k]
    BY <1>10, Sources DEF ReapStaleJobs, SweptOut, reapableStatuses
  <1>11. CASE Heartbeat \/ PoolStop \/ ProcessExit \/ ProcessStart \/ UNCHANGED vars
    BY <1>11 DEF Heartbeat, PoolStop, ProcessExit, ProcessStart, vars
  <1> QED
    BY <1>1, <1>2, <1>4, <1>5, <1>6, <1>7, <1>8, <1>9, <1>10, <1>11 DEF Next, WorkerStep, Reaping

\* A terminal status is never left: the branch of updateJobForRetry that would pull a finished
\* batch back to running is dead code, for any number of batches, images and workers.
THEOREM TerminalForever == Spec => TerminalIsForever
  <1>1. TypeOK /\ Lifecycle /\ [Next]_vars => [\A j \in Jobs : status[j] \in JobTerminal => status'[j] = status[j]]_vars
    BY TerminalStep
  <1> QED
    BY <1>1, LifecycleInvariant, TypeCorrect, PTL DEF Spec, TerminalIsForever

-----------------------------------------------------------------------------
(***************************************************************************)
(* What Settlement takes for granted of a batch that reached settling: a   *)
(* delivered image was called for under the id of its latest attempt, the  *)
(* one id settlement waits for, and no image row moves while it settles.   *)
(***************************************************************************)

\* The id that billingCandidates requires of a delivered image went to the gateway.
DeliveredWasCalled == \A i \in Items : istatus[i] = "succeeded" => <<i, attempt[i]>> \in called

\* A worker that waits for the gateway, or holds its images, has made its call.
ResultsWereCalled == \A w \in Workers : wpc[w] \in {"calling", "success"} => <<witem[w], wattempt[w]>> \in called

PaidWork == ResultsWereCalled /\ DeliveredWasCalled

\* Calls are never forgotten, and only InvokeGateway takes a worker to the gateway.
LEMMA ResultsStep ==
    ASSUME TypeOK, ResultsWereCalled, [Next]_vars
    PROVE  ResultsWereCalled' /\ called \subseteq called'
  <1> USE DEF TypeOK
  <1>1. called \subseteq called'
    BY CalledFrame DEF InvokeGateway
  <1>2. ASSUME NEW v \in Workers, wpc'[v] \in {"calling", "success"}
        PROVE  \/ wpc[v] \in {"calling", "success"} /\ witem'[v] = witem[v] /\ wattempt'[v] = wattempt[v]
               \/ InvokeGateway(v)
    <2>0. ASSUME UNCHANGED workerVars
          PROVE  wpc[v] \in {"calling", "success"} /\ witem'[v] = witem[v] /\ wattempt'[v] = wattempt[v]
      BY <1>2, <2>0 DEF workerVars
    <2>1. ASSUME NEW w \in Workers, Done(w)
          PROVE  wpc[v] \in {"calling", "success"} /\ witem'[v] = witem[v] /\ wattempt'[v] = wattempt[v]
      BY <1>2, <2>1 DEF Done, WorkersTypeOK
    <2>2. ASSUME NEW w \in Workers, NEW p, Move(w, p),
                 p \notin {"calling", "success"} \/ wpc[w] = "calling"
          PROVE  wpc[v] \in {"calling", "success"} /\ witem'[v] = witem[v] /\ wattempt'[v] = wattempt[v]
      BY <1>2, <2>2 DEF Move, WorkersTypeOK
    <2>3. ASSUME NEW w \in Workers, NEW i \in Items, ClaimNextItem(w, i)
          PROVE  wpc[v] \in {"calling", "success"} /\ witem'[v] = witem[v] /\ wattempt'[v] = wattempt[v]
      BY <1>2, <2>3 DEF ClaimNextItem, WorkersTypeOK
    <2>4. ASSUME NEW w \in Workers, LoadJob(w) \/ MarkRunning(w) \/ PrepareFails(w) \/ LoadJobFails(w)
          PROVE  wpc[v] \in {"calling", "success"} /\ witem'[v] = witem[v] /\ wattempt'[v] = wattempt[v]
      BY <2>4, <2>2 DEF LoadJob, MarkRunning, PrepareFails, LoadJobFails
    <2>5. ASSUME NEW w \in Workers, GatewayReturns(w) \/ ShutdownCancels(w)
          PROVE  wpc[v] \in {"calling", "success"} /\ witem'[v] = witem[v] /\ wattempt'[v] = wattempt[v]
      BY <2>5, <2>2 DEF GatewayReturns, ShutdownCancels
    <2>6. ASSUME NEW w \in Workers,
                 \/ WriteBack(w) \/ FinalizeJob(w) \/ RenewItemLease(w) \/ WriteBackFails(w) \/ FinalizeJobFails(w)
          PROVE  wpc[v] \in {"calling", "success"} /\ witem'[v] = witem[v] /\ wattempt'[v] = wattempt[v]
      BY <2>6, <2>0, <2>1, <2>2 DEF WriteBack, FinalizeJob, RenewItemLease, WriteBackFails, FinalizeJobFails
    <2>7. ASSUME NEW w \in Workers, InvokeGateway(w), w # v
          PROVE  wpc[v] \in {"calling", "success"} /\ witem'[v] = witem[v] /\ wattempt'[v] = wattempt[v]
      BY <1>2, <2>7 DEF InvokeGateway, Move, WorkersTypeOK
    <2>8. ASSUME NEW i \in Items, LeaseExpires(i) \/ RetryItem(i)
          PROVE  wpc[v] \in {"calling", "success"} /\ witem'[v] = witem[v] /\ wattempt'[v] = wattempt[v]
      BY <2>8, <2>0 DEF LeaseExpires, RetryItem
    <2>9. CASE Heartbeat \/ Reaping \/ PoolStop \/ ProcessStart \/ UNCHANGED vars
      BY <2>9, <2>0 DEF Heartbeat, Reaping, ReapStaleJobs, PoolStop, ProcessStart, vars
    <2>10. CASE ProcessExit
      BY <1>2, <2>10 DEF ProcessExit
    <2> QED
      BY <2>0, <2>3, <2>4, <2>5, <2>6, <2>7, <2>8, <2>9, <2>10, WorkersFrame DEF Next, WorkerStep
  <1>3. ASSUME NEW v \in Workers, InvokeGateway(v) PROVE <<witem'[v], wattempt'[v]>> \in called'
    BY <1>3 DEF InvokeGateway, Move
  <1> QED
    BY <1>1, <1>2, <1>3 DEF ResultsWereCalled

\* An image is delivered by the write-back of a worker that owns it, and by nothing else.
LEMMA DeliveredStep ==
    ASSUME TypeOK, LeaseInv, PaidWork, [Next]_vars
    PROVE  DeliveredWasCalled'
  <1> USE DEF TypeOK
  <1>1. called \subseteq called'
    BY ResultsStep DEF PaidWork
  <1> SUFFICES ASSUME NEW i \in Items, istatus'[i] = "succeeded" PROVE <<i, attempt'[i]>> \in called'
    BY DEF DeliveredWasCalled
  <1>2. ASSUME istatus[i] = "succeeded", attempt'[i] = attempt[i] PROVE <<i, attempt'[i]>> \in called'
    BY <1>1, <1>2 DEF PaidWork, DeliveredWasCalled
  <1>3. ASSUME NEW w \in Workers, NEW k \in Items, ClaimNextItem(w, k) PROVE <<i, attempt'[i]>> \in called'
    <2>1. i # k /\ istatus[i] = "succeeded" /\ attempt'[i] = attempt[i]
      BY <1>3 DEF ClaimNextItem, ItemsTypeOK
    <2> QED
      BY <2>1, <1>2
  <1>4. ASSUME ~Claims PROVE <<i, attempt'[i]>> \in called'
    <2>1. attempt' = attempt
      BY <1>4, RowsShrinkStep DEF RowsShrink
    <2>2. ASSUME UNCHANGED istatus PROVE istatus[i] = "succeeded"
      BY <2>2
    <2>3. ASSUME NEW j \in Jobs,
                 \/ CreateJob(j) \/ StartJob(j) \/ StartJobFails(j) \/ AbandonRelease(j) \/ AbandonKill(j)
                 \/ HeartbeatGoesStale(j) \/ StopJob(j) \/ RequestJobStop(j) \/ FinalizeAfterStop(j)
                 \/ LoadSettlement(j) \/ SettleJob(j)
          PROVE  istatus[i] = "succeeded"
      BY <2>3 DEF CreateJob, StartJob, StartJobFails, AbandonRelease, AbandonKill, HeartbeatGoesStale, StopJob,
                  RequestJobStop, FinalizeAfterStop, LoadSettlement, SettleJob, itemVars
    <2>4. ASSUME NEW w \in Workers,
                 \/ LoadJob(w) \/ MarkRunning(w) \/ PrepareFails(w) \/ InvokeGateway(w)
                 \/ GatewayReturns(w) \/ ShutdownCancels(w) \/ FinalizeJob(w) \/ RenewItemLease(w)
                 \/ LoadJobFails(w) \/ WriteBackFails(w) \/ FinalizeJobFails(w)
          PROVE  istatus[i] = "succeeded"
      BY <2>4, <2>2 DEF LoadJob, MarkRunning, PrepareFails, InvokeGateway, GatewayReturns, ShutdownCancels,
                        FinalizeJob, RenewItemLease, LoadJobFails, WriteBackFails, FinalizeJobFails, itemVars
    <2>5. ASSUME NEW w \in Workers, WriteBack(w) PROVE <<i, attempt'[i]>> \in called'
      <3>1. CASE istatus[i] = "succeeded"
        BY <2>1, <3>1, <1>2
      <3>2. CASE istatus[i] # "succeeded"
        <4>1. Owns(w) /\ wpc[w] = "success" /\ witem[w] = i
          BY <2>5, <3>2 DEF WriteBack, CompleteItemSuccess, FailItem, RequeueItem, ItemsTypeOK, Writing, WorkersTypeOK
        <4>2. wattempt[w] = attempt[i]
          BY <4>1 DEF LeaseInv, GuardImpliesLatestAttempt, Writing
        <4> QED
          BY <1>1, <2>1, <4>1, <4>2 DEF PaidWork, ResultsWereCalled
      <3> QED
        BY <3>1, <3>2
    <2>6. ASSUME NEW k \in Items, LeaseExpires(k) \/ RetryItem(k) PROVE istatus[i] = "succeeded"
      BY <2>6 DEF LeaseExpires, RetryItem, ItemsTypeOK
    <2>7. CASE Reaping
      BY <2>1, <2>7, <1>2 DEF Reaping, ReapStaleJobs
    <2>8. CASE Heartbeat \/ PoolStop \/ ProcessExit \/ ProcessStart \/ UNCHANGED vars
      BY <2>1, <2>2, <2>8, <1>2 DEF Heartbeat, PoolStop, ProcessExit, ProcessStart, vars, itemVars
    <2> QED
      BY <1>2, <1>4, <2>1, <2>3, <2>4, <2>5, <2>6, <2>7, <2>8 DEF Next, WorkerStep, Claims
  <1> QED
    BY <1>3, <1>4 DEF Claims

\* An image that was delivered, through crashes, lost leases and retries, was called for under
\* the id of its latest attempt: settlement never waits for the bill of a call nobody made.
THEOREM DeliveriesWereCalled == Spec => []DeliveredWasCalled
  <1>1. Init => PaidWork
    BY DEF Init, PaidWork, ResultsWereCalled, DeliveredWasCalled
  <1>2. TypeOK /\ LeaseInv /\ PaidWork /\ [Next]_vars => PaidWork'
    BY ResultsStep, DeliveredStep DEF PaidWork
  <1>3. PaidWork => DeliveredWasCalled
    BY DEF PaidWork
  <1> QED
    BY <1>1, <1>2, <1>3, TypeCorrect, LeaseInvariant, PTL DEF Spec

\* While a batch is settling no step changes the status or the attempts of its images.
SettlingIsFrozen ==
    [][\A i \in Items : status[JobOf[i]] = "settling" => istatus'[i] = istatus[i] /\ attempt'[i] = attempt[i]]_vars

\* Every image of a settling batch has landed, and a landed image moves by a retry only.
LEMMA FrozenStep ==
    ASSUME TypeOK, Lifecycle, [Next]_vars, NEW i \in Items, status[JobOf[i]] = "settling"
    PROVE  istatus'[i] = istatus[i] /\ attempt'[i] = attempt[i]
  <1> USE JobOfAssumption DEF TypeOK
  <1>1. istatus[i] \in ItemTerminal
    BY DEF Lifecycle, BatchInv, QuietInv, Ended, ItemsOf
  <1>2. istatus[i] # "pending" /\ istatus[i] # "running"
    BY <1>1 DEF ItemTerminal
  <1>3. ASSUME NEW w \in Workers, NEW k \in Items, ClaimNextItem(w, k)
        PROVE  istatus'[i] = istatus[i] /\ attempt'[i] = attempt[i]
    <2>1. i # k
      BY <1>2, <1>3 DEF ClaimNextItem, Claimable
    <2> QED
      BY <1>3, <2>1 DEF ClaimNextItem, ItemsTypeOK
  <1>4. ASSUME ~Claims PROVE istatus'[i] = istatus[i] /\ attempt'[i] = attempt[i]
    <2>1. attempt' = attempt
      BY <1>4, RowsShrinkStep DEF RowsShrink
    <2>2. ASSUME NEW j \in Jobs, CreateJob(j) \/ RequestJobStop(j) PROVE istatus'[i] = istatus[i]
      BY <1>2, <2>2 DEF CreateJob, RequestJobStop, ItemsOf
    <2>3. ASSUME NEW j \in Jobs,
                 \/ StartJob(j) \/ StartJobFails(j) \/ AbandonRelease(j) \/ AbandonKill(j)
                 \/ HeartbeatGoesStale(j) \/ StopJob(j) \/ FinalizeAfterStop(j) \/ LoadSettlement(j) \/ SettleJob(j)
          PROVE  istatus' = istatus
      BY <2>3 DEF StartJob, StartJobFails, AbandonRelease, AbandonKill, HeartbeatGoesStale, StopJob,
                  FinalizeAfterStop, LoadSettlement, SettleJob, itemVars
    <2>4. ASSUME NEW w \in Workers,
                 \/ LoadJob(w) \/ MarkRunning(w) \/ PrepareFails(w) \/ InvokeGateway(w)
                 \/ GatewayReturns(w) \/ ShutdownCancels(w) \/ FinalizeJob(w) \/ RenewItemLease(w)
                 \/ LoadJobFails(w) \/ WriteBackFails(w) \/ FinalizeJobFails(w)
          PROVE  istatus' = istatus
      BY <2>4 DEF LoadJob, MarkRunning, PrepareFails, InvokeGateway, GatewayReturns, ShutdownCancels,
                  FinalizeJob, RenewItemLease, LoadJobFails, WriteBackFails, FinalizeJobFails, itemVars
    <2>5. ASSUME NEW w \in Workers, WriteBack(w) PROVE istatus'[i] = istatus[i]
      BY <1>2, <2>5 DEF WriteBack, Owns, CompleteItemSuccess, FailItem, RequeueItem, ItemsTypeOK
    <2>6. ASSUME NEW k \in Items, RetryItem(k) PROVE istatus'[i] = istatus[i]
      <3>1. status[JobOf[k]] \in {"holding", "running"}
        BY <2>6, RetryUnderWay DEF RetryItem, Lifecycle
      <3> QED
        BY <2>6, <3>1 DEF RetryItem, ItemsTypeOK
    <2>7. CASE Reaping
      BY <1>2, <2>7 DEF Reaping, ReapStaleJobs, DeadPending
    <2>8. ASSUME NEW k \in Items, LeaseExpires(k) PROVE istatus' = istatus
      BY <2>8 DEF LeaseExpires
    <2>9. CASE Heartbeat \/ PoolStop \/ ProcessExit \/ ProcessStart \/ UNCHANGED vars
      BY <2>9 DEF Heartbeat, PoolStop, ProcessExit, ProcessStart, vars, itemVars
    <2>10. istatus'[i] = istatus[i]
      BY <1>4, <2>2, <2>3, <2>4, <2>5, <2>6, <2>7, <2>8, <2>9 DEF Next, WorkerStep, Claims
    <2> QED
      BY <2>1, <2>10
  <1> QED
    BY <1>3, <1>4 DEF Claims

\* Stop and retry requests, late workers, the reaper and restarts all leave the image rows of a
\* settling batch alone: what a settlement round enumerates is what the next one enumerates.
THEOREM SettlingRowsFrozen == Spec => SettlingIsFrozen
  <1>1. TypeOK /\ Lifecycle /\ [Next]_vars
        => [\A i \in Items : status[JobOf[i]] = "settling" => istatus'[i] = istatus[i] /\ attempt'[i] = attempt[i]]_vars
    BY FrozenStep
  <1> QED
    BY <1>1, LifecycleInvariant, TypeCorrect, PTL DEF Spec, SettlingIsFrozen

-----------------------------------------------------------------------------
(***************************************************************************)
(* JobQueue implements BatchLedger, for any number of batches, images and  *)
(* workers: every step of the queue is a step of the ledger for every      *)
(* batch, or leaves what its owner sees as it was.                         *)
(***************************************************************************)

-----------------------------------------------------------------------------
(* Before its submission a batch has no request and no hold                *)

Unsubmitted == \A j \in Jobs : status[j] = "none" => submit[j] = "none" /\ hold[j] = "none"

\* Rows, requests and holds of a batch appear in one transaction.
LEMMA UnsubmittedStep == TypeOK /\ Unsubmitted /\ [Next]_vars => Unsubmitted'
  <1> SUFFICES ASSUME TypeOK, Unsubmitted, [Next]_vars, NEW k \in Jobs, status'[k] = "none"
               PROVE  submit'[k] = "none" /\ hold'[k] = "none"
    BY DEF Unsubmitted
  <1> USE JobOfAssumption DEF TypeOK, jobVars, requestVars, Unsubmitted
  <1>0. ASSUME UNCHANGED <<status, submit, hold>> PROVE submit'[k] = "none" /\ hold'[k] = "none"
    BY <1>0
  <1>1. ASSUME NEW j \in Jobs, CreateJob(j) \/ StartJob(j) \/ StartJobFails(j)
        PROVE  submit'[k] = "none" /\ hold'[k] = "none"
    BY <1>1 DEF CreateJob, StartJob, StartJobFails, Promote, NextStatus, JobsTypeOK, RequestsTypeOK
  <1>2. ASSUME NEW j \in Jobs, AbandonRelease(j) \/ AbandonKill(j)
        PROVE  submit'[k] = "none" /\ hold'[k] = "none"
    BY <1>2 DEF AbandonRelease, AbandonKill, ReleaseHold, JobsTypeOK, RequestsTypeOK
  <1>3. ASSUME NEW j \in Jobs, HeartbeatGoesStale(j) \/ StopJob(j) \/ RequestJobStop(j) \/ LoadSettlement(j)
        PROVE  submit'[k] = "none" /\ hold'[k] = "none"
    BY <1>3, <1>0 DEF HeartbeatGoesStale, StopJob, RequestJobStop, LoadSettlement
  <1>4. ASSUME NEW j \in Jobs, FinalizeAfterStop(j) PROVE submit'[k] = "none" /\ hold'[k] = "none"
    BY <1>4 DEF FinalizeAfterStop, Finalize, JobsTypeOK
  <1>5. ASSUME NEW j \in Jobs, SettleJob(j) PROVE submit'[k] = "none" /\ hold'[k] = "none"
    BY <1>5 DEF SettleJob, ReleaseHold, JobsTypeOK, RequestsTypeOK
  <1>6. ASSUME NEW w \in Workers,
               \/ LoadJob(w) \/ PrepareFails(w) \/ InvokeGateway(w) \/ GatewayReturns(w)
               \/ ShutdownCancels(w) \/ WriteBack(w) \/ RenewItemLease(w)
               \/ LoadJobFails(w) \/ WriteBackFails(w) \/ FinalizeJobFails(w)
               \/ \E i \in Items : ClaimNextItem(w, i)
        PROVE  submit'[k] = "none" /\ hold'[k] = "none"
    BY <1>6, <1>0 DEF LoadJob, PrepareFails, InvokeGateway, GatewayReturns, ShutdownCancels, WriteBack,
                      RenewItemLease, LoadJobFails, WriteBackFails, FinalizeJobFails, ClaimNextItem
  <1>7. ASSUME NEW w \in Workers, MarkRunning(w) \/ FinalizeJob(w)
        PROVE  submit'[k] = "none" /\ hold'[k] = "none"
    BY <1>7 DEF MarkRunning, FinalizeJob, Finalize, JobsTypeOK
  <1>8. ASSUME NEW i \in Items, LeaseExpires(i) PROVE submit'[k] = "none" /\ hold'[k] = "none"
    BY <1>8, <1>0 DEF LeaseExpires
  <1>9. ASSUME NEW i \in Items, RetryItem(i) PROVE submit'[k] = "none" /\ hold'[k] = "none"
    BY <1>9 DEF RetryItem, RetryAllowed, JobTerminal, JobsTypeOK
  <1>10. ASSUME NEW dead, NEW stale, NEW stuck, ReapStaleJobs(dead, stale, stuck)
         PROVE  submit'[k] = "none" /\ hold'[k] = "none"
    <2>1. status[k] = "none"
      BY <1>10, TerminalJobStatusType DEF ReapStaleJobs, JobTerminal
    <2> QED
      BY <1>10, <2>1 DEF ReapStaleJobs
  <1>11. CASE ProcessExit
    BY <1>11 DEF ProcessExit, Abandoned
  <1>12. CASE Heartbeat \/ PoolStop \/ ProcessStart \/ UNCHANGED vars
    BY <1>12, <1>0 DEF Heartbeat, PoolStop, ProcessStart, vars
  <1> QED
    BY <1>1, <1>2, <1>3, <1>4, <1>5, <1>6, <1>7, <1>8, <1>9, <1>10, <1>11, <1>12 DEF Next, WorkerStep, Reaping

\* A batch without rows has neither a request in progress nor a hold, at any time.
LEMMA UnsubmittedInvariant == Spec => []Unsubmitted
  <1>1. Init => Unsubmitted
    BY DEF Init, Unsubmitted
  <1> QED
    BY <1>1, UnsubmittedStep, TypeCorrect, PTL DEF Spec
-----------------------------------------------------------------------------
(* What a step can do to one batch that is not abandoned                   *)

Delivered(k) == RowsIn(k, "succeeded")

SameDelivered(k) == Delivered(k)' = Delivered(k)

\* The six ways its status and its delivered images can change together.
Moves(k) ==
    \/ status'[k] = status[k] /\ SameDelivered(k)
    \/ status[k] = "none" /\ status'[k] = "created" /\ SameDelivered(k)
    \/ status[k] \in reapableStatuses /\ status'[k] \in reapableStatuses \cup {"settling", "failed"} /\ SameDelivered(k)
    \/ status[k] = "settling" /\ k \in settled' /\ SameDelivered(k)
    \/ /\ status[k] \in reapableStatuses /\ status'[k] = status[k]
       /\ \E i \in ItemsOf(k) \ Delivered(k) : Delivered(k)' = Delivered(k) \cup {i}
    \/ /\ status[k] \in reapableStatuses /\ status'[k] = status[k]
       /\ \E i \in Delivered(k) : Delivered(k)' = Delivered(k) \ {i}

\* Delivered images are those of the item rows.
LEMMA RowsSame ==
    ASSUME NEW k \in Jobs, \A i \in ItemsOf(k) : istatus'[i] = "succeeded" <=> istatus[i] = "succeeded"
    PROVE  SameDelivered(k)
  BY DEF SameDelivered, Delivered, RowsIn, ItemsOf

\* Only a batch that is under way has images that can still be written.
LEMMA WrittenUnderWay ==
    ASSUME TypeOK, LeaseInv, Lifecycle, NEW i \in Items, istatus[i] \in {"pending", "running"},
           ~Abandoned(JobOf[i])
    PROVE  status[JobOf[i]] \in reapableStatuses
  <1> USE JobOfAssumption DEF TypeOK
  <1>1. status[JobOf[i]] # "none"
    BY DEF LeaseInv, RowsBornTogether
  <1>2. ~Ended(JobOf[i])
    BY DEF Lifecycle, BatchInv, QuietInv, ItemsOf, ItemTerminal
  <1> QED
    BY <1>1, <1>2 DEF Ended, Lifecycle, BatchInv, SettlementInv, JobsTypeOK, AllJobStatuses, JobTerminal, reapableStatuses

\* WriteBack delivers at most the worker's own image.
LEMMA MovesWriteBack ==
    ASSUME TypeOK, LeaseInv, Lifecycle, NEW w \in Workers, WriteBack(w), NEW k \in Jobs, ~Abandoned(k)
    PROVE  Moves(k)
  <1> USE JobOfAssumption DEF TypeOK
  <1>1. witem[w] \in Items /\ status' = status
    BY DEF WriteBack, Writing, WorkersTypeOK
  <1>2. CASE istatus' = istatus \/ JobOf[witem[w]] # k
    <2>1. \A i \in ItemsOf(k) : istatus'[i] = istatus[i]
      BY <1>1, <1>2 DEF WriteBack, CompleteItemSuccess, FailItem, RequeueItem, ItemsOf, ItemsTypeOK
    <2> QED
      BY <1>1, <2>1, RowsSame DEF Moves
  <1>3. CASE JobOf[witem[w]] = k /\ Owns(w)
    <2>1. PICK t \in {"succeeded", "failed", "pending"} : istatus' = [istatus EXCEPT ![witem[w]] = t]
      BY <1>3 DEF WriteBack, CompleteItemSuccess, FailItem, RequeueItem
    <2>2. istatus[witem[w]] = "running"
      BY <1>3 DEF Owns
    <2>3. status[k] \in reapableStatuses
      BY <1>1, <1>3, <2>2, WrittenUnderWay
    <2>4. CASE t # "succeeded"
      <3>1. \A i \in ItemsOf(k) : istatus'[i] = "succeeded" <=> istatus[i] = "succeeded"
        BY <2>1, <2>2, <2>4 DEF ItemsOf, ItemsTypeOK
      <3> QED
        BY <1>1, <3>1, RowsSame DEF Moves
    <2>5. CASE t = "succeeded"
      <3>1. witem[w] \in ItemsOf(k) \ Delivered(k) /\ Delivered(k)' = Delivered(k) \cup {witem[w]}
        BY <1>1, <1>3, <2>1, <2>2, <2>5 DEF Delivered, RowsIn, ItemsOf, ItemsTypeOK
      <3> QED
        BY <1>1, <2>3, <3>1 DEF Moves
    <2> QED
      BY <2>4, <2>5
  <1> QED
    BY <1>2, <1>3 DEF WriteBack

\* RetryItem takes back at most one image of a batch that is under way.
LEMMA MovesRetry ==
    ASSUME TypeOK, Lifecycle, NEW i \in Items, RetryItem(i), NEW k \in Jobs
    PROVE  Moves(k)
  <1> USE JobOfAssumption DEF TypeOK
  <1>1. status[JobOf[i]] \in {"holding", "running"}
    BY RetryUnderWay DEF RetryItem, Lifecycle
  <1>2. status' = status /\ istatus' = [istatus EXCEPT ![i] = "pending"]
    BY <1>1 DEF RetryItem, JobTerminal, JobsTypeOK
  <1>3. CASE JobOf[i] # k \/ istatus[i] # "succeeded"
    <2>1. \A l \in ItemsOf(k) : istatus'[l] = "succeeded" <=> istatus[l] = "succeeded"
      BY <1>2, <1>3 DEF ItemsOf, ItemsTypeOK
    <2> QED
      BY <1>2, <2>1, RowsSame DEF Moves
  <1>4. CASE JobOf[i] = k /\ istatus[i] = "succeeded"
    <2>1. i \in Delivered(k) /\ Delivered(k)' = Delivered(k) \ {i}
      BY <1>2, <1>4 DEF Delivered, RowsIn, ItemsOf, ItemsTypeOK
    <2> QED
      BY <1>1, <1>2, <1>4, <2>1 DEF Moves, reapableStatuses
  <1> QED
    BY <1>3, <1>4

\* The reaper fails and cancels images, and delivers none.
LEMMA MovesReap ==
    ASSUME TypeOK, NEW dead, NEW stale, NEW stuck, ReapStaleJobs(dead, stale, stuck), NEW k \in Jobs
    PROVE  Moves(k)
  <1> USE DEF TypeOK
  <1>1. SameDelivered(k)
    <2>1. \A i \in ItemsOf(k) : istatus'[i] = "succeeded" <=> istatus[i] = "succeeded"
      BY DEF ReapStaleJobs, DeadPending, ItemsOf
    <2> QED
      BY <2>1, RowsSame
  <1>2. /\ k \in stale => status[k] \in reapableStatuses /\ status'[k] = "failed"
        /\ k \notin stale /\ k \in SweptOut(dead) => status[k] \in reapableStatuses /\ status'[k] = "settling"
        /\ k \in stuck => status[k] = "settling" /\ k \in settled'
        /\ k \notin stale \cup SweptOut(dead) \cup stuck => status'[k] = status[k]
    BY Sources DEF ReapStaleJobs, SweptOut
  <1> QED
    BY <1>1, <1>2 DEF Moves

\* Every step moves a batch in one of the six ways.
LEMMA MovesStep ==
    ASSUME TypeOK, LeaseInv, Lifecycle, Unsubmitted, [Next]_vars, NEW k \in Jobs, ~Abandoned(k), ~Abandoned(k)'
    PROVE  Moves(k)
  <1> USE JobOfAssumption DEF TypeOK, jobVars, itemVars
  <1>0. ASSUME UNCHANGED <<status, istatus>> PROVE Moves(k)
    BY <1>0, RowsSame DEF Moves
  <1>1. ASSUME NEW j \in Jobs, CreateJob(j) PROVE Moves(k)
    <2>1. \A i \in ItemsOf(k) : istatus'[i] = "succeeded" <=> istatus[i] = "succeeded"
      BY <1>1 DEF CreateJob, ItemsOf, LeaseInv, RowsBornTogether
    <2> QED
      BY <1>1, <2>1, RowsSame DEF CreateJob, Moves, JobsTypeOK
  <1>2. ASSUME NEW j \in Jobs, StartJob(j) \/ StartJobFails(j) PROVE Moves(k)
    <2>1. status'[k] = status[k] \/ (status[k] \in reapableStatuses /\ status'[k] \in reapableStatuses)
      BY <1>2 DEF StartJob, StartJobFails, Promote, NextStatus, reapableStatuses, JobsTypeOK, RequestsTypeOK
    <2>2. istatus' = istatus
      BY <1>2 DEF StartJob, StartJobFails
    <2> QED
      BY <2>1, <2>2, RowsSame DEF Moves
  <1>3. ASSUME NEW j \in Jobs, AbandonRelease(j) \/ AbandonKill(j) PROVE Moves(k)
    <2>1. j # k
      BY <1>3 DEF AbandonRelease, AbandonKill, Abandoned
    <2>2. status'[k] = status[k] /\ istatus' = istatus
      BY <1>3, <2>1 DEF AbandonRelease, AbandonKill, JobsTypeOK
    <2> QED
      BY <2>2, RowsSame DEF Moves
  <1>4. ASSUME NEW j \in Jobs, HeartbeatGoesStale(j) \/ StopJob(j) \/ LoadSettlement(j) PROVE Moves(k)
    BY <1>4, <1>0 DEF HeartbeatGoesStale, StopJob, LoadSettlement
  <1>5. ASSUME NEW j \in Jobs, RequestJobStop(j) PROVE Moves(k)
    <2>1. \A i \in ItemsOf(k) : istatus'[i] = "succeeded" <=> istatus[i] = "succeeded"
      BY <1>5 DEF RequestJobStop, ItemsOf
    <2> QED
      BY <1>5, <2>1, RowsSame DEF RequestJobStop, Moves
  <1>6. ASSUME NEW j \in Jobs, Finalize(j), istatus' = istatus PROVE Moves(k)
    <2>1. status'[k] = status[k] \/ (status[k] \in reapableStatuses /\ status'[k] = "settling")
      BY <1>6, Sources DEF Finalize, JobsTypeOK
    <2> QED
      BY <1>6, <2>1, RowsSame DEF Moves
  <1>7. ASSUME NEW j \in Jobs, FinalizeAfterStop(j) PROVE Moves(k)
    BY <1>7, <1>6, <1>0 DEF FinalizeAfterStop
  <1>8. ASSUME NEW w \in Workers, FinalizeJob(w) PROVE Moves(k)
    <2>1. WorkerJob(w) \in Jobs
      BY <1>8 DEF FinalizeJob, WorkerJob, WorkersTypeOK
    <2> QED
      BY <1>8, <1>6, <2>1 DEF FinalizeJob
  <1>9. ASSUME NEW j \in Jobs, SettleJob(j) PROVE Moves(k)
    <2>1. status'[k] = status[k] \/ (status[k] = "settling" /\ k \in settled')
      BY <1>9 DEF SettleJob, Lifecycle, BatchInv, SettlementInv, JobsTypeOK
    <2>2. istatus' = istatus
      BY <1>9 DEF SettleJob
    <2> QED
      BY <2>1, <2>2, RowsSame DEF Moves
  <1>10. ASSUME NEW w \in Workers,
                \/ LoadJob(w) \/ PrepareFails(w) \/ InvokeGateway(w) \/ GatewayReturns(w)
                \/ ShutdownCancels(w) \/ RenewItemLease(w)
                \/ LoadJobFails(w) \/ WriteBackFails(w) \/ FinalizeJobFails(w)
         PROVE  Moves(k)
    BY <1>10, <1>0 DEF LoadJob, PrepareFails, InvokeGateway, GatewayReturns, ShutdownCancels, RenewItemLease,
                       LoadJobFails, WriteBackFails, FinalizeJobFails
  <1>11. ASSUME NEW w \in Workers, MarkRunning(w) PROVE Moves(k)
    <2>1. status'[k] = status[k] \/ (status[k] \in reapableStatuses /\ status'[k] \in reapableStatuses)
      BY <1>11 DEF MarkRunning, reapableStatuses, JobsTypeOK
    <2> QED
      BY <1>11, <2>1, RowsSame DEF MarkRunning, Moves
  <1>12. ASSUME NEW w \in Workers, NEW i \in Items, ClaimNextItem(w, i) PROVE Moves(k)
    <2>1. \A l \in ItemsOf(k) : istatus'[l] = "succeeded" <=> istatus[l] = "succeeded"
      BY <1>12 DEF ClaimNextItem, Claimable, ItemsOf, ItemsTypeOK
    <2> QED
      BY <1>12, <2>1, RowsSame DEF ClaimNextItem, Moves
  <1>13. ASSUME NEW i \in Items, LeaseExpires(i) PROVE Moves(k)
    BY <1>13, <1>0 DEF LeaseExpires
  <1>14. CASE Heartbeat \/ PoolStop \/ ProcessExit \/ ProcessStart \/ UNCHANGED vars
    BY <1>14, <1>0 DEF Heartbeat, PoolStop, ProcessExit, ProcessStart, vars
  <1> QED
    BY <1>1, <1>2, <1>3, <1>4, <1>5, <1>7, <1>8, <1>9, <1>10, <1>11, <1>12, <1>13, <1>14,
       MovesWriteBack, MovesRetry, MovesReap DEF Next, WorkerStep, Reaping
-----------------------------------------------------------------------------
(* What the owner of a batch is shown                                      *)

Shown(k, phase, outcome, frozen) ==
    [phase |-> phase, outcome |-> outcome, frozen |-> frozen, delivered |-> Delivered(k)]

ViewIs(k) ==
    /\ status[k] = "none"            => View(k) = Shown(k, "none", "none", FALSE)
    /\ status[k] \in reapableStatuses => View(k) = Shown(k, "open", "none", TRUE)
    /\ status[k] = "settling"        => View(k) = Shown(k, "settling", "none", TRUE)
    /\ status[k] \in JobTerminal      => View(k) = Shown(k, "over", status[k], FALSE)

ViewsFollow == Lifecycle /\ Unsubmitted => \A k \in Jobs : ~Abandoned(k) => ViewIs(k)

\* The view of a batch is determined by its status and its delivered images.
LEMMA ViewsFollowRows == ViewsFollow
  <1> SUFFICES ASSUME Lifecycle, Unsubmitted, NEW k \in Jobs, ~Abandoned(k) PROVE ViewIs(k)
    BY DEF ViewsFollow
  <1>1. View(k) = Shown(k, Phase(status[k]), IF status[k] \in JobTerminal THEN status[k] ELSE "none", hold[k] = "open")
    BY DEF View, Shown, Delivered
  <1>2. status[k] = "none" => (hold[k] = "open") = FALSE
    BY DEF Unsubmitted
  <1>3. status[k] \in reapableStatuses \cup {"settling"} => (hold[k] = "open") = TRUE
    BY DEF Lifecycle, BatchInv, HoldInv, reapableStatuses, JobTerminal
  <1>4. status[k] \in JobTerminal => (hold[k] = "open") = FALSE
    BY DEF Lifecycle, BatchInv, HoldInv, JobTerminal
  <1> QED
    BY <1>1, <1>2, <1>3, <1>4 DEF ViewIs, Phase, reapableStatuses, JobTerminal

\* The same of the next state.
LEMMA ViewsFollowAfter == ViewsFollow'
  BY ViewsFollowRows, PTL

\* The outcome agrees with the images delivered.
Fits(k) ==
    /\ status[k] = "succeeded" => Delivered(k) = ItemsOf(k)
    /\ status[k] = "partially_failed" => Delivered(k) \notin {{}, ItemsOf(k)}
    /\ status[k] = "failed" => Delivered(k) = {}
    /\ status[k] = "cancelled" => Delivered(k) # ItemsOf(k)

OutcomesFit == SettledStatusMatchesItems => \A k \in Jobs : k \in settled => status[k] \in JobTerminal /\ Fits(k)

\* What TerminalJobStatus makes of the counters says what its name promises of the rows.
LEMMA OutcomesFitRows == OutcomesFit
  <1> SUFFICES ASSUME SettledStatusMatchesItems, NEW k \in Jobs, k \in settled
               PROVE  status[k] \in JobTerminal /\ Fits(k)
    BY DEF OutcomesFit
  <1> DEFINE c == [s \in ItemTerminal |-> Cardinality(RowsIn(k, s))]
  <1>1. status[k] = TerminalJobStatus(ItemCount(k), c, k \in stopRequested)
    BY DEF SettledStatusMatchesItems
  <1>2. /\ c["succeeded"] = Cardinality(Delivered(k))
        /\ c["cancelled"] = Cardinality(RowsIn(k, "cancelled"))
    BY DEF ItemTerminal, Delivered
  <1>3. /\ Delivered(k) \in SUBSET ItemsOf(k) /\ ItemsOf(k) \in SUBSET Items
        /\ Delivered(k) \in SUBSET Items /\ RowsIn(k, "cancelled") \in SUBSET Items
    BY DEF Delivered, RowsIn, ItemsOf
  <1>4. /\ Cardinality(Delivered(k)) \in Nat /\ ItemCount(k) \in Nat
        /\ IsFiniteSet(Delivered(k)) /\ IsFiniteSet(ItemsOf(k))
        /\ Cardinality(RowsIn(k, "cancelled")) \in Nat /\ IsFiniteSet(RowsIn(k, "cancelled"))
    BY <1>3, SubsetCardinality DEF ItemCount
  <1>5. /\ Cardinality(Delivered(k)) <= ItemCount(k)
        /\ Cardinality(Delivered(k)) = ItemCount(k) => Delivered(k) = ItemsOf(k)
    BY <1>3, <1>4, FS_Subset DEF ItemCount
  <1>6. /\ Cardinality(Delivered(k)) = 0 <=> Delivered(k) = {}
        /\ Cardinality(RowsIn(k, "cancelled")) = 0 <=> RowsIn(k, "cancelled") = {}
    BY <1>4, FS_EmptySet
  <1>7. RowsIn(k, "cancelled") # {} => Delivered(k) # ItemsOf(k)
    BY DEF Delivered, RowsIn
  <1>8. Delivered(k) = ItemsOf(k) => Cardinality(Delivered(k)) = ItemCount(k)
    BY DEF ItemCount
  <1> HIDE DEF c
  <1>9. status[k] \in JobTerminal
    BY <1>1, TerminalJobStatusType
  <1> QED
    BY <1>1, <1>2, <1>4, <1>5, <1>6, <1>7, <1>8, <1>9 DEF TerminalJobStatus, Fits

\* The same of the next state.
LEMMA OutcomesFitAfter == OutcomesFit'
  BY OutcomesFitRows, PTL

-----------------------------------------------------------------------------
(* The refinement                                                          *)

\* A submission is abandoned once, by startJob of a batch that was created, and stays so.
LEMMA AbandonedStep ==
    ASSUME TypeOK, Unsubmitted, [Next]_vars, NEW k \in Jobs
    PROVE  /\ Abandoned(k) => Abandoned(k)'
           /\ ~Abandoned(k) /\ Abandoned(k)' => status[k] # "none"
  <1> USE DEF TypeOK, requestVars, RequestsTypeOK, Abandoned
  <1> DEFINE Once == /\ Abandoned(k) => Abandoned(k)'
                     /\ ~Abandoned(k) /\ Abandoned(k)' => status[k] # "none"
  <1>0. ASSUME submit' = submit PROVE Once
    BY <1>0
  <1>1. ASSUME NEW j \in Jobs, CreateJob(j) \/ StartJob(j) \/ StartJobFails(j) \/ AbandonRelease(j) \/ AbandonKill(j)
        PROVE  Once
    BY <1>1 DEF CreateJob, StartJob, StartJobFails, AbandonRelease, AbandonKill, Unsubmitted
  <1>2. CASE ProcessExit
    BY <1>2 DEF ProcessExit
  <1>3. ASSUME NEW j \in Jobs,
               \/ HeartbeatGoesStale(j) \/ StopJob(j) \/ RequestJobStop(j) \/ FinalizeAfterStop(j)
               \/ LoadSettlement(j) \/ SettleJob(j)
        PROVE  Once
    BY <1>3, <1>0 DEF HeartbeatGoesStale, StopJob, RequestJobStop, FinalizeAfterStop, LoadSettlement, SettleJob
  <1>4. ASSUME NEW w \in Workers,
               \/ LoadJob(w) \/ MarkRunning(w) \/ PrepareFails(w) \/ InvokeGateway(w) \/ GatewayReturns(w)
               \/ ShutdownCancels(w) \/ WriteBack(w) \/ FinalizeJob(w) \/ RenewItemLease(w)
               \/ LoadJobFails(w) \/ WriteBackFails(w) \/ FinalizeJobFails(w)
               \/ \E i \in Items : ClaimNextItem(w, i)
        PROVE  Once
    BY <1>4, <1>0 DEF LoadJob, MarkRunning, PrepareFails, InvokeGateway, GatewayReturns, ShutdownCancels, WriteBack,
                      FinalizeJob, RenewItemLease, LoadJobFails, WriteBackFails, FinalizeJobFails, ClaimNextItem
  <1>5. ASSUME NEW i \in Items, LeaseExpires(i) \/ RetryItem(i) PROVE Once
    BY <1>5, <1>0 DEF LeaseExpires, RetryItem
  <1>6. CASE Heartbeat \/ Reaping \/ PoolStop \/ ProcessStart \/ UNCHANGED vars
    BY <1>6, <1>0 DEF Heartbeat, Reaping, ReapStaleJobs, PoolStop, ProcessStart, vars
  <1> QED
    BY <1>1, <1>2, <1>3, <1>4, <1>5, <1>6 DEF Next, WorkerStep

\* Every step is a step of the ledger for every batch.
LEMMA LedgerStep ==
    ASSUME TypeOK, TypeOK', LeaseInv, Lifecycle, Lifecycle', Unsubmitted, Unsubmitted', SettledStatusMatchesItems',
           [Next]_vars, NEW k \in Jobs
    PROVE  Ledger!Step(k)
  <1> DEFINE was == View(k)
             is  == View(k)'
             D   == Delivered(k)
             E   == Delivered(k)'
  <1>0. /\ [j \in Jobs |-> View(j)][k] = was
        /\ ([j \in Jobs |-> View(j)])'[k] = is
        /\ [j \in Jobs |-> ItemsOf(j)][k] = ItemsOf(k)
    OBVIOUS
  <1>1. CASE Abandoned(k)
    <2>1. was = Gone /\ is = Gone
      BY <1>1, AbandonedStep DEF View, Gone
    <2> QED
      BY <1>0, <2>1 DEF Ledger!Step
  <1>2. CASE ~Abandoned(k) /\ Abandoned(k)'
    <2>1. status[k] # "none"
      BY <1>2, AbandonedStep
    <2>2. was.phase # "none" /\ is = Gone
      BY <1>2, <2>1 DEF View, Gone, Phase
    <2>3. was # Ledger!Unborn /\ Gone = Ledger!Forsaken
      BY <2>2 DEF Ledger!Unborn, Ledger!Forsaken, Ledger!Batch, Gone
    <2>4. Ledger!Forsake(k)
      BY <1>0, <2>2, <2>3 DEF Ledger!Forsake
    <2> QED
      BY <2>4 DEF Ledger!Step
  <1>3. CASE ~Abandoned(k) /\ ~Abandoned(k)'
    <2>1. Moves(k) /\ ViewIs(k) /\ ViewIs(k)'
      BY <1>3, MovesStep, ViewsFollowRows, ViewsFollowAfter DEF ViewsFollow
    <2>2. /\ status[k] \in JobTerminal \cup reapableStatuses \cup {"none", "settling"}
          /\ D \in SUBSET ItemsOf(k)
      BY DEF TypeOK, JobsTypeOK, AllJobStatuses, JobTerminal, reapableStatuses, Delivered, RowsIn
    <2>3. /\ status[k] = "none" => was = Ledger!Batch("none", "none", FALSE, D)
          /\ status[k] \in reapableStatuses => was = Ledger!Open(D)
          /\ status[k] = "settling" => was = Ledger!Settling(D)
          /\ status[k] \in JobTerminal => was = Ledger!Over(status[k], D)
      BY <2>1 DEF ViewIs, Shown, Ledger!Batch, Ledger!Open, Ledger!Settling, Ledger!Over
    <2>4. /\ status'[k] = "none" => is = Ledger!Batch("none", "none", FALSE, E)
          /\ status'[k] \in reapableStatuses => is = Ledger!Open(E)
          /\ status'[k] = "settling" => is = Ledger!Settling(E)
          /\ status'[k] \in JobTerminal => is = Ledger!Over(status'[k], E)
      BY <2>1 DEF ViewIs, Shown, Ledger!Batch, Ledger!Open, Ledger!Settling, Ledger!Over
    <2> HIDE DEF was, is, D, E
    <2>5. CASE status'[k] = status[k] /\ E = D
      BY <1>0, <2>2, <2>3, <2>4, <2>5 DEF Ledger!Step
    <2>6. CASE status[k] = "none" /\ status'[k] = "created" /\ E = D
      <3>1. D = {}
        BY <2>6 DEF D, Delivered, RowsIn, ItemsOf, LeaseInv, RowsBornTogether
      <3>2. Ledger!Submit(k)
        BY <1>0, <2>3, <2>4, <2>6, <3>1 DEF Ledger!Submit, Ledger!Unborn, reapableStatuses
      <3> QED
        BY <3>2 DEF Ledger!Step
    <2>7. CASE status[k] \in reapableStatuses /\ status'[k] \in reapableStatuses /\ E = D
      BY <1>0, <2>3, <2>4, <2>7 DEF Ledger!Step
    <2>8. CASE status[k] \in reapableStatuses /\ status'[k] = "settling" /\ E = D
      BY <1>0, <2>2, <2>3, <2>4, <2>8 DEF Ledger!Step, Ledger!Finish
    <2>9. CASE status[k] \in reapableStatuses /\ status'[k] = "failed" /\ E = D
      BY <1>0, <2>2, <2>3, <2>4, <2>9 DEF Ledger!Step, Ledger!GiveUp, JobTerminal
    <2>10. CASE status[k] = "settling" /\ k \in settled' /\ E = D
      <3>1. status'[k] \in JobTerminal /\ Fits(k)'
        BY <2>10, OutcomesFitAfter DEF OutcomesFit
      <3>2. Ledger!Fits(status'[k], E, ItemsOf(k))
        BY <3>1 DEF Fits, Ledger!Fits, E, JobTerminal, ItemsOf
      <3>3. Ledger!Close(k)
        BY <1>0, <2>2, <2>3, <2>4, <2>10, <3>1, <3>2 DEF Ledger!Close, JobTerminal
      <3> QED
        BY <3>3 DEF Ledger!Step
    <2>11. CASE /\ status[k] \in reapableStatuses /\ status'[k] = status[k]
                /\ \E i \in ItemsOf(k) \ D : E = D \cup {i}
      BY <1>0, <2>2, <2>3, <2>4, <2>11 DEF Ledger!Step, Ledger!Deliver
    <2>12. CASE /\ status[k] \in reapableStatuses /\ status'[k] = status[k]
                /\ \E i \in D : E = D \ {i}
      BY <1>0, <2>2, <2>3, <2>4, <2>12 DEF Ledger!Step, Ledger!Redo
    <2> QED
      BY <2>1, <2>5, <2>6, <2>7, <2>8, <2>9, <2>10, <2>11, <2>12 DEF Moves, SameDelivered, D, E
  <1> QED
    BY <1>1, <1>2, <1>3

\* The queue starts where the ledger starts.
LEMMA LedgerInit == Init => Ledger!Init
  <1> SUFFICES ASSUME Init, NEW k \in Jobs PROVE View(k) = Ledger!Unborn
    BY DEF Ledger!Init
  <1>1. ~Abandoned(k) /\ status[k] = "none" /\ hold[k] = "none" /\ RowsIn(k, "succeeded") = {}
    BY DEF Init, Abandoned, RowsIn, ItemsOf
  <1>2. (hold[k] = "open") = FALSE
    BY <1>1
  <1> QED
    BY <1>1, <1>2 DEF View, Phase, reapableStatuses, Ledger!Unborn, Ledger!Batch, JobTerminal

\* JobQueue implements BatchLedger: whatever the workers, requests, the reaper, settlement and
\* restarts do, every batch lives the life its owner was promised.
THEOREM QueueKeepsItsPromise == Spec => KeepsItsPromise
  <1> DEFINE Inv == TypeOK /\ LeaseInv /\ Lifecycle /\ Unsubmitted /\ SettledStatusMatchesItems
  <1>1. Inv /\ Inv' /\ [Next]_vars => [Ledger!Next]_([j \in Jobs |-> View(j)])
    <2> SUFFICES ASSUME Inv, Inv', [Next]_vars PROVE Ledger!Next
      OBVIOUS
    <2>1. \A k \in Jobs : Ledger!Step(k)
      BY LedgerStep
    <2> QED
      BY <2>1 DEF Ledger!Next
  <1>2. Spec => []Inv
    BY TypeCorrect, LeaseInvariant, LifecycleInvariant, UnsubmittedInvariant, SettledExact, PTL
  <1> HIDE DEF Inv
  <1> QED
    BY <1>1, <1>2, LedgerInit, PTL DEF Spec, KeepsItsPromise, Ledger!Spec
=============================================================================
