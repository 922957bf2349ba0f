--------------------------- MODULE AdmissionProofs ---------------------------
(***************************************************************************)
(* Proofs about Admission, for any submissions, retries, keys and prices:  *)
(* the lock on the user's row keeps what a transaction has read valid as   *)
(* far as its decision depends on it, so that no user is overdrawn and no  *)
(* key creates two batches.                                                *)
(***************************************************************************)
EXTENDS Admission, SumLemmas

-----------------------------------------------------------------------------
(* The inductive invariant                                                 *)

InTx(r) == pc[r] \in {"locked", "checking", "deciding"}

\* The row is locked by the one request that is inside its transaction.
OneInTx == \A r \in Requests : InTx(r) <=> rowLock = r

\* A submission that has not been admitted has left nothing behind.
NothingYet ==
    \A b \in Submissions :
        /\ pc[b] \in {"idle", "locked", "checking", "deciding", "refused"} => batch[b] = "none"
        /\ batch[b] = "none" => hold[b] = NULL /\ budget[b] = 0 /\ unbooked[b] = 0

\* A retry keeps its batch live until it commits.
RetriedIsLive ==
    \A t \in Retries :
        pc[t] \in {"checking", "deciding"} => subject[t] \in Submissions /\ batch[subject[t]] = "live"

\* Batches whose hold stands for their charges.
Secured == {b \in Submissions : hold[b] # NULL /\ ~Abandoned(b)}

\* The hold of such a batch covers what was charged and not booked, and what may still be charged.
HoldsCover == \A b \in Secured : hold[b] >= budget[b] + unbooked[b]

\* What the gateway may still charge against holds.
Committed == SumFunctionOnSet(budget, Secured)

\* What a transaction has read: the balance cannot change, and what is held can only shrink.
FundsStand == \A r \in Requests : InTx(r) => funds[r] = balance
HeldStands == \A r \in Requests : pc[r] = "deciding" => held[r] >= Committed

\* The balance covers everything that may still be charged against holds.
Covered == balance + stray >= Committed

\* A batch keeps its key until its submission is abandoned, and a submission that found no
\* batch of its key is alone with it until it commits.
KeysHold ==
    \A b \in Submissions :
        /\ batch[b] # "none" /\ Key[b] # NULL /\ ~Abandoned(b) => b \in keyed
        /\ pc[b] \in {"checking", "deciding"} => findJobByIdempotencyKey(b) = {}

IInv ==
    /\ TypeOK /\ OneInTx /\ NothingYet /\ RetriedIsLive
    /\ HoldsCover /\ FundsStand /\ HeldStands /\ Covered
    /\ KeysHold /\ OneBatchPerKey /\ HoldIffUnfinished

-----------------------------------------------------------------------------
(* Sums of holds and budgets                                               *)

\* Submissions and retries are requests, finitely many.
LEMMA FiniteSubmissions ==
    IsFiniteSet(Submissions) /\ Submissions \subseteq Requests /\ Retries \subseteq Requests
BY RequestsAssumption, FS_Subset DEF Requests

\* sumOpenHolds never reads a negative sum.
LEMMA OpenHoldsIsNat == ASSUME TypeOK PROVE OpenHolds \in Nat
<1>1. IsFiniteSet(Open) /\ \A b \in Open : hold[b] \in Nat
  BY FiniteSubmissions, FS_Subset DEF Open, TypeOK
<1> QED
  BY <1>1, SumNat DEF OpenHolds

-----------------------------------------------------------------------------
(* Types                                                                   *)

\* Every statement keeps the rows well typed.
LEMMA TypeStep ==
    ASSUME TypeOK, Next PROVE TypeOK'
<1>1. ASSUME NEW r \in Requests, lockUserBalance(r) PROVE TypeOK'
  BY <1>1, FiniteSubmissions DEF lockUserBalance, RowFree, Go, rowVars, gateVars, TypeOK
<1>2. ASSUME NEW r \in Requests, Reuse(r) PROVE TypeOK'
  <2>1. subject' \in [Requests -> Submissions \cup {NULL}]
    <3>1. PICK b \in findJobByIdempotencyKey(r) : subject' = [subject EXCEPT ![r] = b]
      BY <1>2 DEF Reuse
    <3>2. b \in Submissions
      BY DEF findJobByIdempotencyKey, TypeOK
    <3> QED
      BY <3>1, <3>2 DEF TypeOK
  <2>2. funds' \in [Requests -> Int] /\ held' \in [Requests -> Nat] /\ rowLock' \in Requests \cup {NULL}
    BY <1>2 DEF Reuse, EndTx, TypeOK
  <2> QED
    BY <1>2, <2>1, <2>2 DEF Reuse, Go, rowVars, gateVars, TypeOK
<1>3. ASSUME NEW r \in Requests, Miss(r) PROVE TypeOK'
  BY <1>3, FiniteSubmissions DEF Miss, Go, rowVars, gateVars, TypeOK
<1>4. ASSUME NEW r \in Requests, NEW b \in Submissions, LockJob(r, b) PROVE TypeOK'
  BY <1>4, FiniteSubmissions DEF LockJob, Go, rowVars, gateVars, TypeOK
<1>5. ASSUME NEW r \in Requests, RefuseRetry(r) PROVE TypeOK'
  BY <1>5, FiniteSubmissions DEF RefuseRetry, Go, EndTx, rowVars, gateVars, TypeOK
<1>6. ASSUME NEW r \in Requests, sumOpenHolds(r) PROVE TypeOK'
  <2>1. held' \in [Requests -> Nat]
    BY <1>6, OpenHoldsIsNat DEF sumOpenHolds, TypeOK
  <2> QED
    BY <1>6, <2>1 DEF sumOpenHolds, Go, rowVars, gateVars, TypeOK
<1>7. ASSUME NEW r \in Requests, Reject(r) PROVE TypeOK'
  BY <1>7, FiniteSubmissions DEF Reject, Go, EndTx, rowVars, gateVars, TypeOK
<1>8. ASSUME NEW r \in Requests, Admit(r) PROVE TypeOK'
  <2>1. r \in Submissions /\ r \in Requests /\ Price[r] \in Nat
    BY <1>8, FiniteSubmissions, PriceAssumption DEF Admit
  <2>2. hold' \in [Submissions -> Nat \cup {NULL}] /\ budget' \in [Submissions -> Nat]
    BY <1>8, <2>1 DEF Admit, insertHold, TypeOK
  <2>3. keyed' \subseteq Submissions /\ batch' \in [Submissions -> {"none", "created", "live", "settling", "over"}]
    BY <1>8, <2>1 DEF Admit, TypeOK
  <2>4. rowLock' \in Requests \cup {NULL} /\ funds' \in [Requests -> Int] /\ held' \in [Requests -> Nat]
    BY <1>8 DEF Admit, EndTx, TypeOK
  <2>5. subject' \in [Requests -> Submissions \cup {NULL}]
    BY <1>8, <2>1 DEF Admit, TypeOK
  <2> QED
    BY <1>8, <2>2, <2>3, <2>4, <2>5 DEF Admit, Go, TypeOK
<1>9. ASSUME NEW r \in Requests, AdmitRetry(r) PROVE TypeOK'
  <2>1. Price[r] \in Nat
    BY PriceAssumption
  <2>2. hold' \in [Submissions -> Nat \cup {NULL}] /\ budget' \in [Submissions -> Nat]
    <3> DEFINE s == subject[r]
               p == Price[r]
    <3>1. /\ hold' = [hold EXCEPT ![s] = IF @ = NULL THEN p ELSE @ + p]
          /\ budget' = [budget EXCEPT ![s] = @ + p]
      BY <1>9 DEF AdmitRetry, insertHold
    <3>2. hold \in [Submissions -> Nat \cup {NULL}] /\ budget \in [Submissions -> Nat] /\ p \in Nat
      BY <2>1 DEF TypeOK
    <3> HIDE DEF s, p
    <3>3. ASSUME NEW b \in Submissions PROVE hold'[b] \in Nat \cup {NULL} /\ budget'[b] \in Nat
      <4>1. budget'[b] = IF b # s THEN budget[b] ELSE budget[b] + p
        BY <3>1, <3>2
      <4>2. hold'[b] = IF b # s THEN hold[b] ELSE IF hold[b] = NULL THEN p ELSE hold[b] + p
        BY <3>1, <3>2
      <4> QED
        BY <3>2, <4>1, <4>2
    <3>4. hold' = [b \in Submissions |-> hold'[b]] /\ budget' = [b \in Submissions |-> budget'[b]]
      BY <3>1, <3>2
    <3> QED
      BY <3>3, <3>4
  <2>3. rowLock' \in Requests \cup {NULL} /\ funds' \in [Requests -> Int] /\ held' \in [Requests -> Nat]
    BY <1>9 DEF AdmitRetry, EndTx, TypeOK
  <2> QED
    BY <1>9, <2>2, <2>3 DEF AdmitRetry, Go, TypeOK
<1>10. ASSUME NEW b \in Submissions, StartHolding(b) PROVE TypeOK'
  BY <1>10, FiniteSubmissions DEF StartHolding, Go, gateVars, TypeOK
<1>11. ASSUME NEW b \in Submissions, StartRunning(b) PROVE TypeOK'
  BY <1>11, FiniteSubmissions DEF StartRunning, Go, rowVars, gateVars, TypeOK
<1>12. ASSUME NEW b \in Submissions, StartFails(b) PROVE TypeOK'
  BY <1>12, FiniteSubmissions DEF StartFails, Fault, Go, gateVars, TypeOK
<1>13. ASSUME NEW b \in Submissions, AbandonRelease(b) PROVE TypeOK'
  BY <1>13, FiniteSubmissions DEF AbandonRelease, Fault, Go, gateVars, TypeOK
<1>14. ASSUME NEW b \in Submissions, ClearJobIdempotencyKey(b) PROVE TypeOK'
  BY <1>14, FiniteSubmissions DEF ClearJobIdempotencyKey, Fault, Go, gateVars, TypeOK
<1>15. ASSUME NEW b \in Submissions, AbandonKill(b) PROVE TypeOK'
  BY <1>15, FiniteSubmissions DEF AbandonKill, Fault, Go, gateVars, TypeOK
<1>16. ASSUME NEW b \in Submissions, NEW c \in 1..budget[b], Charge(b, c) PROVE TypeOK'
  BY <1>16, FiniteSubmissions DEF Charge, rowVars, txVars, TypeOK
<1>17. ASSUME NEW b \in Submissions, FinalizeJob(b) PROVE TypeOK'
  BY <1>17, FiniteSubmissions DEF FinalizeJob, txVars, gateVars, TypeOK
<1>18. ASSUME NEW b \in Submissions, ApplyItemBilling(b) PROVE TypeOK'
  BY <1>18, FiniteSubmissions DEF ApplyItemBilling, Decrement, txVars, TypeOK
<1>19. ASSUME NEW b \in Submissions, CloseBatch(b) PROVE TypeOK'
  BY <1>19, FiniteSubmissions DEF CloseBatch, txVars, TypeOK
<1>20. ASSUME NEW b \in Submissions, GrowOld(b) PROVE TypeOK'
  BY <1>20, FiniteSubmissions DEF GrowOld, txVars, gateVars, TypeOK
<1> QED
  BY <1>1, <1>2, <1>3, <1>4, <1>5, <1>6, <1>7, <1>8, <1>9, <1>10,
     <1>11, <1>12, <1>13, <1>14, <1>15, <1>16, <1>17, <1>18, <1>19, <1>20 DEF Next

-----------------------------------------------------------------------------
(* The row lock                                                            *)

\* A transaction begins by locking a free row and ends by freeing it.
LEMMA LockStep ==
    ASSUME TypeOK, OneInTx, Next PROVE OneInTx'
<1>1. ASSUME NEW r \in Requests, lockUserBalance(r) PROVE OneInTx'
  BY <1>1, FiniteSubmissions, RequestsAssumption
  DEF lockUserBalance, RowFree, Go, rowVars, gateVars, OneInTx, InTx, TypeOK
<1>2. ASSUME NEW r \in Requests, Reuse(r) PROVE OneInTx'
  BY <1>2, FiniteSubmissions, RequestsAssumption
  DEF Reuse, Go, EndTx, rowVars, gateVars, OneInTx, InTx, TypeOK
<1>3. ASSUME NEW r \in Requests, Miss(r) PROVE OneInTx'
  BY <1>3, FiniteSubmissions, RequestsAssumption DEF Miss, Go, rowVars, gateVars, OneInTx, InTx, TypeOK
<1>4. ASSUME NEW r \in Requests, NEW b \in Submissions, LockJob(r, b) PROVE OneInTx'
  BY <1>4, FiniteSubmissions, RequestsAssumption
  DEF LockJob, Go, rowVars, gateVars, OneInTx, InTx, TypeOK
<1>5. ASSUME NEW r \in Requests, RefuseRetry(r) PROVE OneInTx'
  BY <1>5, FiniteSubmissions, RequestsAssumption
  DEF RefuseRetry, Go, EndTx, rowVars, gateVars, OneInTx, InTx, TypeOK
<1>6. ASSUME NEW r \in Requests, sumOpenHolds(r) PROVE OneInTx'
  BY <1>6, FiniteSubmissions, RequestsAssumption
  DEF sumOpenHolds, Go, rowVars, gateVars, OneInTx, InTx, TypeOK
<1>7. ASSUME NEW r \in Requests, Reject(r) PROVE OneInTx'
  BY <1>7, FiniteSubmissions, RequestsAssumption
  DEF Reject, Go, EndTx, rowVars, gateVars, OneInTx, InTx, TypeOK
<1>8. ASSUME NEW r \in Requests, Admit(r) PROVE OneInTx'
  BY <1>8, FiniteSubmissions, RequestsAssumption
  DEF Admit, insertHold, Go, EndTx, OneInTx, InTx, TypeOK
<1>9. ASSUME NEW r \in Requests, AdmitRetry(r) PROVE OneInTx'
  BY <1>9, FiniteSubmissions, RequestsAssumption
  DEF AdmitRetry, insertHold, Go, EndTx, OneInTx, InTx, TypeOK
<1>10. ASSUME NEW b \in Submissions, StartHolding(b) PROVE OneInTx'
  BY <1>10, FiniteSubmissions, RequestsAssumption DEF StartHolding, Go, gateVars, OneInTx, InTx, TypeOK
<1>11. ASSUME NEW b \in Submissions, StartRunning(b) PROVE OneInTx'
  BY <1>11, FiniteSubmissions, RequestsAssumption
  DEF StartRunning, Go, rowVars, gateVars, OneInTx, InTx, TypeOK
<1>12. ASSUME NEW b \in Submissions, StartFails(b) PROVE OneInTx'
  BY <1>12, FiniteSubmissions, RequestsAssumption
  DEF StartFails, Fault, Go, gateVars, OneInTx, InTx, TypeOK
<1>13. ASSUME NEW b \in Submissions, AbandonRelease(b) PROVE OneInTx'
  BY <1>13, FiniteSubmissions, RequestsAssumption
  DEF AbandonRelease, Fault, Go, gateVars, OneInTx, InTx, TypeOK
<1>14. ASSUME NEW b \in Submissions, ClearJobIdempotencyKey(b) PROVE OneInTx'
  BY <1>14, FiniteSubmissions, RequestsAssumption
  DEF ClearJobIdempotencyKey, Fault, Go, gateVars, OneInTx, InTx, TypeOK
<1>15. ASSUME NEW b \in Submissions, AbandonKill(b) PROVE OneInTx'
  BY <1>15, FiniteSubmissions, RequestsAssumption
  DEF AbandonKill, Fault, Go, gateVars, OneInTx, InTx, TypeOK
<1>16. ASSUME NEW b \in Submissions, NEW c \in 1..budget[b], Charge(b, c) PROVE OneInTx'
  BY <1>16, FiniteSubmissions, RequestsAssumption DEF Charge, rowVars, txVars, OneInTx, InTx, TypeOK
<1>17. ASSUME NEW b \in Submissions, FinalizeJob(b) PROVE OneInTx'
  BY <1>17, FiniteSubmissions, RequestsAssumption DEF FinalizeJob, txVars, gateVars, OneInTx, InTx, TypeOK
<1>18. ASSUME NEW b \in Submissions, ApplyItemBilling(b) PROVE OneInTx'
  BY <1>18, FiniteSubmissions, RequestsAssumption
  DEF ApplyItemBilling, Decrement, txVars, OneInTx, InTx, TypeOK
<1>19. ASSUME NEW b \in Submissions, CloseBatch(b) PROVE OneInTx'
  BY <1>19, FiniteSubmissions, RequestsAssumption DEF CloseBatch, txVars, OneInTx, InTx, TypeOK
<1>20. ASSUME NEW b \in Submissions, GrowOld(b) PROVE OneInTx'
  BY <1>20, FiniteSubmissions, RequestsAssumption DEF GrowOld, txVars, gateVars, OneInTx, InTx, TypeOK
<1> QED
  BY <1>1, <1>2, <1>3, <1>4, <1>5, <1>6, <1>7, <1>8, <1>9, <1>10,
     <1>11, <1>12, <1>13, <1>14, <1>15, <1>16, <1>17, <1>18, <1>19, <1>20 DEF Next

-----------------------------------------------------------------------------
(* Batches and their holds                                                 *)

\* Rows of a batch appear with its admission, all at once.
LEMMA NothingYetStep ==
    ASSUME TypeOK, NothingYet, RetriedIsLive, Next PROVE NothingYet'
<1>1. ASSUME NEW r \in Requests, lockUserBalance(r) PROVE NothingYet'
  BY <1>1, FiniteSubmissions, RequestsAssumption
  DEF lockUserBalance, RowFree, Go, rowVars, gateVars, NothingYet, TypeOK
<1>2. ASSUME NEW r \in Requests, Reuse(r) PROVE NothingYet'
  BY <1>2, FiniteSubmissions, RequestsAssumption
  DEF Reuse, Go, EndTx, rowVars, gateVars, NothingYet, TypeOK
<1>3. ASSUME NEW r \in Requests, Miss(r) PROVE NothingYet'
  BY <1>3, FiniteSubmissions, RequestsAssumption DEF Miss, Go, rowVars, gateVars, NothingYet, TypeOK
<1>4. ASSUME NEW r \in Requests, NEW b \in Submissions, LockJob(r, b) PROVE NothingYet'
  BY <1>4, FiniteSubmissions, RequestsAssumption DEF LockJob, Go, rowVars, gateVars, NothingYet, TypeOK
<1>5. ASSUME NEW r \in Requests, RefuseRetry(r) PROVE NothingYet'
  BY <1>5, FiniteSubmissions, RequestsAssumption
  DEF RefuseRetry, Go, EndTx, rowVars, gateVars, NothingYet, TypeOK
<1>6. ASSUME NEW r \in Requests, sumOpenHolds(r) PROVE NothingYet'
  BY <1>6, FiniteSubmissions, RequestsAssumption
  DEF sumOpenHolds, Go, rowVars, gateVars, NothingYet, TypeOK
<1>7. ASSUME NEW r \in Requests, Reject(r) PROVE NothingYet'
  BY <1>7, FiniteSubmissions, RequestsAssumption
  DEF Reject, Go, EndTx, rowVars, gateVars, NothingYet, TypeOK
<1>8. ASSUME NEW r \in Requests, Admit(r) PROVE NothingYet'
  BY <1>8, FiniteSubmissions, RequestsAssumption DEF Admit, insertHold, Go, EndTx, NothingYet, TypeOK
<1>9. ASSUME NEW r \in Requests, AdmitRetry(r) PROVE NothingYet'
  BY <1>9, FiniteSubmissions, RequestsAssumption
  DEF AdmitRetry, insertHold, Go, EndTx, NothingYet, RetriedIsLive, TypeOK
<1>10. ASSUME NEW b \in Submissions, StartHolding(b) PROVE NothingYet'
  BY <1>10, FiniteSubmissions, RequestsAssumption DEF StartHolding, Go, gateVars, NothingYet, TypeOK
<1>11. ASSUME NEW b \in Submissions, StartRunning(b) PROVE NothingYet'
  BY <1>11, FiniteSubmissions, RequestsAssumption
  DEF StartRunning, Go, rowVars, gateVars, NothingYet, TypeOK
<1>12. ASSUME NEW b \in Submissions, StartFails(b) PROVE NothingYet'
  BY <1>12, FiniteSubmissions, RequestsAssumption
  DEF StartFails, Fault, Go, gateVars, NothingYet, TypeOK
<1>13. ASSUME NEW b \in Submissions, AbandonRelease(b) PROVE NothingYet'
  BY <1>13, FiniteSubmissions, RequestsAssumption
  DEF AbandonRelease, Fault, Go, gateVars, NothingYet, TypeOK
<1>14. ASSUME NEW b \in Submissions, ClearJobIdempotencyKey(b) PROVE NothingYet'
  BY <1>14, FiniteSubmissions, RequestsAssumption
  DEF ClearJobIdempotencyKey, Fault, Go, gateVars, NothingYet, TypeOK
<1>15. ASSUME NEW b \in Submissions, AbandonKill(b) PROVE NothingYet'
  BY <1>15, FiniteSubmissions, RequestsAssumption
  DEF AbandonKill, Fault, Go, gateVars, NothingYet, TypeOK
<1>16. ASSUME NEW b \in Submissions, NEW c \in 1..budget[b], Charge(b, c) PROVE NothingYet'
  BY <1>16, FiniteSubmissions, RequestsAssumption DEF Charge, rowVars, txVars, NothingYet, TypeOK
<1>17. ASSUME NEW b \in Submissions, FinalizeJob(b) PROVE NothingYet'
  BY <1>17, FiniteSubmissions, RequestsAssumption DEF FinalizeJob, txVars, gateVars, NothingYet, TypeOK
<1>18. ASSUME NEW b \in Submissions, ApplyItemBilling(b) PROVE NothingYet'
  BY <1>18, FiniteSubmissions, RequestsAssumption
  DEF ApplyItemBilling, Decrement, txVars, NothingYet, TypeOK
<1>19. ASSUME NEW b \in Submissions, CloseBatch(b) PROVE NothingYet'
  BY <1>19, FiniteSubmissions, RequestsAssumption DEF CloseBatch, txVars, NothingYet, TypeOK
<1>20. ASSUME NEW b \in Submissions, GrowOld(b) PROVE NothingYet'
  BY <1>20, FiniteSubmissions, RequestsAssumption DEF GrowOld, txVars, gateVars, NothingYet, TypeOK
<1> QED
  BY <1>1, <1>2, <1>3, <1>4, <1>5, <1>6, <1>7, <1>8, <1>9, <1>10,
     <1>11, <1>12, <1>13, <1>14, <1>15, <1>16, <1>17, <1>18, <1>19, <1>20 DEF Next

\* Whoever would take a batch out of the live state waits for the retry's lock on it.
LEMMA RetriedIsLiveStep ==
    ASSUME TypeOK, NothingYet, RetriedIsLive, Next PROVE RetriedIsLive'
<1>1. ASSUME NEW r \in Requests, lockUserBalance(r) PROVE RetriedIsLive'
  BY <1>1, FiniteSubmissions, RequestsAssumption
  DEF lockUserBalance, RowFree, Go, rowVars, gateVars, JobLocked, RetriedIsLive, TypeOK
<1>2. ASSUME NEW r \in Requests, Reuse(r) PROVE RetriedIsLive'
  BY <1>2, FiniteSubmissions, RequestsAssumption
  DEF Reuse, Go, EndTx, rowVars, gateVars, JobLocked, RetriedIsLive, TypeOK
<1>3. ASSUME NEW r \in Requests, Miss(r) PROVE RetriedIsLive'
  BY <1>3, FiniteSubmissions, RequestsAssumption
  DEF Miss, Go, rowVars, gateVars, JobLocked, RetriedIsLive, TypeOK
<1>4. ASSUME NEW r \in Requests, NEW b \in Submissions, LockJob(r, b) PROVE RetriedIsLive'
  BY <1>4, FiniteSubmissions, RequestsAssumption
  DEF LockJob, Go, rowVars, gateVars, JobLocked, RetriedIsLive, TypeOK
<1>5. ASSUME NEW r \in Requests, RefuseRetry(r) PROVE RetriedIsLive'
  BY <1>5, FiniteSubmissions, RequestsAssumption
  DEF RefuseRetry, Go, EndTx, rowVars, gateVars, JobLocked, RetriedIsLive, TypeOK
<1>6. ASSUME NEW r \in Requests, sumOpenHolds(r) PROVE RetriedIsLive'
  BY <1>6, FiniteSubmissions, RequestsAssumption
  DEF sumOpenHolds, Go, rowVars, gateVars, JobLocked, RetriedIsLive, TypeOK
<1>7. ASSUME NEW r \in Requests, Reject(r) PROVE RetriedIsLive'
  BY <1>7, FiniteSubmissions, RequestsAssumption
  DEF Reject, Go, EndTx, rowVars, gateVars, JobLocked, RetriedIsLive, TypeOK
<1>8. ASSUME NEW r \in Requests, Admit(r) PROVE RetriedIsLive'
  BY <1>8, FiniteSubmissions, RequestsAssumption DEF Admit, Go, EndTx, NothingYet, RetriedIsLive, TypeOK
<1>9. ASSUME NEW r \in Requests, AdmitRetry(r) PROVE RetriedIsLive'
  BY <1>9, FiniteSubmissions, RequestsAssumption
  DEF AdmitRetry, insertHold, Go, EndTx, JobLocked, RetriedIsLive, TypeOK
<1>10. ASSUME NEW b \in Submissions, StartHolding(b) PROVE RetriedIsLive'
  BY <1>10, FiniteSubmissions, RequestsAssumption
  DEF StartHolding, Go, gateVars, JobLocked, RetriedIsLive, TypeOK
<1>11. ASSUME NEW b \in Submissions, StartRunning(b) PROVE RetriedIsLive'
  BY <1>11, FiniteSubmissions, RequestsAssumption
  DEF StartRunning, Go, rowVars, gateVars, JobLocked, RetriedIsLive, TypeOK
<1>12. ASSUME NEW b \in Submissions, StartFails(b) PROVE RetriedIsLive'
  BY <1>12, FiniteSubmissions, RequestsAssumption
  DEF StartFails, Fault, Go, gateVars, JobLocked, RetriedIsLive, TypeOK
<1>13. ASSUME NEW b \in Submissions, AbandonRelease(b) PROVE RetriedIsLive'
  BY <1>13, FiniteSubmissions, RequestsAssumption
  DEF AbandonRelease, Fault, Go, gateVars, JobLocked, RetriedIsLive, TypeOK
<1>14. ASSUME NEW b \in Submissions, ClearJobIdempotencyKey(b) PROVE RetriedIsLive'
  BY <1>14, FiniteSubmissions, RequestsAssumption
  DEF ClearJobIdempotencyKey, Fault, Go, gateVars, JobLocked, RetriedIsLive, TypeOK
<1>15. ASSUME NEW b \in Submissions, AbandonKill(b) PROVE RetriedIsLive'
  BY <1>15, FiniteSubmissions, RequestsAssumption
  DEF AbandonKill, Fault, Go, gateVars, JobLocked, RetriedIsLive, TypeOK
<1>16. ASSUME NEW b \in Submissions, NEW c \in 1..budget[b], Charge(b, c) PROVE RetriedIsLive'
  BY <1>16, FiniteSubmissions, RequestsAssumption
  DEF Charge, rowVars, txVars, JobLocked, RetriedIsLive, TypeOK
<1>17. ASSUME NEW b \in Submissions, FinalizeJob(b) PROVE RetriedIsLive'
  BY <1>17, FiniteSubmissions, RequestsAssumption
  DEF FinalizeJob, txVars, gateVars, JobLocked, RetriedIsLive, TypeOK
<1>18. ASSUME NEW b \in Submissions, ApplyItemBilling(b) PROVE RetriedIsLive'
  BY <1>18, FiniteSubmissions, RequestsAssumption
  DEF ApplyItemBilling, Decrement, txVars, JobLocked, RetriedIsLive, TypeOK
<1>19. ASSUME NEW b \in Submissions, CloseBatch(b) PROVE RetriedIsLive'
  BY <1>19, FiniteSubmissions, RequestsAssumption
  DEF CloseBatch, txVars, JobLocked, RetriedIsLive, TypeOK
<1>20. ASSUME NEW b \in Submissions, GrowOld(b) PROVE RetriedIsLive'
  BY <1>20, FiniteSubmissions, RequestsAssumption
  DEF GrowOld, txVars, gateVars, JobLocked, RetriedIsLive, TypeOK
<1> QED
  BY <1>1, <1>2, <1>3, <1>4, <1>5, <1>6, <1>7, <1>8, <1>9, <1>10,
     <1>11, <1>12, <1>13, <1>14, <1>15, <1>16, <1>17, <1>18, <1>19, <1>20 DEF Next

\* Money is frozen for a batch as long as it is unfinished: what a retry looked at is still so
\* when it tops up the hold.
LEMMA HoldIffStep ==
    ASSUME TypeOK, NothingYet, RetriedIsLive, HoldIffUnfinished, Next PROVE HoldIffUnfinished'
<1>1. ASSUME NEW r \in Requests, lockUserBalance(r) PROVE HoldIffUnfinished'
  BY <1>1, FiniteSubmissions, RequestsAssumption
  DEF lockUserBalance, RowFree, Go, rowVars, gateVars, HoldIffUnfinished, Abandoned, TypeOK
<1>2. ASSUME NEW r \in Requests, Reuse(r) PROVE HoldIffUnfinished'
  BY <1>2, FiniteSubmissions, RequestsAssumption
  DEF Reuse, Go, EndTx, rowVars, gateVars, HoldIffUnfinished, Abandoned, TypeOK
<1>3. ASSUME NEW r \in Requests, Miss(r) PROVE HoldIffUnfinished'
  BY <1>3, FiniteSubmissions, RequestsAssumption
  DEF Miss, Go, rowVars, gateVars, HoldIffUnfinished, Abandoned, TypeOK
<1>4. ASSUME NEW r \in Requests, NEW b \in Submissions, LockJob(r, b) PROVE HoldIffUnfinished'
  BY <1>4, FiniteSubmissions, RequestsAssumption
  DEF LockJob, Go, rowVars, gateVars, HoldIffUnfinished, Abandoned, TypeOK
<1>5. ASSUME NEW r \in Requests, RefuseRetry(r) PROVE HoldIffUnfinished'
  BY <1>5, FiniteSubmissions, RequestsAssumption
  DEF RefuseRetry, Go, EndTx, rowVars, gateVars, HoldIffUnfinished, Abandoned, TypeOK
<1>6. ASSUME NEW r \in Requests, sumOpenHolds(r) PROVE HoldIffUnfinished'
  BY <1>6, FiniteSubmissions, RequestsAssumption
  DEF sumOpenHolds, Go, rowVars, gateVars, HoldIffUnfinished, Abandoned, TypeOK
<1>7. ASSUME NEW r \in Requests, Reject(r) PROVE HoldIffUnfinished'
  BY <1>7, FiniteSubmissions, RequestsAssumption
  DEF Reject, Go, EndTx, rowVars, gateVars, HoldIffUnfinished, Abandoned, TypeOK
<1>8. ASSUME NEW r \in Requests, Admit(r) PROVE HoldIffUnfinished'
  <2>1. r \in Submissions /\ hold[r] = NULL /\ Price[r] \in Nat
    BY <1>8, PriceAssumption DEF Admit, NothingYet
  <2>2. hold'[r] = Price[r] /\ batch'[r] = "created"
    BY <1>8, <2>1 DEF Admit, insertHold, TypeOK
  <2>3. \A b \in Submissions \ {r} : hold'[b] = hold[b] /\ batch'[b] = batch[b] /\ pc'[b] = pc[b]
    BY <1>8, FiniteSubmissions DEF Admit, insertHold, Go, TypeOK
  <2> QED
    BY <2>1, <2>2, <2>3, AmountsAssumption DEF HoldIffUnfinished, Abandoned
<1>9. ASSUME NEW r \in Requests, AdmitRetry(r) PROVE HoldIffUnfinished'
  <2> DEFINE s == subject[r]
             p == Price[r]
  <2>1. s \in Submissions /\ batch[s] = "live" /\ r \notin Submissions /\ p \in Nat
    BY <1>9, PriceAssumption, RequestsAssumption DEF AdmitRetry, RetriedIsLive
  <2>2. batch' = batch /\ \A b \in Submissions : pc'[b] = pc[b]
    BY <1>9, <2>1, FiniteSubmissions DEF AdmitRetry, Go, TypeOK
  <2>3. hold'[s] = (IF hold[s] = NULL THEN p ELSE hold[s] + p) /\ hold[s] \in Nat \cup {NULL}
    BY <1>9, <2>1 DEF AdmitRetry, insertHold, TypeOK
  <2>4. \A b \in Submissions \ {s} : hold'[b] = hold[b]
    BY <1>9 DEF AdmitRetry, insertHold, TypeOK
  <2> HIDE DEF s, p
  <2>5. hold'[s] # NULL
    BY <2>1, <2>3, AmountsAssumption
  <2> QED
    BY <2>1, <2>2, <2>4, <2>5 DEF HoldIffUnfinished, Abandoned
<1>10. ASSUME NEW b \in Submissions, StartHolding(b) PROVE HoldIffUnfinished'
  BY <1>10, FiniteSubmissions, RequestsAssumption
  DEF StartHolding, Go, gateVars, HoldIffUnfinished, Abandoned, TypeOK
<1>11. ASSUME NEW b \in Submissions, StartRunning(b) PROVE HoldIffUnfinished'
  BY <1>11, FiniteSubmissions, RequestsAssumption
  DEF StartRunning, Go, rowVars, gateVars, HoldIffUnfinished, Abandoned, TypeOK
<1>12. ASSUME NEW b \in Submissions, StartFails(b) PROVE HoldIffUnfinished'
  BY <1>12, FiniteSubmissions, RequestsAssumption
  DEF StartFails, Fault, Go, gateVars, HoldIffUnfinished, Abandoned, TypeOK
<1>13. ASSUME NEW b \in Submissions, AbandonRelease(b) PROVE HoldIffUnfinished'
  BY <1>13, FiniteSubmissions, RequestsAssumption
  DEF AbandonRelease, Fault, Go, gateVars, HoldIffUnfinished, Abandoned, TypeOK
<1>14. ASSUME NEW b \in Submissions, ClearJobIdempotencyKey(b) PROVE HoldIffUnfinished'
  BY <1>14, FiniteSubmissions, RequestsAssumption
  DEF ClearJobIdempotencyKey, Fault, Go, gateVars, HoldIffUnfinished, Abandoned, TypeOK
<1>15. ASSUME NEW b \in Submissions, AbandonKill(b) PROVE HoldIffUnfinished'
  BY <1>15, FiniteSubmissions, RequestsAssumption
  DEF AbandonKill, Fault, Go, gateVars, HoldIffUnfinished, Abandoned, TypeOK
<1>16. ASSUME NEW b \in Submissions, NEW c \in 1..budget[b], Charge(b, c) PROVE HoldIffUnfinished'
  BY <1>16, FiniteSubmissions, RequestsAssumption
  DEF Charge, rowVars, txVars, HoldIffUnfinished, Abandoned, TypeOK
<1>17. ASSUME NEW b \in Submissions, FinalizeJob(b) PROVE HoldIffUnfinished'
  BY <1>17, FiniteSubmissions, RequestsAssumption
  DEF FinalizeJob, txVars, gateVars, gateVars, HoldIffUnfinished, Abandoned, TypeOK
<1>18. ASSUME NEW b \in Submissions, ApplyItemBilling(b) PROVE HoldIffUnfinished'
  <2>1. batch' = batch /\ pc' = pc /\ \A d \in Submissions \ {b} : hold'[d] = hold[d]
    BY <1>18 DEF ApplyItemBilling, txVars, TypeOK
  <2>2. /\ hold'[b] = (IF hold[b] = NULL THEN NULL ELSE Decrement(hold[b], unbooked[b]))
        /\ hold[b] \in Nat \cup {NULL} /\ unbooked[b] \in Nat
    BY <1>18 DEF ApplyItemBilling, TypeOK
  <2>3. hold[b] # NULL => hold'[b] \in Nat
    BY <2>2 DEF Decrement
  <2>4. hold'[b] # NULL <=> hold[b] # NULL
    BY <2>2, <2>3, AmountsAssumption
  <2> QED
    BY <2>1, <2>4 DEF HoldIffUnfinished, Abandoned
<1>19. ASSUME NEW b \in Submissions, CloseBatch(b) PROVE HoldIffUnfinished'
  BY <1>19, FiniteSubmissions, RequestsAssumption
  DEF CloseBatch, txVars, HoldIffUnfinished, Abandoned, TypeOK
<1>20. ASSUME NEW b \in Submissions, GrowOld(b) PROVE HoldIffUnfinished'
  BY <1>20, FiniteSubmissions, RequestsAssumption
  DEF GrowOld, txVars, gateVars, HoldIffUnfinished, Abandoned, TypeOK
<1> QED
  BY <1>1, <1>2, <1>3, <1>4, <1>5, <1>6, <1>7, <1>8, <1>9, <1>10,
     <1>11, <1>12, <1>13, <1>14, <1>15, <1>16, <1>17, <1>18, <1>19, <1>20 DEF Next

\* A batch's hold goes up with what may be charged and comes down with what is booked.
LEMMA HoldsCoverStep ==
    ASSUME TypeOK, NothingYet, RetriedIsLive, HoldsCover, HoldIffUnfinished, Next PROVE HoldsCover'
<1>1. ASSUME NEW r \in Requests, lockUserBalance(r) PROVE HoldsCover'
  BY <1>1, FiniteSubmissions, RequestsAssumption
  DEF lockUserBalance, RowFree, Go, rowVars, gateVars, HoldsCover, Secured, Abandoned, TypeOK
<1>2. ASSUME NEW r \in Requests, Reuse(r) PROVE HoldsCover'
  BY <1>2, FiniteSubmissions, RequestsAssumption
  DEF Reuse, Go, EndTx, rowVars, gateVars, HoldsCover, Secured, Abandoned, TypeOK
<1>3. ASSUME NEW r \in Requests, Miss(r) PROVE HoldsCover'
  BY <1>3, FiniteSubmissions, RequestsAssumption
  DEF Miss, Go, rowVars, gateVars, HoldsCover, Secured, Abandoned, TypeOK
<1>4. ASSUME NEW r \in Requests, NEW b \in Submissions, LockJob(r, b) PROVE HoldsCover'
  BY <1>4, FiniteSubmissions, RequestsAssumption
  DEF LockJob, Go, rowVars, gateVars, HoldsCover, Secured, Abandoned, TypeOK
<1>5. ASSUME NEW r \in Requests, RefuseRetry(r) PROVE HoldsCover'
  BY <1>5, FiniteSubmissions, RequestsAssumption
  DEF RefuseRetry, Go, EndTx, rowVars, gateVars, HoldsCover, Secured, Abandoned, TypeOK
<1>6. ASSUME NEW r \in Requests, sumOpenHolds(r) PROVE HoldsCover'
  BY <1>6, FiniteSubmissions, RequestsAssumption
  DEF sumOpenHolds, Go, rowVars, gateVars, HoldsCover, Secured, Abandoned, TypeOK
<1>7. ASSUME NEW r \in Requests, Reject(r) PROVE HoldsCover'
  BY <1>7, FiniteSubmissions, RequestsAssumption
  DEF Reject, Go, EndTx, rowVars, gateVars, HoldsCover, Secured, Abandoned, TypeOK
<1>8. ASSUME NEW r \in Requests, Admit(r) PROVE HoldsCover'
  <2> DEFINE p == Price[r]
  <2>1. /\ r \in Submissions /\ r \in Requests /\ p \in Nat
        /\ hold[r] = NULL /\ unbooked[r] = 0
    BY <1>8, FiniteSubmissions, PriceAssumption DEF Admit, NothingYet
  <2>2. /\ hold' = [hold EXCEPT ![r] = IF @ = NULL THEN p ELSE @ + p] /\ budget' = [budget EXCEPT ![r] = p]
        /\ batch' = [batch EXCEPT ![r] = "created"] /\ pc' = [pc EXCEPT ![r] = "starting"] /\ unbooked' = unbooked
    BY <1>8 DEF Admit, insertHold, Go
  <2> HIDE DEF p
  <2>3. hold'[r] = p /\ budget'[r] = p /\ batch'[r] = "created" /\ unbooked'[r] = 0
    BY <2>1, <2>2 DEF TypeOK
  <2>4. \A b \in Submissions \ {r} : /\ hold'[b] = hold[b] /\ budget'[b] = budget[b] /\ batch'[b] = batch[b]
                                     /\ unbooked'[b] = unbooked[b] /\ pc'[b] = pc[b]
    BY <2>2, FiniteSubmissions DEF TypeOK
  <2> QED
    BY <2>1, <2>3, <2>4, AmountsAssumption DEF HoldsCover, Secured, Abandoned
<1>9. ASSUME NEW r \in Requests, AdmitRetry(r) PROVE HoldsCover'
  <2> DEFINE p == Price[r]
             s == subject[r]
  <2>1. s \in Submissions /\ p \in Nat /\ batch[s] = "live" /\ r \notin Submissions
    BY <1>9, PriceAssumption, RequestsAssumption DEF AdmitRetry, RetriedIsLive
  <2>2. /\ hold' = [hold EXCEPT ![s] = IF @ = NULL THEN p ELSE @ + p] /\ budget' = [budget EXCEPT ![s] = @ + p]
        /\ batch' = batch /\ pc' = [pc EXCEPT ![r] = "answered"] /\ unbooked' = unbooked
    BY <1>9 DEF AdmitRetry, insertHold, Go
  <2> HIDE DEF p, s
  <2>3. hold'[s] = (IF hold[s] = NULL THEN p ELSE hold[s] + p) /\ budget'[s] = budget[s] + p
    BY <2>1, <2>2 DEF TypeOK
  <2>4. \A b \in Submissions \ {s} : hold'[b] = hold[b] /\ budget'[b] = budget[b]
    BY <2>2 DEF TypeOK
  <2>5. \A b \in Submissions : pc'[b] = pc[b]
    BY <2>1, <2>2, FiniteSubmissions DEF TypeOK
  <2>6. /\ hold[s] \in Nat \cup {NULL} /\ budget[s] \in Nat /\ unbooked[s] \in Nat
        /\ hold'[s] # NULL
    BY <2>1, <2>3, AmountsAssumption DEF TypeOK
  <2>7. ~Abandoned(s) => hold'[s] >= budget'[s] + unbooked[s]
    BY <2>1, <2>3, <2>6 DEF HoldsCover, HoldIffUnfinished, Secured
  <2> QED
    BY <2>1, <2>2, <2>4, <2>5, <2>6, <2>7 DEF HoldsCover, Secured, Abandoned
<1>10. ASSUME NEW b \in Submissions, StartHolding(b) PROVE HoldsCover'
  BY <1>10, FiniteSubmissions, RequestsAssumption
  DEF StartHolding, Go, gateVars, HoldsCover, Secured, Abandoned, TypeOK
<1>11. ASSUME NEW b \in Submissions, StartRunning(b) PROVE HoldsCover'
  BY <1>11, FiniteSubmissions, RequestsAssumption
  DEF StartRunning, Go, rowVars, gateVars, HoldsCover, Secured, Abandoned, TypeOK
<1>12. ASSUME NEW b \in Submissions, StartFails(b) PROVE HoldsCover'
  BY <1>12, FiniteSubmissions, RequestsAssumption
  DEF StartFails, Fault, Go, gateVars, HoldsCover, Secured, Abandoned, TypeOK
<1>13. ASSUME NEW b \in Submissions, AbandonRelease(b) PROVE HoldsCover'
  BY <1>13, FiniteSubmissions, RequestsAssumption
  DEF AbandonRelease, Fault, Go, gateVars, HoldsCover, Secured, Abandoned, TypeOK
<1>14. ASSUME NEW b \in Submissions, ClearJobIdempotencyKey(b) PROVE HoldsCover'
  BY <1>14, FiniteSubmissions, RequestsAssumption
  DEF ClearJobIdempotencyKey, Fault, Go, gateVars, HoldsCover, Secured, Abandoned, TypeOK
<1>15. ASSUME NEW b \in Submissions, AbandonKill(b) PROVE HoldsCover'
  BY <1>15, FiniteSubmissions, RequestsAssumption
  DEF AbandonKill, Fault, Go, gateVars, HoldsCover, Secured, Abandoned, TypeOK
<1>16. ASSUME NEW b \in Submissions, NEW c \in 1..budget[b], Charge(b, c) PROVE HoldsCover'
  BY <1>16, FiniteSubmissions, RequestsAssumption
  DEF Charge, rowVars, txVars, HoldsCover, Secured, Abandoned, TypeOK
<1>17. ASSUME NEW b \in Submissions, FinalizeJob(b) PROVE HoldsCover'
  BY <1>17, FiniteSubmissions, RequestsAssumption
  DEF FinalizeJob, txVars, gateVars, HoldsCover, Secured, Abandoned, TypeOK
<1>18. ASSUME NEW b \in Submissions, ApplyItemBilling(b) PROVE HoldsCover'
  <2>1. /\ budget[b] \in Nat /\ unbooked[b] \in Nat /\ hold[b] \in Nat \cup {NULL}
        /\ budget' = budget /\ batch' = batch /\ pc' = pc
    BY <1>18 DEF ApplyItemBilling, TypeOK, txVars
  <2>2. /\ hold'[b] = (IF hold[b] = NULL THEN NULL ELSE Decrement(hold[b], unbooked[b]))
        /\ unbooked'[b] = 0
    BY <1>18 DEF ApplyItemBilling, TypeOK
  <2>3. \A d \in Submissions \ {b} : hold'[d] = hold[d] /\ unbooked'[d] = unbooked[d]
    BY <1>18 DEF ApplyItemBilling, TypeOK
  <2>4. b \in Secured' => b \in Secured
    BY <2>1, <2>2 DEF Secured, Abandoned
  <2>5. b \in Secured => hold'[b] >= budget[b]
    <3>1. b \in Secured => hold[b] \in Nat /\ hold[b] >= budget[b] + unbooked[b]
      BY <2>1 DEF HoldsCover, Secured
    <3> QED
      BY <2>1, <2>2, <3>1, AmountsAssumption DEF Decrement
  <2> QED
    BY <2>1, <2>2, <2>3, <2>4, <2>5 DEF HoldsCover, Secured, Abandoned
<1>19. ASSUME NEW b \in Submissions, CloseBatch(b) PROVE HoldsCover'
  BY <1>19, FiniteSubmissions, RequestsAssumption
  DEF CloseBatch, txVars, HoldsCover, Secured, Abandoned, TypeOK
<1>20. ASSUME NEW b \in Submissions, GrowOld(b) PROVE HoldsCover'
  BY <1>20, FiniteSubmissions, RequestsAssumption
  DEF GrowOld, txVars, gateVars, HoldsCover, Secured, Abandoned, TypeOK
<1> QED
  BY <1>1, <1>2, <1>3, <1>4, <1>5, <1>6, <1>7, <1>8, <1>9, <1>10,
     <1>11, <1>12, <1>13, <1>14, <1>15, <1>16, <1>17, <1>18, <1>19, <1>20 DEF Next

-----------------------------------------------------------------------------
(* What may still be charged                                               *)

\* What may still be charged is never negative.
LEMMA CommittedIsNat == ASSUME TypeOK PROVE Committed \in Nat
<1>1. IsFiniteSet(Secured) /\ \A b \in Secured : budget[b] \in Nat
  BY FiniteSubmissions, FS_Subset DEF Secured, TypeOK
<1> QED
  BY <1>1, SumNat DEF Committed

\* Fewer holds and smaller budgets add up to less.
LEMMA CommittedShrinks ==
    ASSUME TypeOK, TypeOK', Secured' \subseteq Secured, \A b \in Submissions : budget'[b] <= budget[b]
    PROVE  Committed' <= Committed
<1>1. IsFiniteSet(Secured) /\ Secured \subseteq Submissions
  BY FiniteSubmissions, FS_Subset DEF Secured
<1>2. IsFiniteSet(Secured') /\ Secured' \in SUBSET Secured
  BY <1>1, FS_Subset
<1>3. \A b \in Submissions : budget[b] \in Nat /\ budget'[b] \in Nat
  BY DEF TypeOK
<1>4. SumFunctionOnSet(budget', Secured') <= SumFunctionOnSet(budget, Secured')
  <2>1. \A b \in Secured' : budget'[b] \in Int /\ budget[b] \in Int /\ budget'[b] <= budget[b]
    BY <1>1, <1>2, <1>3
  <2> QED
    BY <1>2, <2>1, SumPointwise
<1>5. SumFunctionOnSet(budget, Secured') <= SumFunctionOnSet(budget, Secured)
  <2>1. \A b \in Secured : budget[b] \in Nat
    BY <1>1, <1>3
  <2> QED
    BY <1>1, <1>2, <2>1, SumSubset
<1>6. \A b \in Secured' : budget[b] \in Nat /\ budget'[b] \in Nat
  BY <1>1, <1>2, <1>3
<1>7. /\ SumFunctionOnSet(budget', Secured') \in Nat /\ SumFunctionOnSet(budget, Secured') \in Nat
      /\ SumFunctionOnSet(budget, Secured) \in Nat
  BY <1>1, <1>2, <1>3, <1>6, SumNat
<1> QED
  BY <1>4, <1>5, <1>7 DEF Committed

\* The open holds cover it: every secured hold is open and covers its batch.
LEMMA OpenHoldsCover == ASSUME TypeOK, HoldsCover PROVE OpenHolds >= Committed
<1>1. Secured \in SUBSET Open /\ Open \subseteq Submissions /\ IsFiniteSet(Open) /\ IsFiniteSet(Secured)
  BY FiniteSubmissions, FS_Subset DEF Secured, Open
<1>2. \A b \in Open : hold[b] \in Nat
  BY <1>1 DEF Open, TypeOK
<1>3. \A b \in Secured : budget[b] \in Nat /\ hold[b] \in Nat /\ budget[b] <= hold[b]
  <2> SUFFICES ASSUME NEW b \in Secured PROVE budget[b] \in Nat /\ hold[b] \in Nat /\ budget[b] <= hold[b]
    OBVIOUS
  <2>1. b \in Submissions /\ hold[b] \in Nat /\ budget[b] \in Nat /\ unbooked[b] \in Nat
    BY <1>1, <1>2 DEF TypeOK
  <2>2. hold[b] >= budget[b] + unbooked[b]
    BY <2>1 DEF HoldsCover
  <2> QED
    BY <2>1, <2>2
<1>4. SumFunctionOnSet(budget, Secured) <= SumFunctionOnSet(hold, Secured)
  BY <1>1, <1>3, SumPointwise
<1>5. SumFunctionOnSet(hold, Secured) <= SumFunctionOnSet(hold, Open)
  BY <1>1, <1>2, SumSubset
<1>6. /\ SumFunctionOnSet(budget, Secured) \in Nat /\ SumFunctionOnSet(hold, Secured) \in Nat
      /\ SumFunctionOnSet(hold, Open) \in Nat
  BY <1>1, <1>2, <1>3, SumNat
<1> QED
  BY <1>4, <1>5, <1>6 DEF OpenHolds, Committed

\* A request that commits its admission.
Admits(r) == Admit(r) \/ AdmitRetry(r)

\* What only an admission does not keep to.
SecuresNoMore == Secured' \subseteq Secured /\ \A b \in Submissions : budget'[b] <= budget[b]

\* A request that is deciding has just added up the open holds, or had done so before.
HeldWasRead ==
    \A q \in Requests : pc'[q] = "deciding" =>
        held'[q] = OpenHolds \/ (pc[q] = "deciding" /\ held'[q] = held[q])

\* Only an admission secures more.
LEMMA ShrinkStep ==
    ASSUME TypeOK, ~\E r \in Requests : Admits(r), Next PROVE SecuresNoMore
<1>1. ASSUME NEW r \in Requests, lockUserBalance(r) PROVE SecuresNoMore
  BY <1>1, FiniteSubmissions, RequestsAssumption
  DEF lockUserBalance, RowFree, Go, rowVars, gateVars, SecuresNoMore, Secured, Abandoned, TypeOK
<1>2. ASSUME NEW r \in Requests, Reuse(r) PROVE SecuresNoMore
  BY <1>2, FiniteSubmissions, RequestsAssumption
  DEF Reuse, Go, EndTx, rowVars, gateVars, SecuresNoMore, Secured, Abandoned, TypeOK
<1>3. ASSUME NEW r \in Requests, Miss(r) PROVE SecuresNoMore
  BY <1>3, FiniteSubmissions, RequestsAssumption
  DEF Miss, Go, rowVars, gateVars, SecuresNoMore, Secured, Abandoned, TypeOK
<1>4. ASSUME NEW r \in Requests, NEW b \in Submissions, LockJob(r, b) PROVE SecuresNoMore
  BY <1>4, FiniteSubmissions, RequestsAssumption
  DEF LockJob, Go, rowVars, gateVars, SecuresNoMore, Secured, Abandoned, TypeOK
<1>5. ASSUME NEW r \in Requests, RefuseRetry(r) PROVE SecuresNoMore
  BY <1>5, FiniteSubmissions, RequestsAssumption
  DEF RefuseRetry, Go, EndTx, rowVars, gateVars, SecuresNoMore, Secured, Abandoned, TypeOK
<1>6. ASSUME NEW r \in Requests, sumOpenHolds(r) PROVE SecuresNoMore
  BY <1>6, FiniteSubmissions, RequestsAssumption
  DEF sumOpenHolds, Go, rowVars, gateVars, SecuresNoMore, Secured, Abandoned, TypeOK
<1>7. ASSUME NEW r \in Requests, Reject(r) PROVE SecuresNoMore
  BY <1>7, FiniteSubmissions, RequestsAssumption
  DEF Reject, Go, EndTx, rowVars, gateVars, SecuresNoMore, Secured, Abandoned, TypeOK
<1>8. ASSUME NEW b \in Submissions, StartHolding(b) PROVE SecuresNoMore
  BY <1>8, FiniteSubmissions, RequestsAssumption
  DEF StartHolding, Go, gateVars, SecuresNoMore, Secured, Abandoned, TypeOK
<1>9. ASSUME NEW b \in Submissions, StartRunning(b) PROVE SecuresNoMore
  BY <1>9, FiniteSubmissions, RequestsAssumption
  DEF StartRunning, Go, rowVars, gateVars, SecuresNoMore, Secured, Abandoned, TypeOK
<1>10. ASSUME NEW b \in Submissions, StartFails(b) PROVE SecuresNoMore
  BY <1>10, FiniteSubmissions, RequestsAssumption
  DEF StartFails, Fault, Go, gateVars, SecuresNoMore, Secured, Abandoned, TypeOK
<1>11. ASSUME NEW b \in Submissions, AbandonRelease(b) PROVE SecuresNoMore
  BY <1>11, FiniteSubmissions, RequestsAssumption
  DEF AbandonRelease, Fault, Go, gateVars, SecuresNoMore, Secured, Abandoned, TypeOK
<1>12. ASSUME NEW b \in Submissions, ClearJobIdempotencyKey(b) PROVE SecuresNoMore
  BY <1>12, FiniteSubmissions, RequestsAssumption
  DEF ClearJobIdempotencyKey, Fault, Go, gateVars, SecuresNoMore, Secured, Abandoned, TypeOK
<1>13. ASSUME NEW b \in Submissions, AbandonKill(b) PROVE SecuresNoMore
  BY <1>13, FiniteSubmissions, RequestsAssumption
  DEF AbandonKill, Fault, Go, gateVars, SecuresNoMore, Secured, Abandoned, TypeOK
<1>14. ASSUME NEW b \in Submissions, NEW c \in 1..budget[b], Charge(b, c) PROVE SecuresNoMore
  BY <1>14, FiniteSubmissions, RequestsAssumption
  DEF Charge, rowVars, txVars, SecuresNoMore, Secured, Abandoned, TypeOK
<1>15. ASSUME NEW b \in Submissions, FinalizeJob(b) PROVE SecuresNoMore
  BY <1>15, FiniteSubmissions, RequestsAssumption
  DEF FinalizeJob, txVars, gateVars, SecuresNoMore, Secured, Abandoned, TypeOK
<1>16. ASSUME NEW b \in Submissions, ApplyItemBilling(b) PROVE SecuresNoMore
  BY <1>16, FiniteSubmissions, RequestsAssumption
  DEF ApplyItemBilling, Decrement, txVars, SecuresNoMore, Secured, Abandoned, TypeOK
<1>17. ASSUME NEW b \in Submissions, CloseBatch(b) PROVE SecuresNoMore
  BY <1>17, FiniteSubmissions, RequestsAssumption
  DEF CloseBatch, txVars, SecuresNoMore, Secured, Abandoned, TypeOK
<1>18. ASSUME NEW b \in Submissions, GrowOld(b) PROVE SecuresNoMore
  BY <1>18, FiniteSubmissions, RequestsAssumption
  DEF GrowOld, txVars, gateVars, SecuresNoMore, Secured, Abandoned, TypeOK
<1> QED
  BY <1>1, <1>2, <1>3, <1>4, <1>5, <1>6, <1>7, <1>8, <1>9, <1>10,
     <1>11, <1>12, <1>13, <1>14, <1>15, <1>16, <1>17, <1>18 DEF Next, Admits

\* The balance a transaction read stands: whoever charges waits for the row.
LEMMA FundsStep ==
    ASSUME TypeOK, OneInTx, FundsStand, Next PROVE FundsStand'
<1>1. ASSUME NEW r \in Requests, lockUserBalance(r) PROVE FundsStand'
  BY <1>1, FiniteSubmissions, RequestsAssumption
  DEF lockUserBalance, RowFree, Go, rowVars, gateVars, OneInTx, InTx, FundsStand, TypeOK
<1>2. ASSUME NEW r \in Requests, Reuse(r) PROVE FundsStand'
  BY <1>2, FiniteSubmissions, RequestsAssumption
  DEF Reuse, Go, EndTx, rowVars, gateVars, OneInTx, InTx, FundsStand, TypeOK
<1>3. ASSUME NEW r \in Requests, Miss(r) PROVE FundsStand'
  BY <1>3, FiniteSubmissions, RequestsAssumption
  DEF Miss, Go, rowVars, gateVars, OneInTx, InTx, FundsStand, TypeOK
<1>4. ASSUME NEW r \in Requests, NEW b \in Submissions, LockJob(r, b) PROVE FundsStand'
  BY <1>4, FiniteSubmissions, RequestsAssumption
  DEF LockJob, Go, rowVars, gateVars, OneInTx, InTx, FundsStand, TypeOK
<1>5. ASSUME NEW r \in Requests, RefuseRetry(r) PROVE FundsStand'
  BY <1>5, FiniteSubmissions, RequestsAssumption
  DEF RefuseRetry, Go, EndTx, rowVars, gateVars, OneInTx, InTx, FundsStand, TypeOK
<1>6. ASSUME NEW r \in Requests, sumOpenHolds(r) PROVE FundsStand'
  BY <1>6, FiniteSubmissions, RequestsAssumption
  DEF sumOpenHolds, Go, rowVars, gateVars, OneInTx, InTx, FundsStand, TypeOK
<1>7. ASSUME NEW r \in Requests, Reject(r) PROVE FundsStand'
  BY <1>7, FiniteSubmissions, RequestsAssumption
  DEF Reject, Go, EndTx, rowVars, gateVars, OneInTx, InTx, FundsStand, TypeOK
<1>8. ASSUME NEW r \in Requests, Admit(r) PROVE FundsStand'
  BY <1>8, FiniteSubmissions, RequestsAssumption
  DEF Admit, insertHold, Go, EndTx, OneInTx, InTx, FundsStand, TypeOK
<1>9. ASSUME NEW r \in Requests, AdmitRetry(r) PROVE FundsStand'
  BY <1>9, FiniteSubmissions, RequestsAssumption
  DEF AdmitRetry, insertHold, Go, EndTx, OneInTx, InTx, FundsStand, TypeOK
<1>10. ASSUME NEW b \in Submissions, StartHolding(b) PROVE FundsStand'
  BY <1>10, FiniteSubmissions, RequestsAssumption
  DEF StartHolding, Go, gateVars, OneInTx, InTx, FundsStand, TypeOK
<1>11. ASSUME NEW b \in Submissions, StartRunning(b) PROVE FundsStand'
  BY <1>11, FiniteSubmissions, RequestsAssumption
  DEF StartRunning, Go, rowVars, gateVars, OneInTx, InTx, FundsStand, TypeOK
<1>12. ASSUME NEW b \in Submissions, StartFails(b) PROVE FundsStand'
  BY <1>12, FiniteSubmissions, RequestsAssumption
  DEF StartFails, Fault, Go, gateVars, OneInTx, InTx, FundsStand, TypeOK
<1>13. ASSUME NEW b \in Submissions, AbandonRelease(b) PROVE FundsStand'
  BY <1>13, FiniteSubmissions, RequestsAssumption
  DEF AbandonRelease, Fault, Go, gateVars, OneInTx, InTx, FundsStand, TypeOK
<1>14. ASSUME NEW b \in Submissions, ClearJobIdempotencyKey(b) PROVE FundsStand'
  BY <1>14, FiniteSubmissions, RequestsAssumption
  DEF ClearJobIdempotencyKey, Fault, Go, gateVars, OneInTx, InTx, FundsStand, TypeOK
<1>15. ASSUME NEW b \in Submissions, AbandonKill(b) PROVE FundsStand'
  BY <1>15, FiniteSubmissions, RequestsAssumption
  DEF AbandonKill, Fault, Go, gateVars, OneInTx, InTx, FundsStand, TypeOK
<1>16. ASSUME NEW b \in Submissions, NEW c \in 1..budget[b], Charge(b, c) PROVE FundsStand'
  BY <1>16, FiniteSubmissions, RequestsAssumption
  DEF Charge, rowVars, txVars, OneInTx, InTx, FundsStand, TypeOK
<1>17. ASSUME NEW b \in Submissions, FinalizeJob(b) PROVE FundsStand'
  BY <1>17, FiniteSubmissions, RequestsAssumption
  DEF FinalizeJob, txVars, gateVars, OneInTx, InTx, FundsStand, TypeOK
<1>18. ASSUME NEW b \in Submissions, ApplyItemBilling(b) PROVE FundsStand'
  BY <1>18, FiniteSubmissions, RequestsAssumption
  DEF ApplyItemBilling, Decrement, txVars, OneInTx, InTx, FundsStand, TypeOK
<1>19. ASSUME NEW b \in Submissions, CloseBatch(b) PROVE FundsStand'
  BY <1>19, FiniteSubmissions, RequestsAssumption
  DEF CloseBatch, txVars, OneInTx, InTx, FundsStand, TypeOK
<1>20. ASSUME NEW b \in Submissions, GrowOld(b) PROVE FundsStand'
  BY <1>20, FiniteSubmissions, RequestsAssumption
  DEF GrowOld, txVars, gateVars, OneInTx, InTx, FundsStand, TypeOK
<1> QED
  BY <1>1, <1>2, <1>3, <1>4, <1>5, <1>6, <1>7, <1>8, <1>9, <1>10,
     <1>11, <1>12, <1>13, <1>14, <1>15, <1>16, <1>17, <1>18, <1>19, <1>20 DEF Next

\* The sum of holds is read once, before the decision.
LEMMA HeldStep ==
    ASSUME TypeOK, Next PROVE HeldWasRead
<1>1. ASSUME NEW r \in Requests, lockUserBalance(r) PROVE HeldWasRead
  BY <1>1, FiniteSubmissions, RequestsAssumption
  DEF lockUserBalance, RowFree, Go, rowVars, gateVars, HeldWasRead, TypeOK
<1>2. ASSUME NEW r \in Requests, Reuse(r) PROVE HeldWasRead
  BY <1>2, FiniteSubmissions, RequestsAssumption
  DEF Reuse, Go, EndTx, rowVars, gateVars, HeldWasRead, TypeOK
<1>3. ASSUME NEW r \in Requests, Miss(r) PROVE HeldWasRead
  BY <1>3, FiniteSubmissions, RequestsAssumption DEF Miss, Go, rowVars, gateVars, HeldWasRead, TypeOK
<1>4. ASSUME NEW r \in Requests, NEW b \in Submissions, LockJob(r, b) PROVE HeldWasRead
  BY <1>4, FiniteSubmissions, RequestsAssumption
  DEF LockJob, Go, rowVars, gateVars, HeldWasRead, TypeOK
<1>5. ASSUME NEW r \in Requests, RefuseRetry(r) PROVE HeldWasRead
  BY <1>5, FiniteSubmissions, RequestsAssumption
  DEF RefuseRetry, Go, EndTx, rowVars, gateVars, HeldWasRead, TypeOK
<1>6. ASSUME NEW r \in Requests, sumOpenHolds(r) PROVE HeldWasRead
  BY <1>6, FiniteSubmissions, RequestsAssumption
  DEF sumOpenHolds, Go, rowVars, gateVars, HeldWasRead, TypeOK
<1>7. ASSUME NEW r \in Requests, Reject(r) PROVE HeldWasRead
  BY <1>7, FiniteSubmissions, RequestsAssumption
  DEF Reject, Go, EndTx, rowVars, gateVars, HeldWasRead, TypeOK
<1>8. ASSUME NEW r \in Requests, Admit(r) PROVE HeldWasRead
  BY <1>8, FiniteSubmissions, RequestsAssumption DEF Admit, insertHold, Go, EndTx, HeldWasRead, TypeOK
<1>9. ASSUME NEW r \in Requests, AdmitRetry(r) PROVE HeldWasRead
  BY <1>9, FiniteSubmissions, RequestsAssumption
  DEF AdmitRetry, insertHold, Go, EndTx, HeldWasRead, TypeOK
<1>10. ASSUME NEW b \in Submissions, StartHolding(b) PROVE HeldWasRead
  BY <1>10, FiniteSubmissions, RequestsAssumption DEF StartHolding, Go, gateVars, HeldWasRead, TypeOK
<1>11. ASSUME NEW b \in Submissions, StartRunning(b) PROVE HeldWasRead
  BY <1>11, FiniteSubmissions, RequestsAssumption
  DEF StartRunning, Go, rowVars, gateVars, HeldWasRead, TypeOK
<1>12. ASSUME NEW b \in Submissions, StartFails(b) PROVE HeldWasRead
  BY <1>12, FiniteSubmissions, RequestsAssumption
  DEF StartFails, Fault, Go, gateVars, HeldWasRead, TypeOK
<1>13. ASSUME NEW b \in Submissions, AbandonRelease(b) PROVE HeldWasRead
  BY <1>13, FiniteSubmissions, RequestsAssumption
  DEF AbandonRelease, Fault, Go, gateVars, HeldWasRead, TypeOK
<1>14. ASSUME NEW b \in Submissions, ClearJobIdempotencyKey(b) PROVE HeldWasRead
  BY <1>14, FiniteSubmissions, RequestsAssumption
  DEF ClearJobIdempotencyKey, Fault, Go, gateVars, HeldWasRead, TypeOK
<1>15. ASSUME NEW b \in Submissions, AbandonKill(b) PROVE HeldWasRead
  BY <1>15, FiniteSubmissions, RequestsAssumption
  DEF AbandonKill, Fault, Go, gateVars, HeldWasRead, TypeOK
<1>16. ASSUME NEW b \in Submissions, NEW c \in 1..budget[b], Charge(b, c) PROVE HeldWasRead
  BY <1>16, FiniteSubmissions, RequestsAssumption DEF Charge, rowVars, txVars, HeldWasRead, TypeOK
<1>17. ASSUME NEW b \in Submissions, FinalizeJob(b) PROVE HeldWasRead
  BY <1>17, FiniteSubmissions, RequestsAssumption DEF FinalizeJob, txVars, gateVars, HeldWasRead, TypeOK
<1>18. ASSUME NEW b \in Submissions, ApplyItemBilling(b) PROVE HeldWasRead
  BY <1>18, FiniteSubmissions, RequestsAssumption
  DEF ApplyItemBilling, Decrement, txVars, HeldWasRead, TypeOK
<1>19. ASSUME NEW b \in Submissions, CloseBatch(b) PROVE HeldWasRead
  BY <1>19, FiniteSubmissions, RequestsAssumption DEF CloseBatch, txVars, HeldWasRead, TypeOK
<1>20. ASSUME NEW b \in Submissions, GrowOld(b) PROVE HeldWasRead
  BY <1>20, FiniteSubmissions, RequestsAssumption DEF GrowOld, txVars, gateVars, HeldWasRead, TypeOK
<1> QED
  BY <1>1, <1>2, <1>3, <1>4, <1>5, <1>6, <1>7, <1>8, <1>9, <1>10,
     <1>11, <1>12, <1>13, <1>14, <1>15, <1>16, <1>17, <1>18, <1>19, <1>20 DEF Next

\* An admission that finds the balance sufficient secures no more than its price.
LEMMA AdmitSecures ==
    ASSUME TypeOK, TypeOK', NothingYet, RetriedIsLive, HoldIffUnfinished, NEW r \in Requests, Admits(r)
    PROVE  Committed' <= Committed + Price[r]
<1>0. IsFiniteSet(Secured) /\ Secured \subseteq Submissions /\ Price[r] \in Nat /\ Committed \in Nat
  BY FiniteSubmissions, FS_Subset, PriceAssumption, CommittedIsNat DEF Secured
<1>1. \A b \in Submissions : budget[b] \in Nat /\ budget'[b] \in Nat
  BY DEF TypeOK
<1>2. CASE Admit(r)
  <2>1. r \in Submissions /\ hold[r] = NULL /\ budget'[r] = Price[r] /\ r \notin Secured
    BY <1>2 DEF Admit, NothingYet, Secured, TypeOK
  <2>2. \A b \in Submissions \ {r} : hold'[b] = hold[b] /\ budget'[b] = budget[b] /\ pc'[b] = pc[b]
    BY <1>2, FiniteSubmissions DEF Admit, insertHold, Go, TypeOK
  <2>3. hold'[r] = Price[r] /\ pc'[r] = "starting"
    BY <1>2, <2>1 DEF Admit, insertHold, Go, TypeOK
  <2>4. Secured' = Secured \cup {r}
    BY <1>0, <2>1, <2>2, <2>3, AmountsAssumption DEF Secured, Abandoned
  <2>5. Secured' \ {r} = Secured /\ r \in Secured' /\ IsFiniteSet(Secured')
    BY <1>0, <2>1, <2>4, FS_AddElement
  <2>6. \A b \in Secured' : budget'[b] \in Int
    BY <1>0, <1>1, <2>1, <2>4
  <2>7. SumFunctionOnSet(budget', Secured') = budget'[r] + SumFunctionOnSet(budget', Secured)
    BY <2>5, <2>6, SumRemove
  <2>8. \A b \in Secured : budget[b] \in Int /\ budget[b] = budget'[b]
    BY <1>0, <1>1, <2>1, <2>2
  <2>9. SumFunctionOnSet(budget, Secured) = SumFunctionOnSet(budget', Secured)
    BY <1>0, <2>8, SumSame
  <2> QED
    BY <1>0, <2>1, <2>7, <2>9 DEF Committed
<1>3. CASE AdmitRetry(r)
  <2> DEFINE s == subject[r]
  <2>1. s \in Submissions /\ batch[s] = "live" /\ r \notin Submissions
    BY <1>3, RequestsAssumption DEF AdmitRetry, RetriedIsLive
  <2>2. \A b \in Submissions : pc'[b] = pc[b]
    BY <1>3, <2>1, FiniteSubmissions DEF AdmitRetry, Go, TypeOK
  <2>3. \A b \in Submissions \ {s} : hold'[b] = hold[b] /\ budget'[b] = budget[b]
    BY <1>3 DEF AdmitRetry, insertHold, TypeOK
  <2>4. budget'[s] = budget[s] + Price[r]
    BY <1>3, <2>1 DEF AdmitRetry, TypeOK
  <2>5. s \in Secured \/ Abandoned(s)
    BY <2>1 DEF HoldIffUnfinished, Secured
  <2> HIDE DEF s
  <2>6. CASE s \in Secured
    <3>1. hold'[s] # NULL
      <4>1. hold[s] \in Nat /\ hold'[s] = hold[s] + Price[r]
        BY <1>3, <2>1, <2>6 DEF AdmitRetry, insertHold, TypeOK, Secured, s
      <4> QED
        BY <1>0, <4>1, AmountsAssumption
    <3>2. Secured' = Secured
      BY <2>1, <2>2, <2>3, <2>6, <3>1 DEF Secured, Abandoned
    <3>3. \A b \in Secured : budget[b] \in Int /\ budget'[b] \in Int
      BY <1>0, <1>1
    <3>4. \A b \in Secured \ {s} : budget[b] = budget'[b]
      BY <1>0, <2>3
    <3>5. SumFunctionOnSet(budget', Secured) = SumFunctionOnSet(budget, Secured) + (budget'[s] - budget[s])
      BY <1>0, <2>6, <3>3, <3>4, SumChange
    <3>6. SumFunctionOnSet(budget, Secured) \in Nat /\ budget[s] \in Nat
      BY <1>0, <1>1, <2>1 DEF Committed
    <3> QED
      BY <1>0, <2>4, <3>2, <3>5, <3>6 DEF Committed
  <2>7. CASE s \notin Secured
    <3>1. Secured' = Secured
      BY <2>1, <2>2, <2>3, <2>5, <2>7 DEF Secured, Abandoned
    <3>2. \A b \in Secured : budget[b] \in Int /\ budget[b] = budget'[b]
      BY <1>0, <1>1, <2>3, <2>7
    <3>3. SumFunctionOnSet(budget, Secured) = SumFunctionOnSet(budget', Secured)
      BY <1>0, <3>2, SumSame
    <3> QED
      BY <1>0, <3>1, <3>3 DEF Committed
  <2> QED
    BY <2>6, <2>7
<1> QED
  BY <1>2, <1>3 DEF Admits

\* A charge uses up what was committed, or is a stray one.
LEMMA ChargeStep ==
    ASSUME TypeOK, TypeOK', Covered, NEW b \in Submissions, NEW c \in 1..budget[b], Charge(b, c)
    PROVE  Covered'
<1>0. /\ balance \in Int /\ stray \in Nat /\ c \in Nat /\ balance' = balance - c
      /\ budget[b] \in Nat /\ budget'[b] = budget[b] - c
      /\ \A d \in Submissions : budget[d] \in Nat /\ budget'[d] \in Nat
      /\ \A d \in Submissions \ {b} : budget'[d] = budget[d]
  BY DEF Charge, TypeOK
<1>1. Secured' = Secured
  BY DEF Charge, Secured, Abandoned, rowVars, txVars
<1>2. IsFiniteSet(Secured) /\ Secured \subseteq Submissions /\ Committed \in Nat
  BY FiniteSubmissions, FS_Subset, CommittedIsNat DEF Secured
<1>3. CASE b \in Secured
  <2>1. stray' = stray
    BY <1>3 DEF Charge, Secured
  <2>2. \A d \in Secured : budget[d] \in Int /\ budget'[d] \in Int
    BY <1>0, <1>2
  <2>3. \A d \in Secured \ {b} : budget[d] = budget'[d]
    BY <1>0, <1>2
  <2>4. SumFunctionOnSet(budget', Secured) = SumFunctionOnSet(budget, Secured) + (budget'[b] - budget[b])
    BY <1>2, <1>3, <2>2, <2>3, SumChange
  <2>5. Committed' = Committed - c
    BY <1>0, <1>1, <1>2, <2>4 DEF Committed
  <2> QED
    BY <1>0, <1>2, <2>1, <2>5 DEF Covered
<1>4. CASE b \notin Secured
  <2>1. stray' = stray + c
    BY <1>4 DEF Charge, Secured
  <2>2. \A d \in Secured : budget[d] \in Int /\ budget[d] = budget'[d]
    BY <1>0, <1>2, <1>4
  <2>3. Committed' = Committed
    BY <1>1, <1>2, <2>2, SumSame DEF Committed
  <2> QED
    BY <1>0, <1>2, <2>1, <2>3 DEF Covered
<1> QED
  BY <1>3, <1>4

\* Nothing else touches the balance.
LEMMA BalanceStep ==
    ASSUME Next, ~\E b \in Submissions : \E c \in 1..budget[b] : Charge(b, c)
    PROVE  balance' = balance /\ stray' = stray
BY DEF Next, lockUserBalance, Reuse, Miss, LockJob, RefuseRetry, sumOpenHolds, Reject, Admit, AdmitRetry,
       StartHolding, StartRunning, StartFails, AbandonRelease, ClearJobIdempotencyKey, AbandonKill,
       FinalizeJob, ApplyItemBilling, CloseBatch, GrowOld, gateVars

\* The decision is sound: the row is locked, so the balance is the one that was read, and
\* nothing was secured since the holds were added up.
LEMMA MoneyStep ==
    ASSUME TypeOK, TypeOK', OneInTx, OneInTx', NothingYet, RetriedIsLive,
           HoldsCover, HoldIffUnfinished, FundsStand, HeldStands, Covered, Next
    PROVE  FundsStand' /\ HeldStands' /\ Covered'
<1>0. /\ Committed \in Nat /\ Committed' \in Nat /\ balance \in Int /\ stray \in Nat
      /\ balance + stray >= Committed
  <2>1. Committed' \in Nat
    <3>1. IsFiniteSet(Secured') /\ \A b \in Secured' : budget'[b] \in Nat
      BY FiniteSubmissions, FS_Subset DEF Secured, TypeOK
    <3> QED
      BY <3>1, SumNat DEF Committed
  <2> QED
    BY <2>1, CommittedIsNat DEF TypeOK, Covered
<1>1. FundsStand'
  BY FundsStep
<1>2. CASE \E r \in Requests : Admits(r)
  <2>1. PICK r \in Requests : Admits(r)
    BY <1>2
  <2>2. /\ pc[r] = "deciding" /\ funds[r] - held[r] >= Price[r] /\ rowLock' = NULL
        /\ balance' = balance /\ stray' = stray
    BY <2>1 DEF Admits, Admit, AdmitRetry, Solvent, EndTx
  <2>3. funds[r] = balance /\ held[r] >= Committed
    BY <2>2 DEF FundsStand, HeldStands, InTx
  <2>4. Committed' <= Committed + Price[r]
    BY <2>1, AdmitSecures
  <2>5. Price[r] \in Nat /\ held[r] \in Nat
    BY PriceAssumption DEF TypeOK
  <2>6. Covered'
    BY <1>0, <2>2, <2>3, <2>4, <2>5 DEF Covered
  <2>7. \A q \in Requests : ~InTx(q)'
    BY <2>2, RequestsAssumption DEF OneInTx
  <2>8. \A q \in Requests : pc'[q] # "deciding"
    BY <2>7 DEF InTx
  <2> QED
    BY <1>1, <2>6, <2>8 DEF HeldStands
<1>3. CASE ~\E r \in Requests : Admits(r)
  <2>1. Committed' <= Committed
    BY <1>3, ShrinkStep, CommittedShrinks DEF SecuresNoMore
  <2>2. ASSUME NEW q \in Requests, pc'[q] = "deciding" PROVE held'[q] >= Committed'
    <3>1. held'[q] = OpenHolds \/ (pc[q] = "deciding" /\ held'[q] = held[q])
      BY <2>2, HeldStep DEF HeldWasRead
    <3>2. pc[q] = "deciding" => held[q] >= Committed
      BY DEF HeldStands
    <3>3. OpenHolds >= Committed /\ OpenHolds \in Nat /\ held[q] \in Nat
      BY OpenHoldsCover, OpenHoldsIsNat DEF TypeOK
    <3> QED
      BY <1>0, <2>1, <3>1, <3>2, <3>3
  <2>3. Covered'
    <3>1. CASE \E b \in Submissions : \E c \in 1..budget[b] : Charge(b, c)
      BY <3>1, ChargeStep
    <3>2. CASE ~\E b \in Submissions : \E c \in 1..budget[b] : Charge(b, c)
      BY <1>0, <2>1, <3>2, BalanceStep DEF Covered
    <3> QED
      BY <3>1, <3>2
  <2> QED
    BY <1>1, <2>2, <2>3 DEF HeldStands
<1> QED
  BY <1>2, <1>3

-----------------------------------------------------------------------------
(* Idempotency keys                                                        *)

\* A batch's key is taken away only by its own abandonment, and only the request inside the
\* transaction adds one.
LEMMA KeysStep ==
    ASSUME TypeOK, OneInTx, NothingYet, KeysHold, Next PROVE KeysHold'
<1>1. ASSUME NEW r \in Requests, lockUserBalance(r) PROVE KeysHold'
  BY <1>1, FiniteSubmissions, RequestsAssumption
  DEF lockUserBalance, RowFree, Go, rowVars, gateVars, KeysHold, findJobByIdempotencyKey, Abandoned, TypeOK
<1>2. ASSUME NEW r \in Requests, Reuse(r) PROVE KeysHold'
  BY <1>2, FiniteSubmissions, RequestsAssumption
  DEF Reuse, Go, EndTx, rowVars, gateVars, KeysHold, findJobByIdempotencyKey, Abandoned, TypeOK
<1>3. ASSUME NEW r \in Requests, Miss(r) PROVE KeysHold'
  BY <1>3, FiniteSubmissions, RequestsAssumption
  DEF Miss, Go, rowVars, gateVars, KeysHold, findJobByIdempotencyKey, Abandoned, TypeOK
<1>4. ASSUME NEW r \in Requests, NEW b \in Submissions, LockJob(r, b) PROVE KeysHold'
  BY <1>4, FiniteSubmissions, RequestsAssumption
  DEF LockJob, Go, rowVars, gateVars, KeysHold, findJobByIdempotencyKey, Abandoned, TypeOK
<1>5. ASSUME NEW r \in Requests, RefuseRetry(r) PROVE KeysHold'
  BY <1>5, FiniteSubmissions, RequestsAssumption
  DEF RefuseRetry, Go, EndTx, rowVars, gateVars, KeysHold, findJobByIdempotencyKey, Abandoned, TypeOK
<1>6. ASSUME NEW r \in Requests, sumOpenHolds(r) PROVE KeysHold'
  BY <1>6, FiniteSubmissions, RequestsAssumption
  DEF sumOpenHolds, Go, rowVars, gateVars, KeysHold, findJobByIdempotencyKey, Abandoned, TypeOK
<1>7. ASSUME NEW r \in Requests, Reject(r) PROVE KeysHold'
  BY <1>7, FiniteSubmissions, RequestsAssumption
  DEF Reject, Go, EndTx, rowVars, gateVars, KeysHold, findJobByIdempotencyKey, Abandoned, TypeOK
<1>8. ASSUME NEW r \in Requests, Admit(r) PROVE KeysHold'
  <2>1. r \in Submissions /\ pc[r] = "deciding" /\ old' = old
    BY <1>8 DEF Admit
  <2>2. pc'[r] = "starting" /\ (Key[r] # NULL => r \in keyed') /\ keyed' \subseteq keyed \cup {r}
    BY <1>8, <2>1, FiniteSubmissions DEF Admit, Go, TypeOK
  <2>3. \A b \in Submissions \ {r} : /\ pc'[b] = pc[b] /\ batch'[b] = batch[b]
                                     /\ b \in keyed' <=> b \in keyed
    BY <1>8, <2>1, FiniteSubmissions DEF Admit, Go, TypeOK
  <2>4. \A b \in Submissions \ {r} : pc[b] \notin {"checking", "deciding"}
    <3>1. rowLock = r
      BY <2>1 DEF OneInTx, InTx
    <3> QED
      BY <3>1, FiniteSubmissions DEF OneInTx, InTx
  <2> QED
    BY <2>1, <2>2, <2>3, <2>4 DEF KeysHold, Abandoned
<1>9. ASSUME NEW r \in Requests, AdmitRetry(r) PROVE KeysHold'
  BY <1>9, FiniteSubmissions, RequestsAssumption
  DEF AdmitRetry, insertHold, Go, EndTx, KeysHold, findJobByIdempotencyKey, Abandoned, TypeOK
<1>10. ASSUME NEW b \in Submissions, StartHolding(b) PROVE KeysHold'
  BY <1>10, FiniteSubmissions, RequestsAssumption
  DEF StartHolding, Go, gateVars, KeysHold, findJobByIdempotencyKey, Abandoned, TypeOK
<1>11. ASSUME NEW b \in Submissions, StartRunning(b) PROVE KeysHold'
  BY <1>11, FiniteSubmissions, RequestsAssumption
  DEF StartRunning, Go, rowVars, gateVars, KeysHold, findJobByIdempotencyKey, Abandoned, TypeOK
<1>12. ASSUME NEW b \in Submissions, StartFails(b) PROVE KeysHold'
  BY <1>12, FiniteSubmissions, RequestsAssumption
  DEF StartFails, Fault, Go, gateVars, KeysHold, findJobByIdempotencyKey, Abandoned, TypeOK
<1>13. ASSUME NEW b \in Submissions, AbandonRelease(b) PROVE KeysHold'
  BY <1>13, FiniteSubmissions, RequestsAssumption
  DEF AbandonRelease, Fault, Go, gateVars, KeysHold, findJobByIdempotencyKey, Abandoned, TypeOK
<1>14. ASSUME NEW b \in Submissions, ClearJobIdempotencyKey(b) PROVE KeysHold'
  BY <1>14, FiniteSubmissions, RequestsAssumption
  DEF ClearJobIdempotencyKey, Fault, Go, gateVars, KeysHold, findJobByIdempotencyKey, Abandoned, TypeOK
<1>15. ASSUME NEW b \in Submissions, AbandonKill(b) PROVE KeysHold'
  BY <1>15, FiniteSubmissions, RequestsAssumption
  DEF AbandonKill, Fault, Go, gateVars, KeysHold, findJobByIdempotencyKey, Abandoned, TypeOK
<1>16. ASSUME NEW b \in Submissions, NEW c \in 1..budget[b], Charge(b, c) PROVE KeysHold'
  BY <1>16, FiniteSubmissions, RequestsAssumption
  DEF Charge, rowVars, txVars, KeysHold, findJobByIdempotencyKey, Abandoned, TypeOK
<1>17. ASSUME NEW b \in Submissions, FinalizeJob(b) PROVE KeysHold'
  BY <1>17, FiniteSubmissions, RequestsAssumption
  DEF FinalizeJob, txVars, gateVars, KeysHold, findJobByIdempotencyKey, Abandoned, TypeOK
<1>18. ASSUME NEW b \in Submissions, ApplyItemBilling(b) PROVE KeysHold'
  BY <1>18, FiniteSubmissions, RequestsAssumption
  DEF ApplyItemBilling, Decrement, txVars, KeysHold, findJobByIdempotencyKey, Abandoned, TypeOK
<1>19. ASSUME NEW b \in Submissions, CloseBatch(b) PROVE KeysHold'
  BY <1>19, FiniteSubmissions, RequestsAssumption
  DEF CloseBatch, txVars, KeysHold, findJobByIdempotencyKey, Abandoned, TypeOK
<1>20. ASSUME NEW b \in Submissions, GrowOld(b) PROVE KeysHold'
  BY <1>20, FiniteSubmissions, RequestsAssumption
  DEF GrowOld, txVars, gateVars, KeysHold, findJobByIdempotencyKey, Abandoned, TypeOK
<1> QED
  BY <1>1, <1>2, <1>3, <1>4, <1>5, <1>6, <1>7, <1>8, <1>9, <1>10,
     <1>11, <1>12, <1>13, <1>14, <1>15, <1>16, <1>17, <1>18, <1>19, <1>20 DEF Next

\* A second batch of a key is only admitted next to an abandoned one.
LEMMA OneBatchStep ==
    ASSUME TypeOK, KeysHold, OneBatchPerKey, Next PROVE OneBatchPerKey'
<1>1. ASSUME NEW r \in Requests, lockUserBalance(r) PROVE OneBatchPerKey'
  BY <1>1, FiniteSubmissions, RequestsAssumption
  DEF lockUserBalance, RowFree, Go, rowVars, gateVars, OneBatchPerKey, Abandoned, TypeOK
<1>2. ASSUME NEW r \in Requests, Reuse(r) PROVE OneBatchPerKey'
  BY <1>2, FiniteSubmissions, RequestsAssumption
  DEF Reuse, Go, EndTx, rowVars, gateVars, OneBatchPerKey, Abandoned, TypeOK
<1>3. ASSUME NEW r \in Requests, Miss(r) PROVE OneBatchPerKey'
  BY <1>3, FiniteSubmissions, RequestsAssumption
  DEF Miss, Go, rowVars, gateVars, OneBatchPerKey, Abandoned, TypeOK
<1>4. ASSUME NEW r \in Requests, NEW b \in Submissions, LockJob(r, b) PROVE OneBatchPerKey'
  BY <1>4, FiniteSubmissions, RequestsAssumption
  DEF LockJob, Go, rowVars, gateVars, OneBatchPerKey, Abandoned, TypeOK
<1>5. ASSUME NEW r \in Requests, RefuseRetry(r) PROVE OneBatchPerKey'
  BY <1>5, FiniteSubmissions, RequestsAssumption
  DEF RefuseRetry, Go, EndTx, rowVars, gateVars, OneBatchPerKey, Abandoned, TypeOK
<1>6. ASSUME NEW r \in Requests, sumOpenHolds(r) PROVE OneBatchPerKey'
  BY <1>6, FiniteSubmissions, RequestsAssumption
  DEF sumOpenHolds, Go, rowVars, gateVars, OneBatchPerKey, Abandoned, TypeOK
<1>7. ASSUME NEW r \in Requests, Reject(r) PROVE OneBatchPerKey'
  BY <1>7, FiniteSubmissions, RequestsAssumption
  DEF Reject, Go, EndTx, rowVars, gateVars, OneBatchPerKey, Abandoned, TypeOK
<1>8. ASSUME NEW r \in Requests, Admit(r) PROVE OneBatchPerKey'
  <2>1. r \in Submissions /\ pc[r] = "deciding" /\ old' = old
    BY <1>8 DEF Admit
  <2>2. \A b \in Submissions \ {r} : pc'[b] = pc[b] /\ batch'[b] = batch[b]
    BY <1>8, <2>1, FiniteSubmissions DEF Admit, Go, TypeOK
  <2>3. ASSUME NEW b \in Submissions \ {r}, Key[r] # NULL, Key[b] = Key[r], batch[b] # "none", b \notin old
        PROVE  Abandoned(b)
    <3>1. b \notin keyed
      BY <2>1, <2>3 DEF KeysHold, findJobByIdempotencyKey
    <3> QED
      BY <2>3, <3>1 DEF KeysHold
  <2>4. \A a, b \in Submissions \ {r} :
           /\ a # b /\ Key[a] # NULL /\ Key[a] = Key[b]
           /\ batch[a] # "none" /\ batch[b] # "none" /\ a \notin old /\ b \notin old
           => Abandoned(a) \/ Abandoned(b)
    BY DEF OneBatchPerKey
  <2> QED
    BY <2>1, <2>2, <2>3, <2>4 DEF OneBatchPerKey, Abandoned
<1>9. ASSUME NEW r \in Requests, AdmitRetry(r) PROVE OneBatchPerKey'
  BY <1>9, FiniteSubmissions, RequestsAssumption
  DEF AdmitRetry, insertHold, Go, EndTx, OneBatchPerKey, Abandoned, TypeOK
<1>10. ASSUME NEW b \in Submissions, StartHolding(b) PROVE OneBatchPerKey'
  BY <1>10, FiniteSubmissions, RequestsAssumption
  DEF StartHolding, Go, gateVars, OneBatchPerKey, Abandoned, TypeOK
<1>11. ASSUME NEW b \in Submissions, StartRunning(b) PROVE OneBatchPerKey'
  BY <1>11, FiniteSubmissions, RequestsAssumption
  DEF StartRunning, Go, rowVars, gateVars, OneBatchPerKey, Abandoned, TypeOK
<1>12. ASSUME NEW b \in Submissions, StartFails(b) PROVE OneBatchPerKey'
  BY <1>12, FiniteSubmissions, RequestsAssumption
  DEF StartFails, Fault, Go, gateVars, OneBatchPerKey, Abandoned, TypeOK
<1>13. ASSUME NEW b \in Submissions, AbandonRelease(b) PROVE OneBatchPerKey'
  BY <1>13, FiniteSubmissions, RequestsAssumption
  DEF AbandonRelease, Fault, Go, gateVars, OneBatchPerKey, Abandoned, TypeOK
<1>14. ASSUME NEW b \in Submissions, ClearJobIdempotencyKey(b) PROVE OneBatchPerKey'
  BY <1>14, FiniteSubmissions, RequestsAssumption
  DEF ClearJobIdempotencyKey, Fault, Go, gateVars, OneBatchPerKey, Abandoned, TypeOK
<1>15. ASSUME NEW b \in Submissions, AbandonKill(b) PROVE OneBatchPerKey'
  BY <1>15, FiniteSubmissions, RequestsAssumption
  DEF AbandonKill, Fault, Go, gateVars, OneBatchPerKey, Abandoned, TypeOK
<1>16. ASSUME NEW b \in Submissions, NEW c \in 1..budget[b], Charge(b, c) PROVE OneBatchPerKey'
  BY <1>16, FiniteSubmissions, RequestsAssumption
  DEF Charge, rowVars, txVars, OneBatchPerKey, Abandoned, TypeOK
<1>17. ASSUME NEW b \in Submissions, FinalizeJob(b) PROVE OneBatchPerKey'
  BY <1>17, FiniteSubmissions, RequestsAssumption
  DEF FinalizeJob, txVars, gateVars, OneBatchPerKey, Abandoned, TypeOK
<1>18. ASSUME NEW b \in Submissions, ApplyItemBilling(b) PROVE OneBatchPerKey'
  BY <1>18, FiniteSubmissions, RequestsAssumption
  DEF ApplyItemBilling, Decrement, txVars, OneBatchPerKey, Abandoned, TypeOK
<1>19. ASSUME NEW b \in Submissions, CloseBatch(b) PROVE OneBatchPerKey'
  BY <1>19, FiniteSubmissions, RequestsAssumption
  DEF CloseBatch, txVars, OneBatchPerKey, Abandoned, TypeOK
<1>20. ASSUME NEW b \in Submissions, GrowOld(b) PROVE OneBatchPerKey'
  BY <1>20, FiniteSubmissions, RequestsAssumption
  DEF GrowOld, txVars, gateVars, OneBatchPerKey, Abandoned, TypeOK
<1> QED
  BY <1>1, <1>2, <1>3, <1>4, <1>5, <1>6, <1>7, <1>8, <1>9, <1>10,
     <1>11, <1>12, <1>13, <1>14, <1>15, <1>16, <1>17, <1>18, <1>19, <1>20 DEF Next

-----------------------------------------------------------------------------
(* The theorems                                                            *)

\* Before the first request.
LEMMA InitStep == Init => IInv
<1> SUFFICES ASSUME Init PROVE IInv
  OBVIOUS
<1>1. TypeOK
  BY FiniteSubmissions, AmountsAssumption DEF Init, TypeOK
<1>2. /\ OneInTx /\ NothingYet /\ RetriedIsLive /\ HoldsCover /\ KeysHold
      /\ OneBatchPerKey /\ HoldIffUnfinished
  BY FiniteSubmissions, RequestsAssumption
  DEF Init, OneInTx, InTx, NothingYet, RetriedIsLive, HoldsCover, Secured, KeysHold,
      OneBatchPerKey, HoldIffUnfinished
<1>3. Committed = 0
  <2>1. Secured = {}
    BY DEF Init, Secured
  <2> QED
    BY <2>1, SumEmpty DEF Committed
<1>4. FundsStand /\ HeldStands /\ Covered
  BY <1>3, AmountsAssumption DEF Init, FundsStand, HeldStands, InTx, Covered
<1> QED
  BY <1>1, <1>2, <1>4 DEF IInv

\* Every step keeps the invariant, conjunct by conjunct.
LEMMA NextStep == IInv /\ [Next]_vars => IInv'
<1> SUFFICES ASSUME IInv, [Next]_vars PROVE IInv'
  OBVIOUS
<1>1. CASE Next
  <2>1. TypeOK'
    BY <1>1, TypeStep DEF IInv
  <2>2. OneInTx'
    BY <1>1, LockStep DEF IInv
  <2>3. NothingYet' /\ RetriedIsLive' /\ HoldsCover'
    BY <1>1, NothingYetStep, RetriedIsLiveStep, HoldsCoverStep DEF IInv
  <2>4. FundsStand' /\ HeldStands' /\ Covered'
    BY <1>1, <2>1, <2>2, MoneyStep DEF IInv
  <2>5. KeysHold' /\ OneBatchPerKey' /\ HoldIffUnfinished'
    BY <1>1, KeysStep, OneBatchStep, HoldIffStep DEF IInv
  <2> QED
    BY <2>1, <2>2, <2>3, <2>4, <2>5 DEF IInv
<1>2. CASE UNCHANGED vars
  <2> USE <1>2 DEF vars, rowVars, txVars, gateVars
  <2>1. TypeOK'
    BY DEF IInv, TypeOK
  <2>2. OneInTx' /\ NothingYet' /\ RetriedIsLive'
    BY DEF IInv, OneInTx, InTx, NothingYet, RetriedIsLive
  <2>3. Secured' = Secured /\ budget' = budget
    BY DEF Secured, Abandoned
  <2>4. HoldsCover'
    BY <2>3 DEF IInv, HoldsCover, Abandoned
  <2>5. FundsStand' /\ HeldStands' /\ Covered'
    BY <2>3 DEF IInv, FundsStand, HeldStands, InTx, Covered, Committed
  <2>6. KeysHold' /\ OneBatchPerKey' /\ HoldIffUnfinished'
    BY DEF IInv, KeysHold, OneBatchPerKey, HoldIffUnfinished, findJobByIdempotencyKey, Abandoned
  <2> QED
    BY <2>1, <2>2, <2>4, <2>5, <2>6 DEF IInv
<1> QED
  BY <1>1, <1>2

\* The invariant holds throughout.
LEMMA Inductive == Spec => []IInv
BY InitStep, NextStep, PTL DEF Spec

\* Rows, transactions and charges are well typed; in particular no hold becomes negative.
THEOREM AdmissionTypeCorrect == Spec => []TypeOK
<1>1. IInv => TypeOK
  BY DEF IInv
<1> QED
  BY <1>1, Inductive, PTL

\* However many submissions, retries, charges, bookings and releases interleave, the lock on
\* the user's row and the sum of open holds keep the balance from going negative, except by
\* charges that meet no hold: of batches whose submission failed, that were reaped with calls
\* under way, or that were settled before the bill arrived.
THEOREM NoOverdraft == Spec => []NeverOverdrawn
<1>1. IInv => NeverOverdrawn
  <2> SUFFICES ASSUME IInv PROVE balance + stray >= 0
    BY DEF NeverOverdrawn
  <2>1. Committed \in Nat /\ balance + stray >= Committed /\ balance \in Int /\ stray \in Nat
    BY CommittedIsNat DEF IInv, Covered, TypeOK
  <2> QED
    BY <2>1
<1> QED
  BY <1>1, Inductive, PTL

\* A double submit creates one batch (findJobByIdempotencyKey under the user's row lock).
THEOREM OneBatchForKey == Spec => []OneBatchPerKey
<1>1. IInv => OneBatchPerKey
  BY DEF IInv
<1> QED
  BY <1>1, Inductive, PTL

\* For any number of retries, submissions and closers: a hold is open exactly as long as its
\* batch is unfinished (abandoned submissions excepted), because RetryItem's FOR UPDATE on the
\* batch lasts from its look at the status to the commit of insertHold.
THEOREM HoldMatchesBatch == Spec => []HoldIffUnfinished
<1>1. IInv => HoldIffUnfinished
  BY DEF IInv
<1> QED
  BY <1>1, Inductive, PTL

\* Under READ COMMITTED a transaction decides on what earlier statements of it read: until it
\* ends the balance is still the one it read, and the holds it added up still cover everything
\* that may be charged against holds, although bookings and releases do not wait for the row and bills
\* keep arriving while a batch settles.
THEOREM DecisionsAreSound == Spec => [](FundsStand /\ HeldStands)
<1>1. IInv => FundsStand /\ HeldStands
  BY DEF IInv
<1> QED
  BY <1>1, Inductive, PTL
=============================================================================
