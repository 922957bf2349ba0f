----------------------------- MODULE QuotaProofs -----------------------------
(***************************************************************************)
(* No request for credit is paid twice, for any number of users, requests, *)
(* administrators and failures.  The inductive invariant adds one fact to  *)
(* the properties the runs check: an approval has its request to itself,   *)
(* and nothing has been paid for it yet.                                   *)
(***************************************************************************)
EXTENDS QuotaRequests, TLAPS

Paid(r) == credit[r] + byHand[r]

\* Payments that nobody can know of.
Excused(r) == late[r] + putBack[r]

\* The request of a call is marked, unpaid, and no other call's.
ApprovalsExclusive ==
    /\ \A a \in Admins : pc[a] # "idle" => req[on[a]] = "handled" /\ Paid(on[a]) = Excused(on[a])
    /\ \A a, b \in Admins : on[a] = on[b] /\ pc[a] # "idle" => a = b

\* An approval that was cut short is never taken up again.
CutIsUnpaid ==
    \A r \in cut : req[r] = "handled" /\ ~Working(r) /\ Paid(r) = Excused(r)

QuotaInv ==
    /\ TypeOK
    /\ ApprovalsExclusive
    /\ CutIsUnpaid
    /\ HandledIsPaidOrReported
    /\ OpenPaidOnlyByLostAnswers
    /\ OnePendingPerUser

\* No request is filed, handled or paid at the start.
LEMMA QuotaInit == Init => QuotaInv
  BY UserAssumption, NoRequestAssumption, BoundAssumption
  DEF Init, QuotaInv, TypeOK, ApprovalsExclusive, CutIsUnpaid, HandledIsPaidOrReported,
      OpenPaidOnlyByLostAnswers, OnePendingPerUser, Statuses

USE DEF vars, rowVars, callVars, ghostVars, Statuses, Disrupted

\* Every statement keeps the types of rows, calls and counters.
LEMMA QuotaType == TypeOK /\ [Next]_vars => TypeOK'
<1> SUFFICES ASSUME TypeOK, [Next]_vars PROVE TypeOK'
  OBVIOUS
<1> USE UserAssumption, NoRequestAssumption, BoundAssumption DEF TypeOK
<1>1. ASSUME NEW r \in Requests, CreateQuotaRequest(r) PROVE TypeOK'
  BY <1>1 DEF CreateQuotaRequest, Put
<1>2. ASSUME NEW a \in Admins, NEW r \in Requests, Approve(a, r) PROVE TypeOK'
  BY <1>2 DEF Approve, Put, Go
<1>3. ASSUME NEW a \in Admins, NEW r \in Requests, Reject(a, r) PROVE TypeOK'
  BY <1>3 DEF Reject, Put
<1>4. ASSUME NEW a \in Admins, NEW r \in Requests, ApproveUnanswered(a, r) PROVE TypeOK'
  BY <1>4 DEF ApproveUnanswered, Put
<1>5. ASSUME NEW a \in Admins, Credit(a) PROVE TypeOK'
  BY <1>5 DEF Credit, More, Return, Go
<1>6. ASSUME NEW a \in Admins, CreditFails(a) PROVE TypeOK'
  BY <1>6 DEF CreditFails, Go
<1>7. ASSUME NEW a \in Admins, CreditFailsLate(a) PROVE TypeOK'
  BY <1>7 DEF CreditFailsLate, More, Go
<1>8. ASSUME NEW a \in Admins, Reopen(a) PROVE TypeOK'
  BY <1>8 DEF Reopen, Put, Return, Go
<1>9. ASSUME NEW a \in Admins, ReopenRefused(a) PROVE TypeOK'
  BY <1>9 DEF ReopenRefused, TellByHand, More, Return, Go
<1>10. ASSUME NEW a \in Admins, ReopenFails(a) PROVE TypeOK'
  BY <1>10 DEF ReopenFails, TellByHand, More, Return, Go
<1>11. ASSUME NEW a \in Admins, ReopenUnanswered(a) PROVE TypeOK'
  BY <1>11 DEF ReopenUnanswered, TellByHand, Put, More, Return, Go
<1>12. CASE Crash
  BY <1>12 DEF Crash
<1>13. CASE UNCHANGED vars
  BY <1>13
<1> QED
  BY <1>1, <1>2, <1>3, <1>4, <1>5, <1>6, <1>7, <1>8, <1>9, <1>10, <1>11, <1>12, <1>13 DEF Next

\* Every statement, failing or not, keeps the invariant.
LEMMA QuotaStep == QuotaInv /\ [Next]_vars => QuotaInv'
<1> SUFFICES ASSUME QuotaInv, [Next]_vars PROVE QuotaInv'
  OBVIOUS
<1>0. TypeOK'
  BY QuotaType DEF QuotaInv
<1> USE <1>0, UserAssumption, NoRequestAssumption DEF QuotaInv, TypeOK, Paid, Excused, Working
<1>1. ASSUME NEW r \in Requests, CreateQuotaRequest(r) PROVE QuotaInv'
  <2>1. ApprovalsExclusive'
    BY <1>1 DEF CreateQuotaRequest, Put, MayBePending, ApprovalsExclusive, OpenPaidOnlyByLostAnswers, CutIsUnpaid
  <2>2. CutIsUnpaid'
    BY <1>1 DEF CreateQuotaRequest, Put, MayBePending, CutIsUnpaid, ApprovalsExclusive
  <2>3. HandledIsPaidOrReported'
    BY <1>1 DEF CreateQuotaRequest, Put, MayBePending, HandledIsPaidOrReported, ApprovalsExclusive, CutIsUnpaid, OpenPaidOnlyByLostAnswers
  <2>4. OpenPaidOnlyByLostAnswers'
    BY <1>1 DEF CreateQuotaRequest, Put, MayBePending, OpenPaidOnlyByLostAnswers, ApprovalsExclusive
  <2>5. OnePendingPerUser'
    BY <1>1 DEF CreateQuotaRequest, Put, MayBePending, OnePendingPerUser
  <2> QED
    BY <2>1, <2>2, <2>3, <2>4, <2>5
<1>2. ASSUME NEW a \in Admins, NEW r \in Requests, Approve(a, r) PROVE QuotaInv'
  <2>1. ApprovalsExclusive'
    BY <1>2 DEF Approve, Put, Go, Pending, ApprovalsExclusive, OpenPaidOnlyByLostAnswers, CutIsUnpaid
  <2>2. CutIsUnpaid'
    BY <1>2 DEF Approve, Put, Go, Pending, CutIsUnpaid, ApprovalsExclusive
  <2>3. HandledIsPaidOrReported'
    BY <1>2 DEF Approve, Put, Go, Pending, HandledIsPaidOrReported, ApprovalsExclusive, CutIsUnpaid, OpenPaidOnlyByLostAnswers
  <2>4. OpenPaidOnlyByLostAnswers'
    BY <1>2 DEF Approve, Put, Go, Pending, OpenPaidOnlyByLostAnswers, ApprovalsExclusive
  <2>5. OnePendingPerUser'
    BY <1>2 DEF Approve, Put, Go, Pending, OnePendingPerUser
  <2> QED
    BY <2>1, <2>2, <2>3, <2>4, <2>5
<1>3. ASSUME NEW a \in Admins, NEW r \in Requests, Reject(a, r) PROVE QuotaInv'
  <2>1. ApprovalsExclusive'
    BY <1>3 DEF Reject, Put, Pending, ApprovalsExclusive, OpenPaidOnlyByLostAnswers, CutIsUnpaid
  <2>2. CutIsUnpaid'
    BY <1>3 DEF Reject, Put, Pending, CutIsUnpaid, ApprovalsExclusive
  <2>3. HandledIsPaidOrReported'
    BY <1>3 DEF Reject, Put, Pending, HandledIsPaidOrReported, ApprovalsExclusive, CutIsUnpaid, OpenPaidOnlyByLostAnswers
  <2>4. OpenPaidOnlyByLostAnswers'
    BY <1>3 DEF Reject, Put, Pending, OpenPaidOnlyByLostAnswers, ApprovalsExclusive
  <2>5. OnePendingPerUser'
    BY <1>3 DEF Reject, Put, Pending, OnePendingPerUser
  <2> QED
    BY <2>1, <2>2, <2>3, <2>4, <2>5
<1>4. ASSUME NEW a \in Admins, NEW r \in Requests, ApproveUnanswered(a, r) PROVE QuotaInv'
  <2>1. ApprovalsExclusive'
    BY <1>4 DEF ApproveUnanswered, Put, Pending, ApprovalsExclusive, OpenPaidOnlyByLostAnswers, CutIsUnpaid
  <2>2. CutIsUnpaid'
    BY <1>4 DEF ApproveUnanswered, Put, Pending, CutIsUnpaid, ApprovalsExclusive, OpenPaidOnlyByLostAnswers
  <2>3. HandledIsPaidOrReported'
    BY <1>4 DEF ApproveUnanswered, Put, Pending, HandledIsPaidOrReported, ApprovalsExclusive, CutIsUnpaid, OpenPaidOnlyByLostAnswers
  <2>4. OpenPaidOnlyByLostAnswers'
    BY <1>4 DEF ApproveUnanswered, Put, Pending, OpenPaidOnlyByLostAnswers, ApprovalsExclusive
  <2>5. OnePendingPerUser'
    BY <1>4 DEF ApproveUnanswered, Put, Pending, OnePendingPerUser
  <2> QED
    BY <2>1, <2>2, <2>3, <2>4, <2>5
<1>5. ASSUME NEW a \in Admins, Credit(a) PROVE QuotaInv'
  <2>1. ApprovalsExclusive'
    BY <1>5 DEF Credit, More, Return, Go, ApprovalsExclusive, OpenPaidOnlyByLostAnswers, CutIsUnpaid
  <2>2. CutIsUnpaid'
    BY <1>5 DEF Credit, More, Return, Go, CutIsUnpaid, ApprovalsExclusive
  <2>3. HandledIsPaidOrReported'
    <3> SUFFICES ASSUME NEW r \in Requests, req'[r] = "handled", ~Working(r)', r \notin cut'
                 PROVE  (Paid(r) = 1 + Excused(r))'
      BY DEF HandledIsPaidOrReported
    <3>1. CASE r = on[a]
      BY <1>5, <3>1 DEF Credit, More, Return, Go, ApprovalsExclusive
    <3>2. CASE r # on[a]
      <4>1. ~Working(r)
        BY <1>5, <3>2 DEF Credit, Return, Go
      <4> QED
        BY <1>5, <3>2, <4>1 DEF Credit, More, HandledIsPaidOrReported
    <3> QED
      BY <3>1, <3>2
  <2>4. OpenPaidOnlyByLostAnswers'
    BY <1>5 DEF Credit, More, Return, Go, OpenPaidOnlyByLostAnswers, ApprovalsExclusive
  <2>5. OnePendingPerUser'
    BY <1>5 DEF Credit, More, Return, Go, OnePendingPerUser
  <2> QED
    BY <2>1, <2>2, <2>3, <2>4, <2>5
<1>6. ASSUME NEW a \in Admins, CreditFails(a) PROVE QuotaInv'
  <2>1. ApprovalsExclusive'
    BY <1>6 DEF CreditFails, Go, ApprovalsExclusive, OpenPaidOnlyByLostAnswers, CutIsUnpaid
  <2>2. CutIsUnpaid'
    BY <1>6 DEF CreditFails, Go, CutIsUnpaid, ApprovalsExclusive
  <2>3. HandledIsPaidOrReported'
    BY <1>6 DEF CreditFails, Go, HandledIsPaidOrReported, ApprovalsExclusive, CutIsUnpaid, OpenPaidOnlyByLostAnswers
  <2>4. OpenPaidOnlyByLostAnswers'
    BY <1>6 DEF CreditFails, Go, OpenPaidOnlyByLostAnswers, ApprovalsExclusive
  <2>5. OnePendingPerUser'
    BY <1>6 DEF CreditFails, Go, OnePendingPerUser
  <2> QED
    BY <2>1, <2>2, <2>3, <2>4, <2>5
<1>7. ASSUME NEW a \in Admins, CreditFailsLate(a) PROVE QuotaInv'
  <2>1. ApprovalsExclusive'
    BY <1>7 DEF CreditFailsLate, More, Go, ApprovalsExclusive, OpenPaidOnlyByLostAnswers, CutIsUnpaid
  <2>2. CutIsUnpaid'
    BY <1>7 DEF CreditFailsLate, More, Go, CutIsUnpaid, ApprovalsExclusive
  <2>3. HandledIsPaidOrReported'
    BY <1>7 DEF CreditFailsLate, More, Go, HandledIsPaidOrReported, ApprovalsExclusive, CutIsUnpaid, OpenPaidOnlyByLostAnswers
  <2>4. OpenPaidOnlyByLostAnswers'
    BY <1>7 DEF CreditFailsLate, More, Go, OpenPaidOnlyByLostAnswers, ApprovalsExclusive
  <2>5. OnePendingPerUser'
    BY <1>7 DEF CreditFailsLate, More, Go, OnePendingPerUser
  <2> QED
    BY <2>1, <2>2, <2>3, <2>4, <2>5
<1>8. ASSUME NEW a \in Admins, Reopen(a) PROVE QuotaInv'
  <2>1. ApprovalsExclusive'
    BY <1>8 DEF Reopen, Put, Return, Go, MayBePending, ApprovalsExclusive, OpenPaidOnlyByLostAnswers, CutIsUnpaid
  <2>2. CutIsUnpaid'
    BY <1>8 DEF Reopen, Put, Return, Go, MayBePending, CutIsUnpaid, ApprovalsExclusive
  <2>3. HandledIsPaidOrReported'
    BY <1>8 DEF Reopen, Put, Return, Go, MayBePending, HandledIsPaidOrReported, ApprovalsExclusive, CutIsUnpaid, OpenPaidOnlyByLostAnswers
  <2>4. OpenPaidOnlyByLostAnswers'
    BY <1>8 DEF Reopen, Put, Return, Go, MayBePending, OpenPaidOnlyByLostAnswers, ApprovalsExclusive
  <2>5. OnePendingPerUser'
    BY <1>8 DEF Reopen, Put, Return, Go, MayBePending, OnePendingPerUser
  <2> QED
    BY <2>1, <2>2, <2>3, <2>4, <2>5
<1>9. ASSUME NEW a \in Admins, ReopenRefused(a) PROVE QuotaInv'
  <2>1. ApprovalsExclusive'
    BY <1>9 DEF ReopenRefused, TellByHand, More, Return, Go, ApprovalsExclusive, OpenPaidOnlyByLostAnswers, CutIsUnpaid
  <2>2. CutIsUnpaid'
    BY <1>9 DEF ReopenRefused, TellByHand, More, Return, Go, CutIsUnpaid, ApprovalsExclusive
  <2>3. HandledIsPaidOrReported'
    BY <1>9 DEF ReopenRefused, TellByHand, More, Return, Go, HandledIsPaidOrReported, ApprovalsExclusive, CutIsUnpaid, OpenPaidOnlyByLostAnswers
  <2>4. OpenPaidOnlyByLostAnswers'
    BY <1>9 DEF ReopenRefused, TellByHand, More, Return, Go, OpenPaidOnlyByLostAnswers, ApprovalsExclusive
  <2>5. OnePendingPerUser'
    BY <1>9 DEF ReopenRefused, TellByHand, More, Return, Go, OnePendingPerUser
  <2> QED
    BY <2>1, <2>2, <2>3, <2>4, <2>5
<1>10. ASSUME NEW a \in Admins, ReopenFails(a) PROVE QuotaInv'
  <2>1. ApprovalsExclusive'
    BY <1>10 DEF ReopenFails, TellByHand, More, Return, Go, ApprovalsExclusive, OpenPaidOnlyByLostAnswers, CutIsUnpaid
  <2>2. CutIsUnpaid'
    BY <1>10 DEF ReopenFails, TellByHand, More, Return, Go, CutIsUnpaid, ApprovalsExclusive
  <2>3. HandledIsPaidOrReported'
    BY <1>10 DEF ReopenFails, TellByHand, More, Return, Go, HandledIsPaidOrReported, ApprovalsExclusive, CutIsUnpaid, OpenPaidOnlyByLostAnswers
  <2>4. OpenPaidOnlyByLostAnswers'
    BY <1>10 DEF ReopenFails, TellByHand, More, Return, Go, OpenPaidOnlyByLostAnswers, ApprovalsExclusive
  <2>5. OnePendingPerUser'
    BY <1>10 DEF ReopenFails, TellByHand, More, Return, Go, OnePendingPerUser
  <2> QED
    BY <2>1, <2>2, <2>3, <2>4, <2>5
<1>11. ASSUME NEW a \in Admins, ReopenUnanswered(a) PROVE QuotaInv'
  <2>1. ApprovalsExclusive'
    BY <1>11 DEF ReopenUnanswered, TellByHand, Put, More, Return, Go, MayBePending, ApprovalsExclusive, OpenPaidOnlyByLostAnswers, CutIsUnpaid
  <2>2. CutIsUnpaid'
    BY <1>11 DEF ReopenUnanswered, TellByHand, Put, More, Return, Go, MayBePending, CutIsUnpaid, ApprovalsExclusive
  <2>3. HandledIsPaidOrReported'
    BY <1>11 DEF ReopenUnanswered, TellByHand, Put, More, Return, Go, MayBePending, HandledIsPaidOrReported, ApprovalsExclusive, CutIsUnpaid, OpenPaidOnlyByLostAnswers
  <2>4. OpenPaidOnlyByLostAnswers'
    BY <1>11 DEF ReopenUnanswered, TellByHand, Put, More, Return, Go, MayBePending, OpenPaidOnlyByLostAnswers, ApprovalsExclusive
  <2>5. OnePendingPerUser'
    BY <1>11 DEF ReopenUnanswered, TellByHand, Put, More, Return, Go, MayBePending, OnePendingPerUser
  <2> QED
    BY <2>1, <2>2, <2>3, <2>4, <2>5
<1>12. CASE Crash
  BY <1>12 DEF Crash, ApprovalsExclusive, CutIsUnpaid, HandledIsPaidOrReported, OpenPaidOnlyByLostAnswers, OnePendingPerUser
<1>13. CASE UNCHANGED vars
  BY <1>13 DEF ApprovalsExclusive, CutIsUnpaid, HandledIsPaidOrReported, OpenPaidOnlyByLostAnswers, OnePendingPerUser
<1> QED
  BY <1>1, <1>2, <1>3, <1>4, <1>5, <1>6, <1>7, <1>8, <1>9, <1>10, <1>11, <1>12, <1>13 DEF Next

-----------------------------------------------------------------------------
\* The inductive invariant holds at all times.
LEMMA QuotaInvariant == Spec => []QuotaInv
<1>1. Init => QuotaInv
  BY QuotaInit
<1>2. QuotaInv /\ [Next]_vars => QuotaInv'
  BY QuotaStep
<1> QED
  BY <1>1, <1>2, PTL DEF Spec

\* The types of the rows, calls and counters of the quota requests.
THEOREM QuotaTypeCorrect == Spec => []TypeOK
<1>1. QuotaInv => TypeOK
  BY DEF QuotaInv
<1> QED
  BY <1>1, QuotaInvariant, PTL

\* No request is paid twice: the guard of HandleQuotaRequest and the compensation together
\* let one payment through, for any number of administrators and failures.
THEOREM NoDoublePayment == Spec => []NeverPaidTwice
<1>1. QuotaInv => NeverPaidTwice
  <2> SUFFICES ASSUME QuotaInv, NEW r \in Requests
               PROVE  credit[r] + byHand[r] <= 1 + late[r] + putBack[r]
    BY DEF NeverPaidTwice
  <2> USE DEF QuotaInv, TypeOK, Paid, Excused
  <2>1. CASE req[r] # "handled"
    BY <2>1 DEF OpenPaidOnlyByLostAnswers
  <2>2. CASE req[r] = "handled" /\ Working(r)
    BY <2>2, NoRequestAssumption DEF Working, ApprovalsExclusive
  <2>3. CASE req[r] = "handled" /\ ~Working(r)
    BY <2>3 DEF CutIsUnpaid, HandledIsPaidOrReported
  <2> QED
    BY <2>1, <2>2, <2>3
<1> QED
  BY <1>1, QuotaInvariant, PTL

\* A request that HandleQuotaRequest left as handled was paid or reported by hand, although
\* it marks, pays and puts back in separate statements.
THEOREM EveryRequestAccountedFor == Spec => []HandledIsPaidOrReported
<1>1. QuotaInv => HandledIsPaidOrReported
  BY DEF QuotaInv
<1> QED
  BY <1>1, QuotaInvariant, PTL

\* A request that ReopenQuotaRequest put back, that was never approved or that was rejected was
\* paid exactly as often as a credit or a reopening took effect and was reported as failed.
THEOREM OpenRequestsExplained == Spec => []OpenPaidOnlyByLostAnswers
<1>1. QuotaInv => OpenPaidOnlyByLostAnswers
  BY DEF QuotaInv
<1> QED
  BY <1>1, QuotaInvariant, PTL

\* No user has two pending requests, although ReopenQuotaRequest puts rows back.
THEOREM OneOpenRequest == Spec => []OnePendingPerUser
<1>1. QuotaInv => OnePendingPerUser
  BY DEF QuotaInv
<1> QED
  BY <1>1, QuotaInvariant, PTL
=============================================================================
