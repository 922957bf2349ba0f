--------------------------- MODULE QuotaRequests ---------------------------
(***************************************************************************)
(* Requests for more credit.  A user files one, an administrator approves  *)
(* it (the row is marked first, the balance is credited second) or rejects *)
(* it.  When crediting reports an error the row is put back, and when that *)
(* fails too the administrator is told to credit the user by hand.         *)
(*                                                                         *)
(* A step is one SQL statement.  Any of them can fail, before it took      *)
(* effect or after (its answer is lost, or a later read of the same call   *)
(* fails), and the process can die between two of them.                    *)
(***************************************************************************)
EXTENDS Naturals

CONSTANTS
    Requests,        \* rows of designkit_quota_requests
    Users,
    UserOf,          \* who files each request
    Admins,          \* administrators, each with one call at a time
    MaxDisruptions,  \* bound: failing statements and crashes
    NoRequest

ASSUME UserAssumption == UserOf \in [Requests -> Users]
ASSUME NoRequestAssumption == NoRequest \notin Requests
ASSUME BoundAssumption == MaxDisruptions \in Nat

VARIABLES
    req,         \* designkit_quota_requests.status, "none" before the INSERT
    pc,          \* where HandleQuotaRequest is for an administrator
    on,          \* the request it is about
    credit,      \* how often the user's balance was credited for a request
    byHand,      \* how often an administrator was told to credit it by hand
    late,        \* credits that took effect and were reported as failed
    putBack,     \* reopenings that took effect and were reported as failed
    cut,         \* approvals cut short: the mark's answer lost, or a crash
    disruptions

rowVars   == <<req, credit>>
callVars  == <<pc, on>>
ghostVars == <<byHand, late, putBack, cut>>
vars      == <<rowVars, callVars, ghostVars, disruptions>>

-----------------------------------------------------------------------------
Statuses == {"none", "pending", "handled", "rejected"}

\* The partial unique index on (user_id) WHERE status = 'pending'.
MayBePending(r) == \A s \in Requests \ {r} : req[s] = "pending" => UserOf[s] # UserOf[r]

Working(r) == \E a \in Admins : on[a] = r

Disrupted == disruptions < MaxDisruptions /\ disruptions' = disruptions + 1

Put(r, s) == req' = [req EXCEPT ![r] = s]

Go(a, to, r) == pc' = [pc EXCEPT ![a] = to] /\ on' = [on EXCEPT ![a] = r]

Return(a) == Go(a, "idle", NoRequest)

More(counter, r) == [counter EXCEPT ![r] = @ + 1]

Init ==
    /\ req = [r \in Requests |-> "none"]
    /\ pc = [a \in Admins |-> "idle"]
    /\ on = [a \in Admins |-> NoRequest]
    /\ credit = [r \in Requests |-> 0]
    /\ byHand = [r \in Requests |-> 0]
    /\ late = [r \in Requests |-> 0]
    /\ putBack = [r \in Requests |-> 0]
    /\ cut = {}
    /\ disruptions = 0

CreateQuotaRequest(r) ==
    /\ req[r] = "none" /\ MayBePending(r)
    /\ Put(r, "pending")
    /\ UNCHANGED <<credit, callVars, ghostVars, disruptions>>

-----------------------------------------------------------------------------
(* HandleQuotaRequest.  A click on a row that is no longer pending hits no *)
(* row and is answered with a conflict: it changes nothing.                *)

Pending(r) == req[r] = "pending"

\* Mutant of Approve: the UPDATE without its AND status = 'pending'.
ApproveAgain(a, r) ==
    /\ pc[a] = "idle" /\ req[r] \in {"pending", "handled"}
    /\ Put(r, "handled")
    /\ Go(a, "crediting", r)
    /\ UNCHANGED <<credit, ghostVars, disruptions>>

Approve(a, r) ==
    /\ pc[a] = "idle" /\ Pending(r)
    /\ Put(r, "handled")
    /\ Go(a, "crediting", r)
    /\ UNCHANGED <<credit, ghostVars, disruptions>>

\* Mutant of Reject: a rejection that does not ask for the status.
RejectAnything(a, r) ==
    /\ pc[a] = "idle" /\ req[r] # "none"
    /\ Put(r, "rejected")
    /\ UNCHANGED <<credit, callVars, ghostVars, disruptions>>

Reject(a, r) ==
    /\ pc[a] = "idle" /\ Pending(r)
    /\ Put(r, "rejected")
    /\ UNCHANGED <<credit, callVars, ghostVars, disruptions>>

\* The mark of an approval is committed and its answer lost: the call returns.
ApproveUnanswered(a, r) ==
    /\ pc[a] = "idle" /\ Pending(r)
    /\ Disrupted
    /\ Put(r, "handled")
    /\ cut' = cut \cup {r}
    /\ UNCHANGED <<credit, callVars, byHand, late, putBack>>

Credit(a) ==
    /\ pc[a] = "crediting"
    /\ credit' = More(credit, on[a])
    /\ Return(a)
    /\ UNCHANGED <<req, ghostVars, disruptions>>

\* Mutant of CreditFails: the error is returned without the compensation.
CreditFailsForGood(a) ==
    /\ pc[a] = "crediting"
    /\ Disrupted
    /\ Return(a)
    /\ UNCHANGED <<rowVars, ghostVars>>

CreditFails(a) ==
    /\ pc[a] = "crediting"
    /\ Disrupted
    /\ Go(a, "reopening", on[a])
    /\ UNCHANGED <<rowVars, ghostVars>>

\* UpdateUserBalance adds the money and then cannot read the user back.
CreditFailsLate(a) ==
    /\ pc[a] = "crediting"
    /\ Disrupted
    /\ credit' = More(credit, on[a])
    /\ late' = More(late, on[a])
    /\ Go(a, "reopening", on[a])
    /\ UNCHANGED <<req, byHand, putBack, cut>>

-----------------------------------------------------------------------------
(* The compensation                                                        *)

\* Mutant of Reopen: no unique index on pending requests.
ReopenBlindly(a) ==
    /\ pc[a] = "reopening"
    /\ Put(on[a], "pending")
    /\ Return(a)
    /\ UNCHANGED <<credit, ghostVars, disruptions>>

Reopen(a) ==
    /\ pc[a] = "reopening" /\ MayBePending(on[a])
    /\ Put(on[a], "pending")
    /\ Return(a)
    /\ UNCHANGED <<credit, ghostVars, disruptions>>

TellByHand(a) == byHand' = More(byHand, on[a]) /\ Return(a)

\* The user filed another request in the meantime: the unique index refuses.
ReopenRefused(a) ==
    /\ pc[a] = "reopening" /\ ~MayBePending(on[a])
    /\ TellByHand(a)
    /\ UNCHANGED <<rowVars, late, putBack, cut, disruptions>>

ReopenFails(a) ==
    /\ pc[a] = "reopening"
    /\ Disrupted
    /\ TellByHand(a)
    /\ UNCHANGED <<rowVars, late, putBack, cut>>

ReopenUnanswered(a) ==
    /\ pc[a] = "reopening" /\ MayBePending(on[a])
    /\ Disrupted
    /\ Put(on[a], "pending")
    /\ putBack' = More(putBack, on[a])
    /\ TellByHand(a)
    /\ UNCHANGED <<credit, late, cut>>

Crash ==
    /\ Disrupted
    /\ cut' = cut \cup {r \in Requests : Working(r)}
    /\ pc' = [a \in Admins |-> "idle"]
    /\ on' = [a \in Admins |-> NoRequest]
    /\ UNCHANGED <<rowVars, byHand, late, putBack>>

-----------------------------------------------------------------------------
Next ==
    \/ \E r \in Requests : CreateQuotaRequest(r)
    \/ \E a \in Admins, r \in Requests : Approve(a, r) \/ Reject(a, r) \/ ApproveUnanswered(a, r)
    \/ \E a \in Admins : \/ Credit(a) \/ CreditFails(a) \/ CreditFailsLate(a)
                         \/ Reopen(a) \/ ReopenRefused(a) \/ ReopenFails(a) \/ ReopenUnanswered(a)
    \/ Crash

Spec == Init /\ [][Next]_vars

-----------------------------------------------------------------------------
\* Rows, calls and counters have the values the code can give them.
TypeOK ==
    /\ req \in [Requests -> Statuses]
    /\ pc \in [Admins -> {"idle", "crediting", "reopening"}]
    /\ on \in [Admins -> Requests \cup {NoRequest}]
    /\ \A a \in Admins : pc[a] = "idle" <=> on[a] = NoRequest
    /\ credit \in [Requests -> Nat]
    /\ byHand \in [Requests -> Nat]
    /\ late \in [Requests -> Nat]
    /\ putBack \in [Requests -> Nat]
    /\ cut \subseteq Requests
    /\ disruptions \in 0..MaxDisruptions

\* Nobody is paid twice for one request, by the balance or by hand, however many
\* administrators click and however often approvals fail and are repeated: each payment above
\* one stands for a statement that took effect and was reported as failed.
NeverPaidTwice ==
    \A r \in Requests : credit[r] + byHand[r] <= 1 + late[r] + putBack[r]

\* A request shown as handled was paid, or an administrator was told to pay it, unless the
\* approval itself was cut short before anybody could be told.
HandledIsPaidOrReported ==
    \A r \in Requests :
        req[r] = "handled" /\ ~Working(r) /\ r \notin cut
            => credit[r] + byHand[r] = 1 + late[r] + putBack[r]

\* A request that can still be approved, or was rejected, was paid (by the balance, or by an
\* administrator told to) exactly as often as a credit or a reopening took effect and was
\* reported as failed: without such a lost answer it is unpaid.  With one it is already paid:
\* when UpdateUserBalance adds the money and cannot read the user back (admin_user.go:531),
\* HandleQuotaRequest answers that the balance was not added and asks for another try
\* (module.go:1938), which pays a second time.
OpenPaidOnlyByLostAnswers ==
    \A r \in Requests :
        req[r] # "handled" => credit[r] + byHand[r] = late[r] + putBack[r]

\* A user never has two requests waiting, although a compensation puts a row back after the
\* user was free to file the next one.
OnePendingPerUser ==
    \A r, s \in Requests :
        req[r] = "pending" /\ req[s] = "pending" /\ UserOf[r] = UserOf[s] => r = s

=============================================================================
