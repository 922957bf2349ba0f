----------------------------- MODULE JobStatus -----------------------------
(***************************************************************************)
(* The two state machines of DesignKit's domain layer: the statuses of a   *)
(* batch (designkit_jobs.status) and of one image of it                    *)
(* (designkit_job_items.status), the white lists every guarded UPDATE      *)
(* consults, and the rule that turns the four counters of a batch into its *)
(* terminal status.  Constant-level: no state.                             *)
(***************************************************************************)
EXTENDS Integers

AllJobStatuses ==
    {"created", "holding", "running", "settling",
     "succeeded", "partially_failed", "failed", "cancelled"}

AllItemStatuses ==
    {"pending", "running", "succeeded", "failed", "cancelled"}

JobTerminal == {"succeeded", "partially_failed", "failed", "cancelled"}

ItemTerminal == {"succeeded", "failed", "cancelled"}

\* The white list proper; CanTransition adds "anything -> failed".
jobTransitions ==
    [from \in AllJobStatuses |->
        CASE from = "created"          -> {"holding"}
          [] from = "holding"          -> {"running"}
          [] from = "running"          -> {"settling"}
          [] from = "settling"         -> {"succeeded", "partially_failed", "cancelled"}
          [] from = "succeeded"        -> {"running"}
          [] from = "partially_failed" -> {"running"}
          [] OTHER                     -> {}]

CanTransition(from, to) ==
    /\ from \in AllJobStatuses
    /\ to \in AllJobStatuses
    /\ to = "failed" \/ to \in jobTransitions[from]

itemTransitions ==
    [from \in AllItemStatuses |->
        CASE from = "pending" -> {"running", "cancelled", "failed"}
          [] from = "running" -> {"succeeded", "failed", "pending", "running"}
          [] OTHER            -> {"pending"}]

CanTransitionItem(from, to) ==
    /\ from \in AllItemStatuses
    /\ to \in itemTransitions[from]

\* Sources of a guarded UPDATE towards status to (status = ANY($n)).
allowedSourceStatuses(to) == {from \in AllJobStatuses : CanTransition(from, to)}

\* FinalizeJob also lets a batch go that never reached running.
finalizeSourceStatuses == allowedSourceStatuses("settling") \cup {"created", "holding"}

\* SettleJob tolerates a re-run on the target status itself.
settleSourceStatuses(to) == allowedSourceStatuses(to) \cup {to}

\* The statuses the reaper's heartbeat rule looks at.
reapableStatuses == {"created", "holding", "running"}

\* n images, of which c[s] ended in terminal status s; stop: a stop was requested.
TerminalJobStatus(n, c, stop) ==
    IF stop /\ c["cancelled"] > 0 THEN "cancelled"
    ELSE IF n > 0 /\ c["succeeded"] = n THEN "succeeded"
    ELSE IF c["succeeded"] > 0 THEN "partially_failed"
    ELSE IF c["cancelled"] > 0 /\ c["failed"] = 0 THEN "cancelled"
    ELSE "failed"
=============================================================================
