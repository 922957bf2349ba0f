-------------------------- MODULE LedgerRefinement --------------------------
(***************************************************************************)
(* JobQueue implements BatchLedger: the columns of designkit_jobs,         *)
(* designkit_job_items and designkit_holds that a batch's owner is shown   *)
(* go through the life BatchLedger promises.                               *)
(***************************************************************************)
EXTENDS JobQueue

Phase(s) ==
    CASE s = "none"             -> "none"
      [] s \in reapableStatuses -> "open"
      [] s = "settling"         -> "settling"
      [] OTHER                  -> "over"

Gone == [phase |-> "forsaken", outcome |-> "none", frozen |-> FALSE, delivered |-> {}]

\* What the owner of batch j sees of its rows.
View(j) ==
    IF Abandoned(j) THEN Gone
    ELSE [phase     |-> Phase(status[j]),
          outcome   |-> IF status[j] \in JobTerminal THEN status[j] ELSE "none",
          frozen    |-> hold[j] = "open",
          delivered |-> RowsIn(j, "succeeded")]

Ledger == INSTANCE BatchLedger
          WITH batch  <- [j \in Jobs |-> View(j)],
               Images <- [j \in Jobs |-> ItemsOf(j)]

\* Every batch lives the life BatchLedger promises its owner, whatever workers, stops,
\* retries, the reaper, settlement and restarts do to its rows in between: images change only
\* while it is open, the outcome agrees with the images delivered, and the credit is given
\* back in the very step that ends it.
KeepsItsPromise == Ledger!Spec
=============================================================================
