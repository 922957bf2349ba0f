---------------------------- MODULE BatchLedger ----------------------------
(***************************************************************************)
(* What DesignKit promises the owner of a batch, with everything that runs *)
(* it hidden: no workers, leases, attempts, heartbeats or processes.       *)
(*                                                                         *)
(* A batch is open from its submission on; images are delivered, and       *)
(* retried, only while it is open; it then settles, with its images and    *)
(* its frozen credit untouched, and is over with an outcome that agrees    *)
(* with the images delivered and the credit given back in the same step.   *)
(* The one short cut is a batch given up for want of a heartbeat.  Batches *)
(* are independent of one another, and one step may move several of them.  *)
(***************************************************************************)
CONSTANTS
    Jobs,       \* batches
    Images      \* the images of each batch

VARIABLE
    batch       \* what its owner can see of each batch

Batch(phase, outcome, frozen, delivered) ==
    [phase |-> phase, outcome |-> outcome, frozen |-> frozen, delivered |-> delivered]

\* The states of a batch with images d delivered.
Unborn     == Batch("none", "none", FALSE, {})
Open(d)    == Batch("open", "none", TRUE, d)
Settling(d) == Batch("settling", "none", TRUE, d)
Over(s, d) == Batch("over", s, FALSE, d)

\* A submission that was reported as failed: nothing is promised of it any more.
Forsaken == Batch("forsaken", "none", FALSE, {})

\* Outcome s fits the images d delivered out of all: "cancelled" wins over the other
\* outcomes, but never over a complete batch.
Fits(s, d, all) ==
    \/ s = "succeeded" /\ d = all
    \/ s = "partially_failed" /\ d \notin {{}, all}
    \/ s = "failed" /\ d = {}
    \/ s = "cancelled" /\ d # all

Init == batch = [j \in Jobs |-> Unborn]

-----------------------------------------------------------------------------
Submit(j) == batch[j] = Unborn /\ batch'[j] = Open({})

Deliver(j) ==
    \E d \in SUBSET Images[j] : \E i \in Images[j] \ d :
        batch[j] = Open(d) /\ batch'[j] = Open(d \cup {i})

\* A retry of a delivered image takes it back.
Redo(j) ==
    \E d \in SUBSET Images[j] : \E i \in d :
        batch[j] = Open(d) /\ batch'[j] = Open(d \ {i})

Finish(j) ==
    \E d \in SUBSET Images[j] : batch[j] = Open(d) /\ batch'[j] = Settling(d)

Close(j) ==
    \E d \in SUBSET Images[j], s \in {"succeeded", "partially_failed", "failed", "cancelled"} :
        batch[j] = Settling(d) /\ Fits(s, d, Images[j]) /\ batch'[j] = Over(s, d)

GiveUp(j) ==
    \E d \in SUBSET Images[j] : batch[j] = Open(d) /\ batch'[j] = Over("failed", d)

Forsake(j) == batch[j] # Unborn /\ batch'[j] = Forsaken

Step(j) ==
    \/ batch'[j] = batch[j]
    \/ Submit(j) \/ Deliver(j) \/ Redo(j) \/ Finish(j) \/ Close(j) \/ GiveUp(j) \/ Forsake(j)

Next == \A j \in Jobs : Step(j)

Spec == Init /\ [][Next]_batch
=============================================================================
