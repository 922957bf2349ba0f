---------------------------- MODULE MCSettlement ----------------------------
(* Instances of Settlement for TLC. *)
EXTENDS Settlement

\* Calls of one batch land in different price tiers.
TieredCost == [id \in Items \X (1..MaxAttempts) |-> id[2]]
=============================================================================
