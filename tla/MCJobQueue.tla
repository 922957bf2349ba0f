----------------------------- MODULE MCJobQueue -----------------------------
(* Instances of JobQueue for TLC. *)
EXTENDS LedgerRefinement, TLC

\* All images belong to the one batch.
OneBatch == [i \in Items |-> CHOOSE j \in Jobs : TRUE]

\* Images, and workers, are interchangeable (sound for safety only).
Interchangeable == Permutations(Items) \cup Permutations(Workers)
=============================================================================
