----------------------------- MODULE MCAdmission -----------------------------
(* Instances of Admission for TLC. *)
EXTENDS Admission, TLC

\* All submissions come from one confirmation dialog and carry its key.
OneKey == [s \in Submissions |-> "key"]

\* Every call asks for one image.
UnitPrice == [r \in Requests |-> 1]

\* Same key, same price: submissions, and retries, are interchangeable.
Interchangeable == Permutations(Submissions) \cup Permutations(Retries)
=============================================================================
