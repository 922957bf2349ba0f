--------------------------- MODULE MCQuotaRequests ---------------------------
(* Instances of QuotaRequests for TLC. *)
EXTENDS QuotaRequests, TLC

\* Two requests of one user, so that a compensation can meet a newer one, and a third of
\* another user.
TwoOfOneUser == [r \in Requests |-> IF r \in {"r1", "r2"} THEN "u1" ELSE "u2"]

Interchangeable == Permutations(Admins)
=============================================================================
