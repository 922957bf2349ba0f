------------------------------ MODULE MCImages ------------------------------
(* Instances of Images for TLC. *)
EXTENDS Images
=============================================================================
