------------------------------ MODULE MCUpscale ------------------------------
(* Instances of Upscale for TLC. *)
EXTENDS Upscale
=============================================================================
