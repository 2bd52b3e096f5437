------------------------------- MODULE MCLiveMtr -------------------------------
(* A small instance of LiveMtr for TLC. *)
EXTENDS LiveMtr
=============================================================================
