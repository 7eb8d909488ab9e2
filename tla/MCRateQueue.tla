---------------------------- MODULE MCRateQueue -----------------------------
(* RateQueue for TLC. *)
EXTENDS RateQueue
=============================================================================
