----------------------------- MODULE MC_Limiter -----------------------------
(* Model-checking instance of Limiter with ListenStream's burst of 3.     *)
EXTENDS Limiter
=============================================================================
