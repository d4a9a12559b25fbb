----------------------------- MODULE MC_Streams -----------------------------
(* Model-checking instance of Streams: three requests on one connection,  *)
(* as many as ListenStream's burst of 3, so the fourth Wait (the failing  *)
(* Accept once the session closed) finds the Throttle empty.              *)
EXTENDS Streams
=============================================================================
