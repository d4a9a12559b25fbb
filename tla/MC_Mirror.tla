----------------------------- MODULE MC_Mirror -----------------------------
(* Model-checking instance of Mirror.  A collection of five posts in       *)
(* pieces of two (three pieces, the last one short), channels of capacity *)
(* one so that every blocking send is reached, and a commit after every   *)
(* piece so that InsertPieces' mid-stream commit happens.                 *)
EXTENDS Mirror

MC_AllFaults == FaultKinds
=============================================================================
