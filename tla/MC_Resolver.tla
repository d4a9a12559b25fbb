---------------------------- MODULE MC_Resolver ----------------------------
(* Two networks for Resolver, with the code's depth of 6 and bucket size  *)
(* of 20.                                                                  *)
(*   Chain: spec scenario 4.  The local node knows only A, A knows only   *)
(*   B, and B holds the target T.                                          *)
(*   Wide: the local node knows seven nodes N1..N7 (fewer than K, so the  *)
(*   local FindClosest returns all of them, in any order) and only N7     *)
(*   holds T.                                                              *)
EXTENDS Resolver

ChainRemotes == {"A", "B", "T"}
ChainKnows == [n \in {"L"} \cup ChainRemotes |->
                 CASE n = "L" -> {"A"} [] n = "A" -> {"B"} [] n = "B" -> {"T"}
                   [] OTHER -> {}]

WideRemotes == {"N1", "N2", "N3", "N4", "N5", "N6", "N7", "T"}
WideKnows == [n \in {"L"} \cup WideRemotes |->
                CASE n = "L" -> WideRemotes \ {"T"} [] n = "N7" -> {"T"}
                  [] OTHER -> {}]
=============================================================================
