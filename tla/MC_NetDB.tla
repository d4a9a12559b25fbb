------------------------------ MODULE MC_NetDB ------------------------------
(* Model-checking instance of NetDB: 3-bit addresses, the local node at 0, *)
(* buckets of 3 (bucket 0 covers the four addresses 4..7, so it fills and  *)
(* evicts), and a handful of announced entries: first versions of five     *)
(* nodes, a second version of node 4 that seeds 5 and lists 1 as a seed,   *)
(* a tampered entry for node 5, and an entry for node 4 that someone else *)
(* signed with their own key.                                              *)
EXTENDS NetDB

MC_K == 3

MC_Entries ==
    {MkEntry(a, 1, {}, {}) : a \in {1, 4, 5, 6, 7}}
    \cup {MkEntry(4, 2, {5}, {1}), Tampered(MkEntry(5, 1, {}, {}), 2),
           Forged(MkEntry(4, 3, {}, {}))}

MC_Peers == {6}
=============================================================================
