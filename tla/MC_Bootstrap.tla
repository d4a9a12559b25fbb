---------------------------- MODULE MC_Bootstrap ----------------------------
(* Bootstrap with 3-bit addresses: A at 0, B at 1, buckets of 2, one     *)
(* other peer 2.  The others announce node 4, node 5 listing 4 as a seed   *)
(* (the Seeds list is not signed), and a tampered entry for node 6.  A's   *)
(* bucket of 4..7 lists 5 before 4 when 5 was announced last, and then    *)
(* FindClosest(1) serves 5 first.                                          *)
EXTENDS Bootstrap

\* The entry constructors, taken apart from A so that the constant Entries
\* does not depend on the instance it is substituted into.
Z == INSTANCE ZifAddress WITH Self <- AAddr

MC_Entries ==
    {Z!MkEntry(4, 1, {}, {}), Z!MkEntry(5, 1, {}, {4}),
     Z!Tampered(Z!MkEntry(6, 1, {}, {}), 2)}
=============================================================================
