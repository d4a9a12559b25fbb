------------------------------ MODULE Resolver ------------------------------
(***************************************************************************)
(* PeerManager.Resolve and resolveStep: the lookup of a Zif address that  *)
(* the local NetDB does not hold.                                          *)
(*                                                                         *)
(* The network is fixed for one call: Knows[n] is the set of addresses     *)
(* whose entries node n's NetDB holds, Up the nodes a connection can be    *)
(* made to.  A remote answers Query from its NetDB (or with its own entry) *)
(* and otherwise writes "no", which Client.Query turns into the error      *)
(* "Peer returned no"; resolveStep returns that error before it reaches    *)
(* its FindClosest and recursion, so those lines are never executed and    *)
(* the model has no action for them.  The local FindClosest may return its *)
(* entries in any order (the order of the k-buckets), and the local NetDB  *)
(* may hold any part of what the local node has learnt (Knows[Local]).     *)
(***************************************************************************)
EXTENDS Naturals, Sequences, FiniteSets, SequencesExt

CONSTANTS
    Local,      \* the local node
    Target,     \* the address being resolved
    Remotes,    \* the other nodes
    Knows,      \* Knows[n]: addresses in n's NetDB
    Up,         \* nodes that accept a connection
    Depth,      \* the initial depth, 6 in the code
    K           \* BucketSize

Nodes == Remotes \cup {Local}

ASSUME /\ Target \in Remotes /\ Up \subseteq Remotes
       /\ Knows \in [Nodes -> SUBSET Nodes]

VARIABLES
    localDB,    \* addresses in the local NetDB
    candidates, \* the list the local FindClosest returned
    closest,    \* the entries of `for _, i := range closest` not yet tried
    depth,      \* the counter behind the *int shared by every resolveStep
    result      \* "running", "looping", "found", "limit", "unresolved"

vars == <<localDB, candidates, closest, depth, result>>

Init ==
    /\ localDB \in SUBSET Knows[Local]
    /\ candidates = <<>>
    /\ closest = <<>>
    /\ depth = Depth
    /\ result = "running"

\* Resolve up to its loop: a local hit returns it; otherwise FindClosest
\* gives the initial set (at most K entries, in bucket order).
Start ==
    /\ result = "running"
    /\ IF Target \in localDB
       THEN /\ result' = "found"
            /\ UNCHANGED <<candidates, closest>>
       ELSE \E s \in SetToSeqs(localDB) :
               /\ closest' = SubSeq(s, 1, IF Len(s) < K THEN Len(s) ELSE K)
               /\ candidates' = closest'
               /\ result' = "looping"
    /\ UNCHANGED <<localDB, depth>>

\* Client.Query(Target) on a stream to e: e's HandleQuery writes its own
\* entry or the target's row, or "no", which becomes the error "Peer
\* returned no"; the decoded entry is verified, and every entry of this
\* network is genuine.  TRUE when the target's entry comes back.
ClientQuery(e) == e = Target \/ Target \in Knows[e]

\* Peer.Query: Ping and OpenStream fail (an error) unless e accepts a
\* connection; then the stream's Client.Query.
PeerQuery(e) == e \in Up /\ ClientQuery(e)

(* A variant that decrements the shared depth before it tests it.         *)
ResolveStepLateLimit ==
    /\ result = "looping" /\ closest # <<>>
    /\ LET e == Head(closest) IN
       IF depth = 1
       THEN /\ result' = "limit" /\ depth' = 0
            /\ UNCHANGED <<localDB, closest>>
       ELSE /\ depth' = depth - 1
            /\ IF PeerQuery(e)
               THEN /\ localDB' = localDB \cup {Target}
                    /\ result' = "found"
                    /\ UNCHANGED closest
               ELSE /\ closest' = Tail(closest)
                    /\ UNCHANGED <<localDB, result>>
    /\ UNCHANGED candidates

(* A variant with no depth limit.                                          *)
ResolveStepNoLimit ==
    /\ result = "looping" /\ closest # <<>>
    /\ LET e == Head(closest) IN
       /\ depth' = depth - 1
       /\ IF PeerQuery(e)
          THEN /\ localDB' = localDB \cup {Target}
               /\ result' = "found"
               /\ UNCHANGED closest
          ELSE /\ closest' = Tail(closest)
               /\ UNCHANGED <<localDB, result>>
    /\ UNCHANGED candidates

\* One iteration of Resolve's loop: resolveStep(i, addr, &depth).
\* depth 0: RecursionLimit, which Resolve returns at once.  Otherwise the
\* shared counter is decremented; a failed connection or a "no" is an
\* error that Resolve logs before it goes on to the next entry; the
\* target's entry is inserted into the local NetDB and returned.
ResolveStep ==
    /\ result = "looping" /\ closest # <<>>
    /\ LET e == Head(closest) IN
       IF depth = 0
       THEN /\ result' = "limit"
            /\ UNCHANGED <<localDB, closest, depth>>
       ELSE /\ depth' = depth - 1
            /\ IF PeerQuery(e)
               THEN /\ localDB' = localDB \cup {Target}
                    /\ result' = "found"
                    /\ UNCHANGED closest
               ELSE /\ closest' = Tail(closest)
                    /\ UNCHANGED <<localDB, result>>
    /\ UNCHANGED candidates

\* The loop ends without the target: "Address could not be resolved".
Exhausted ==
    /\ result = "looping" /\ closest = <<>>
    /\ result' = "unresolved"
    /\ UNCHANGED <<localDB, candidates, closest, depth>>

Next == Start \/ ResolveStep \/ Exhausted

Spec == Init /\ [][Next]_vars

-----------------------------------------------------------------------------
(* Properties                                                              *)

\* The shapes of the state; the shared depth never goes below zero.
TypeOK ==
    /\ localDB \subseteq Nodes
    /\ candidates \in Seq(Nodes) /\ closest \in Seq(Nodes)
    /\ depth \in 0..Depth
    /\ result \in {"running", "looping", "found", "limit", "unresolved"}

\* The entries node n's NetDB holds.
Holds(n) == IF n = Local THEN localDB ELSE Knows[n]

\* Node e answers Query(Target) with the target's entry.
Answers(e) == e \in Up /\ (e = Target \/ Target \in Knows[e])

\* The nodes the walk can reach within h hops: the local node, then any
\* node that accepts a connection and whose entry a reached node holds.
RECURSIVE Reach(_)
Reach(h) ==
    IF h = 0 THEN {Local}
    ELSE LET r == Reach(h - 1) IN r \cup {m \in Up : \E n \in r : m \in Holds(n)}

\* Spec 4.7 (Resolve) and scenario 4 (iterative resolve): when Resolve
\* gives up, no node reachable within Depth hops of the walk holds the
\* target's entry.
ResolvesReachable ==
    result \in {"limit", "unresolved"} =>
        \A m \in Reach(Depth) \ {Local} : ~Answers(m)

\* The depth budget of 6 buys six queries: when Resolve gives up, none of
\* the first Depth entries of the local FindClosest answers for the target.
ResolvesWithinDepth ==
    result \in {"limit", "unresolved"} =>
        \A j \in 1 .. Len(candidates) : j <= Depth => ~Answers(candidates[j])

=============================================================================
