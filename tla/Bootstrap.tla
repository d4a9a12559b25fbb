----------------------------- MODULE Bootstrap -----------------------------
(***************************************************************************)
(* Two nodes and the client code between them: node B connects to node A  *)
(* (Peer.Connect), announces itself to A (Peer.Announce, Client.Announce)  *)
(* and bootstraps from A (Peer.Bootstrap, Client.Bootstrap), while other   *)
(* peers keep sending A every request the DHT handlers serve.             *)
(*                                                                         *)
(* Each node's NetDB is an instance of NetDB over its own variables.  A    *)
(* request to A runs A's handler in the step that sends it: the handler   *)
(* reads and writes only A's state, and B's side of the exchange works on  *)
(* the reply alone.  Client.Bootstrap inserts through dht.DHT.Insert,     *)
(* which is not in the repository; spec 4.5 says it is NetDB.insert, and  *)
(* it is modelled as that.  The loop's inserts run on B's intermediate     *)
(* state through the parameterised instance BAt.                          *)
(***************************************************************************)
EXTENDS Naturals, Sequences, FiniteSets

CONSTANTS
    W, K,       \* address width and bucket size, as in NetDB
    Entries,    \* entries other peers announce to A
    Peers,      \* other peers that send A requests
    AAddr,      \* node A
    BAddr       \* node B

VARIABLES
    aTable, aRows, aSeeds, aLocal, aReply,  \* A's NetDB, as in NetDB
    bTable, bRows, bSeeds,                  \* B's NetDB
    bpc,        \* B: "idle" before Connect, "connected", "looping" in the
                \* loop of Client.Bootstrap
    bGot,       \* the entries of the last find-closest reply B read
    bBuf,       \* the part of bGot the loop has still to range over
    bres        \* result of B's last Bootstrap: "none", "ok", "error"

vars == <<aTable, aRows, aSeeds, aLocal, aReply, bTable, bRows, bSeeds,
          bpc, bGot, bBuf, bres>>
aVars == <<aTable, aRows, aSeeds, aLocal, aReply>>
bDB == <<bTable, bRows, bSeeds>>

A == INSTANCE NetDB WITH Self <- AAddr, table <- aTable, rows <- aRows,
       seedRel <- aSeeds, localSeeds <- aLocal, reply <- aReply

B == INSTANCE NetDB WITH Self <- BAddr, table <- bTable, rows <- bRows,
       seedRel <- bSeeds, localSeeds <- {}, reply <- A!NoReply

\* B's own entry, as LocalPeer.SignEntry signs it.
BEntry == A!MkEntry(BAddr, 1, {}, {})

\* B's NetDB after one of its Insert outcomes o.
StoreOutcome(o) == bTable' = o.tbl /\ bRows' = o.rows /\ bSeeds' = o.rel

Init ==
    /\ A!Init
    /\ bTable = [i \in A!Buckets |-> <<>>]
    /\ bRows = [x \in {} |-> A!RowOf(A!NullEntry)]
    /\ bSeeds = {}
    /\ bpc = "idle"
    /\ bGot = <<>>
    /\ bBuf = <<>>
    /\ bres = "none"

\* Peer.Connect: the handshake hands B A's entry, which lp.DHT.Insert
\* stores; the result of the insert is ignored.
Connect ==
    /\ bpc = "idle"
    /\ \E o \in B!InsertOutcomes(A!LocalEntry, bTable) : StoreOutcome(o)
    /\ bpc' = "connected"
    /\ UNCHANGED <<aVars, bGot, bBuf, bres>>

\* Peer.Announce: Ping, SignEntry, OpenStream and Client.Announce, which
\* A serves with HandleAnnounce.  B keeps nothing of the answer.
Announce ==
    /\ bpc = "connected"
    /\ A!HandleAnnounce(BAddr, BEntry)
    /\ UNCHANGED <<bDB, bpc, bGot, bBuf, bres>>

\* The entries of A's dht.entries reply to FindClosest(B), as HandleFindClosest
\* writes them (a nil *Entry travels as null and decodes to nil).
Closest ==
    LET ret == A!FindClosest(BAddr).ret
    IN  [j \in 1 .. Len(ret) |-> A!Served(ret[j])]

\* Peer.Bootstrap up to the loop: Ping or OpenStream fails (the error is
\* returned, nothing changes); or A serves the request but B's ReadMessage
\* or Read fails (A's table is touched, B returns the error); or B starts
\* ranging over the reply.
Bootstrap ==
    /\ bpc = "connected"
    /\ \/ /\ bres' = "error"
          /\ UNCHANGED <<aVars, bDB, bpc, bGot, bBuf>>
       \/ /\ A!HandleFindClosest(BAddr, BAddr)
          /\ bres' = "error"
          /\ UNCHANGED <<bDB, bpc, bGot, bBuf>>
       \/ /\ A!HandleFindClosest(BAddr, BAddr)
          /\ bGot' = Closest
          /\ bBuf' = Closest
          /\ bpc' = "looping"
          /\ UNCHANGED <<bDB, bres>>

\* A variant of the skip below that leaves the loop and returns nil (a `return
\* nil` where the code has `continue`).
BootSkipBreak ==
    /\ bpc = "looping" /\ bBuf # <<>>
    /\ LET i == Head(bBuf) IN
          i.addr # A!NoAddr /\ (i.addr = BAddr \/ ~A!Verify(i))
    /\ bBuf' = <<>> /\ bpc' = "connected" /\ bres' = "ok"
    /\ UNCHANGED <<aVars, bDB, bGot>>

\* One iteration of Client.Bootstrap's loop, on the next entry i.
\* B's own entry, and an entry failing Verify, are skipped (`continue`).
BootSkip ==
    /\ bpc = "looping" /\ bBuf # <<>>
    /\ LET i == Head(bBuf) IN
          i.addr # A!NoAddr /\ (i.addr = BAddr \/ ~A!Verify(i))
    /\ bBuf' = Tail(bBuf)
    /\ UNCHANGED <<aVars, bDB, bpc, bGot, bres>>

\* A variant of the insert below that leaves the loop on an error without
\* dropping the rest of the reply.
BootInsertKeepBuf ==
    /\ bpc = "looping" /\ bBuf # <<>>
    /\ LET i == Head(bBuf) IN
          /\ i.addr \notin {A!NoAddr, BAddr} /\ A!Verify(i)
          /\ \E o \in B!InsertOutcomes(i, bTable) :
                /\ StoreOutcome(o)
                /\ IF o.err
                   THEN UNCHANGED bBuf /\ bpc' = "connected" /\ bres' = "error"
                   ELSE bBuf' = Tail(bBuf) /\ UNCHANGED <<bpc, bres>>
    /\ UNCHANGED <<aVars, bGot>>

\* d.Insert(*i): the row is written even when insertEntrySeeds fails
\* afterwards; an error is returned at once and ends the loop.
BootInsert ==
    /\ bpc = "looping" /\ bBuf # <<>>
    /\ LET i == Head(bBuf) IN
          /\ i.addr \notin {A!NoAddr, BAddr} /\ A!Verify(i)
          /\ \E o \in B!InsertOutcomes(i, bTable) :
                /\ StoreOutcome(o)
                /\ IF o.err
                   THEN bBuf' = <<>> /\ bpc' = "connected" /\ bres' = "error"
                   ELSE bBuf' = Tail(bBuf) /\ UNCHANGED <<bpc, bres>>
    /\ UNCHANGED <<aVars, bGot>>

\* `i.Address.Equals(&address)` runs before the nil check, so on a nil
\* entry it dereferences nil; the panic is not recovered and ends B's
\* process.
BootPanic ==
    /\ bpc = "looping" /\ bBuf # <<>>
    /\ Head(bBuf).addr = A!NoAddr
    /\ bpc' = "crashed" /\ bBuf' = <<>>
    /\ UNCHANGED <<aVars, bDB, bGot, bres>>

\* The loop has ranged over the whole reply: Bootstrap returns nil.
BootDone ==
    /\ bpc = "looping" /\ bBuf = <<>>
    /\ bpc' = "connected" /\ bres' = "ok"
    /\ UNCHANGED <<aVars, bDB, bGot, bBuf>>

\* Requests of the other peers to A, served while B runs.
Serve ==
    /\ \E from \in Peers :
          \/ \E e \in Entries : A!HandleAnnounce(from, e)
          \/ \E x \in A!Addr : A!HandleQuery(from, x)
          \/ \E t \in A!Addr \ {AAddr} : A!HandleFindClosest(from, t)
          \/ \E t \in A!Addr : A!HandleAddPeer(from, t)
    /\ UNCHANGED <<bDB, bpc, bGot, bBuf, bres>>

Next == Connect \/ Announce \/ Bootstrap \/ BootSkip
          \/ BootInsert \/ BootPanic \/ BootDone \/ Serve

Spec == Init /\ [][Next]_vars

-----------------------------------------------------------------------------
(* Properties                                                              *)

\* Both NetDBs keep their shapes; B's client state takes its values.
TypeOK ==
    /\ A!TypeOK
    /\ B!TypeOK
    /\ bpc \in {"idle", "connected", "looping", "crashed"}
    /\ bres \in {"none", "ok", "error"}
    /\ bpc # "looping" => bBuf = <<>>
    /\ Len(bBuf) <= Len(bGot)
    /\ bBuf = SubSeq(bGot, Len(bGot) - Len(bBuf) + 1, Len(bGot))

\* Client.Bootstrap dereferences every entry of the reply before its nil
\* check; it never panics: the entry the loop takes next is never nil.
\* That needs A's FindClosest never to serve one, so every address in A's
\* k-buckets to have a row, whatever other peers sent A and whichever of
\* A's inserts failed after touching the table.
BootstrapNoPanic ==
    bpc = "looping" /\ bBuf # <<>> => Head(bBuf).addr # A!NoAddr

\* Spec 4.5 and scenario 1: a Bootstrap that returns nil has stored in B's
\* NetDB every entry of A's reply that passes Verify and is not B's own.
BootstrapOkStoresReply ==
    [][bpc = "looping" /\ bpc' = "connected" /\ bres' = "ok" =>
         \A j \in 1 .. Len(bGot) :
            LET e == bGot[j] IN
            e.addr \notin {A!NoAddr, BAddr} /\ A!Verify(e) =>
                e.addr \in DOMAIN bRows' /\ bRows'[e.addr] = A!RowOf(e)]_vars

\* Spec scenario 1: once Client.Bootstrap has ranged over A's reply and
\* returned, B's NetDB holds an entry for every node the reply names other
\* than B ("N1's NetDB contains exactly {N2, N3, N4, N5}").
BootstrapLearnsReply ==
    [][bpc = "looping" /\ bpc' = "connected" =>
         \A j \in 1 .. Len(bGot) :
            bGot[j].addr \notin {A!NoAddr, BAddr} => bGot[j].addr \in DOMAIN bRows']_vars

=============================================================================
