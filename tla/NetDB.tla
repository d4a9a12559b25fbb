------------------------------- MODULE NetDB -------------------------------
(***************************************************************************)
(* The NetDB (peer.go, package dht: NetDB) and the DHT request handlers   *)
(* that read and write it (LocalPeer.HandleQuery, HandleFindClosest,      *)
(* HandleAnnounce, HandleAddPeer).                                         *)
(*                                                                         *)
(* State:                                                                  *)
(*   table    the in-memory k-bucket routing table, one sequence of       *)
(*            addresses per bucket, most recently touched first;           *)
(*   rows     the SQL "entry" table: address -> the stored signed fields;  *)
(*   seedRel  the SQL "seed" table: (seed, for) pairs, UNIQUE;             *)
(*   localSeeds  the Seeds list of the local node's own entry;             *)
(*   reply    the last reply a handler wrote on its stream.                *)
(*                                                                         *)
(* An entry read back from the DB (NetDB.Query) takes its Seeds and        *)
(* Seeding from the seed table, not from what was signed.  The failures   *)
(* are those of Insert's statements: the Execs of Update and insertIntoDB *)
(* and InsertSeed on an unknown address; SaveTable's disk I/O is not      *)
(* modelled.  Each handler is one step: the handlers' goroutines          *)
(* (HandleStream, one per stream) share ndb.table with no lock, and their *)
(* interleaving inside insertIntoTable is not modelled.                    *)
(***************************************************************************)
EXTENDS Naturals, Sequences, FiniteSets, SequencesExt, ZifAddress

CONSTANTS
    K,          \* BucketSize (20 in the code)
    Entries,    \* the entries peers may announce (valid and tampered)
    Peers       \* addresses of connected peers that may send requests

VARIABLES table, rows, seedRel, localSeeds, reply

vars == <<table, rows, seedRel, localSeeds, reply>>

NoAddr == 0 - 1
NullEntry == [addr |-> NoAddr, key |-> NoAddr, ver |-> 0, seeding |-> {},
              seeds |-> {}, sig |-> Signed(NoAddr, NoAddr, 0, {})]

\* The SQL row written by insertIntoDB / Update for an entry.
RowOf(e) == [key |-> e.key, ver |-> e.ver, sig |-> e.sig]

\* NetDB.Query's materialisation of a row: addSeedToEntry fills Seeds and
\* Seeding from the seed table (querySeeds, querySeeding).
Materialize(a, rws, rel) ==
    [addr |-> a, key |-> rws[a].key, ver |-> rws[a].ver, sig |-> rws[a].sig,
     seeds |-> {r.seed : r \in {p \in rel : p.for = a}},
     seeding |-> {r.for : r \in {p \in rel : p.seed = a}}]

(* Variants of insertIntoTable, each missing one branch: no tail drop at a *)
(* full bucket, no removal of the old position.                           *)
TouchNoDrop(tbl, a) ==
    LET i == BucketIndex(a)
        b == tbl[i]
    IN  [tbl EXCEPT ![i] = <<a>> \o (IF Contains(b, a) THEN Remove(b, a) ELSE b)]

TouchNoRemove(tbl, a) ==
    LET i == BucketIndex(a)
        b == tbl[i]
    IN  [tbl EXCEPT ![i] = <<a>> \o (IF Len(b) = K THEN Front(b) ELSE b)]

\* insertIntoTable: move to the front if present, else drop the tail of a
\* full bucket and push to the front.  (SaveTable's disk write is not state
\* any property reads.)
Touch(tbl, a) ==
    LET i == BucketIndex(a)
        b == tbl[i]
        rest == IF Contains(b, a) THEN Remove(b, a)
                ELSE IF Len(b) = K THEN Front(b) ELSE b
    IN  [tbl EXCEPT ![i] = <<a>> \o rest]

\* insertEntrySeeds: InsertSeed for every Seeding address, then for every
\* Seeds address, each failing (and ending the loop) when either address has
\* no row.  The lists are in the sender's order, so the pairs written before
\* the first failure are any subset of the good ones.
SeedOutcomes(e, stored) ==
    LET seedingPairs == {[seed |-> e.addr, for |-> p] : p \in e.seeding}
        seedsPairs   == {[seed |-> p, for |-> e.addr] : p \in e.seeds}
        Good(P) == {r \in P : r.seed \in stored /\ r.for \in stored}
    IN  IF Good(seedingPairs) # seedingPairs
        THEN {[pairs |-> S, err |-> TRUE] : S \in SUBSET Good(seedingPairs)}
        ELSE IF Good(seedsPairs) # seedsPairs
        THEN {[pairs |-> seedingPairs \cup S, err |-> TRUE]
                : S \in SUBSET Good(seedsPairs)}
        ELSE {[pairs |-> seedingPairs \cup seedsPairs, err |-> FALSE]}

\* An Insert that returns an error having written nothing more: Verify
\* failed, or (after insertIntoTable) the Exec of Update or of
\* insertIntoDB's INSERT failed.
Failed(tbl) ==
    [tbl |-> tbl, rows |-> rows, rel |-> seedRel, affected |-> 0, err |-> TRUE]

\* Update matched the existing row and replaced its fields.
Updated(e, tbl) ==
    [tbl |-> tbl, rows |-> [rows EXCEPT ![e.addr] = RowOf(e)],
     rel |-> seedRel, affected |-> 1, err |-> FALSE]

\* insertIntoDB wrote a new row; then either its FTS Exec failed (Insert
\* returns the error before insertEntrySeeds) or insertEntrySeeds ran.
NewRowOutcomes(e, tbl) ==
    LET rws == [a \in DOMAIN rows \cup {e.addr} |->
                   IF a = e.addr THEN RowOf(e) ELSE rows[a]]
    IN  {[tbl |-> tbl, rows |-> rws, rel |-> seedRel, affected |-> 0,
          err |-> TRUE]}
        \cup {[tbl |-> tbl, rows |-> rws, rel |-> seedRel \cup o.pairs,
               affected |-> 1, err |-> o.err] : o \in SeedOutcomes(e, DOMAIN rws)}

(* Variants of NetDB.Insert: Verify left out, and an UPDATE statement that *)
(* leaves the signature column as it was.                                  *)
InsertNoVerify(e, tbl0) ==
    LET tbl == Touch(tbl0, e.addr) IN
    {Failed(tbl)} \cup
    IF e.addr \in DOMAIN rows THEN {Updated(e, tbl)} ELSE NewRowOutcomes(e, tbl)

InsertUpdateKeepsSig(e, tbl0) ==
    LET tbl == Touch(tbl0, e.addr)
        kept == [RowOf(e) EXCEPT !.sig = rows[e.addr].sig]
    IN  IF ~Verify(e) THEN {Failed(tbl0)}
        ELSE {Failed(tbl)} \cup
             IF e.addr \in DOMAIN rows
             THEN {[Updated(e, tbl) EXCEPT !.rows[e.addr] = kept]}
             ELSE NewRowOutcomes(e, tbl)

\* NetDB.Insert from table tbl0: Verify; insertIntoTable; Update, which
\* either fails or, matching the existing row, replaces it and returns;
\* otherwise insertIntoDB (INSERT OR IGNORE, then the FTS row), each Exec
\* of which may fail, and insertEntrySeeds.  Every error is returned after
\* insertIntoTable, which is not undone.
InsertOutcomes(e, tbl0) ==
    LET tbl == Touch(tbl0, e.addr) IN
    IF ~Verify(e) THEN {Failed(tbl0)}
    ELSE {Failed(tbl)} \cup
         IF e.addr \in DOMAIN rows THEN {Updated(e, tbl)} ELSE NewRowOutcomes(e, tbl)

-----------------------------------------------------------------------------
(* FindClosest.                                                            *)
(*                                                                         *)
(* `for _, i := range bucket` ranges over the bucket's backing array.  The *)
(* first Query in a bucket that finds its row calls insertIntoTable, whose *)
(* append(bucket[:found], bucket[found+1:]...) shifts that same array left *)
(* in place before the bucket is replaced by a fresh array; the rest of    *)
(* the range reads the shifted array.  AliasedRead is the sequence of      *)
(* addresses the range visits.                                             *)
(***************************************************************************)
AliasedRead(b) ==
    LET hits == {j \in 1..Len(b) : b[j] \in DOMAIN rows}
        j == CHOOSE x \in hits : \A y \in hits : x <= y
    IN  IF hits = {} \/ j > Len(b) - 2 THEN b
        ELSE SubSeq(b, 1, j) \o SubSeq(b, j + 2, Len(b)) \o <<b[Len(b)]>>

\* One iteration of the inner loop: Query the address (NoAddr stands for the
\* nil entry appended when the row is missing) and touch it on a hit.
RECURSIVE ScanSeq(_, _)
ScanSeq(st, s) ==
    IF s = <<>> \/ Len(st.ret) >= K THEN st
    ELSE LET x == Head(s)
             st1 == IF x \in DOMAIN rows
                    THEN [tbl |-> Touch(st.tbl, x), ret |-> Append(st.ret, x)]
                    ELSE [st EXCEPT !.ret = Append(@, NoAddr)]
         IN  ScanSeq(st1, Tail(s))

ScanBucket(st, i) == ScanSeq(st, AliasedRead(st.tbl[i]))

\* The outward loop: at step i scan bucket index-i, then bucket index+i.
\* At i = 0 both branches scan the target's own bucket.
RECURSIVE Expand(_, _, _)
Expand(st, index, i) ==
    IF ~((index - i >= 0 \/ index + i <= W) /\ Len(st.ret) < K) THEN st
    ELSE LET st1 == IF index - i >= 0 THEN ScanBucket(st, index - i) ELSE st
             st2 == IF index + i < W THEN ScanBucket(st1, index + i) ELSE st1
         IN  Expand(st2, index, i + 1)

\* NetDB.FindClosest: a full target bucket goes through queryAddresses
\* alone; otherwise the outward expansion.  Result: final table and the
\* addresses in reply order.
FindClosest(t) ==
    LET index == BucketIndex(t)
        st0 == [tbl |-> table, ret |-> <<>>]
    IN  IF Len(table[index]) = K THEN ScanBucket(st0, index)
        ELSE Expand(st0, index, 0)

-----------------------------------------------------------------------------
(* The local node's own entry (lp.Entry), signed with no Seeding.          *)
LocalEntry == MkEntry(Self, 1, {}, localSeeds)

Served(a) == IF a = NoAddr THEN NullEntry ELSE Materialize(a, rows, seedRel)

Reply(op, hdr, from, arg, body) ==
    [op |-> op, hdr |-> hdr, from |-> from, arg |-> arg, body |-> body]

NoReply == Reply("none", "none", NoAddr, NoAddr, <<>>)

Init ==
    /\ table = [i \in Buckets |-> <<>>]
    /\ rows = [a \in {} |-> RowOf(NullEntry)]
    /\ seedRel = {}
    /\ localSeeds = {}
    /\ reply = NoReply

\* LocalPeer.HandleQuery: our own entry, or NetDB.Query (which touches the
\* table on a hit), or "no" when the row is missing.
HandleQuery(from, a) ==
    /\ IF a = Self
       THEN /\ reply' = Reply("query", "dht.query", from, a, <<LocalEntry>>)
            /\ UNCHANGED table
       ELSE IF a \in DOMAIN rows
       THEN /\ table' = Touch(table, a)
            /\ reply' = Reply("query", "dht.query", from, a,
                              <<Materialize(a, rows, seedRel)>>)
       ELSE /\ reply' = Reply("query", "no", from, a, <<>>)
            /\ UNCHANGED table
    /\ UNCHANGED <<rows, seedRel, localSeeds>>

\* LocalPeer.HandleFindClosest: NetDB.FindClosest, reply dht.entries.
HandleFindClosest(from, t) ==
    LET st == FindClosest(t) IN
    /\ table' = st.tbl
    /\ reply' = Reply("find_closest", "dht.entries", from, t,
                      [i \in 1..Len(st.ret) |-> Served(st.ret[i])])
    /\ UNCHANGED <<rows, seedRel, localSeeds>>

\* LocalPeer.HandleAnnounce: NetDB.Insert, "ok" iff no error and a row was
\* affected, "no" otherwise.
HandleAnnounce(from, e) ==
    \E o \in InsertOutcomes(e, table) :
        /\ table' = o.tbl
        /\ rows' = o.rows
        /\ seedRel' = o.rel
        /\ reply' = Reply("announce",
                          IF ~o.err /\ o.affected > 0 THEN "ok" ELSE "no",
                          from, e.addr, <<e>>)
        /\ UNCHANGED localSeeds

\* LocalPeer.HandleAddPeer: `from` asks to be registered as a seed of
\* `target`.  For the local node the Seeds list grows (SaveEntry).  For
\* another node the entry is read with NetDB.Query, `from` appended to its
\* Seeds, and it is put back with NetDB.Insert, whose result is ignored; a
\* missing entry returns an error and the stream is closed with no reply.
HandleAddPeer(from, target) ==
    \/ /\ target = Self
       /\ localSeeds' = localSeeds \cup {from}
       /\ reply' = Reply("add_peer", "ok", from, target, <<>>)
       /\ UNCHANGED <<table, rows, seedRel>>
    \/ /\ target # Self
       /\ target \notin DOMAIN rows
       /\ reply' = Reply("add_peer", "closed", from, target, <<>>)
       /\ UNCHANGED <<table, rows, seedRel, localSeeds>>
    \/ /\ target # Self
       /\ target \in DOMAIN rows
       /\ LET e0 == Materialize(target, rows, seedRel)
              e1 == [e0 EXCEPT !.seeds = @ \cup {from}]
          IN  \E o \in InsertOutcomes(e1, Touch(table, target)) :
                 /\ table' = o.tbl
                 /\ rows' = o.rows
                 /\ seedRel' = o.rel
                 /\ reply' = Reply("add_peer", "ok", from, target, <<>>)
                 /\ UNCHANGED localSeeds

Next ==
    \E from \in Peers :
        \/ \E e \in Entries : HandleAnnounce(from, e)
        \/ \E a \in Addr : HandleQuery(from, a)
        \/ \E t \in Addr \ {Self} : HandleFindClosest(from, t)
        \/ \E t \in Addr : HandleAddPeer(from, t)

Spec == Init /\ [][Next]_vars

-----------------------------------------------------------------------------
(* Properties                                                              *)

\* A k-bucket is a sequence of at most K addresses.
TypeOK ==
    /\ DOMAIN table = Buckets
    /\ \A i \in Buckets : table[i] \in Seq(Addr) /\ Len(table[i]) <= K
    /\ DOMAIN rows \subseteq Addr \ {Self}
    /\ seedRel \subseteq [seed : Addr, for : Addr]
    /\ localSeeds \subseteq Addr

\* The k-bucket table (spec 8.2, 8.3): insertIntoTable, and every touch
\* FindClosest and Query make while they iterate over a bucket, keep each
\* bucket free of duplicates and holding only addresses whose
\* LeadingZeroes(addr XOR self) is that bucket's index.
KBucketsWellFormed ==
    \A i \in Buckets :
        /\ \A x, y \in 1..Len(table[i]) : x # y => table[i][x] # table[i][y]
        /\ \A x \in 1..Len(table[i]) : BucketIndex(table[i][x]) = i

\* Spec 4.2: every address in the routing table has a row in the entry
\* table, as FindClosest (which serves a nil entry for a missing row) and
\* Resolve assume.  Insert touches the table before Update or insertIntoDB
\* writes the row, and does not undo the touch when that write fails.
TableBackedByRows ==
    \A i \in Buckets : \A x \in 1..Len(table[i]) : table[i][x] \in DOMAIN rows

\* Spec 8.1, for the fields a row stores: every stored row carries a
\* signature by its stored key over its own address and stored version,
\* whatever mix of announces and add-peer rewrites put it there.
StoredSignaturesGenuine ==
    \A a \in DOMAIN rows :
        rows[a].sig.key = rows[a].key /\ rows[a].sig.addr = a
        /\ rows[a].sig.ver = rows[a].ver

\* Spec 3 (Entry) and 6: an address is derived from its owner's public key
\* and every received entry is checked against it, so a stored entry for
\* an address carries that address's own key, whatever was announced.
StoredEntriesOwned ==
    \A a \in DOMAIN rows : rows[a].key = a

\* The entry table seen through Directory: the rows are the map, and the
\* reply to an announce is its answer.
Dir == INSTANCE Directory WITH
         dir <- rows,
         answer <- IF reply.op = "announce"
                   THEN <<[entry |-> reply.body[1], ok |-> reply.hdr = "ok"]>>
                   ELSE <<>>

\* Spec 4.2 and 8.1: through every interleaving of announces, queries,
\* find-closest and add-peer rewrites, the SQL entry table behaves as the
\* Directory map: Insert (Verify, Update, insertIntoDB) stores exactly the
\* last verified announce for an address, a refused entry changes nothing,
\* and Query, FindClosest and HandleAddPeer's re-insert never change a row.
DirectoryRefined == Dir!Spec

\* Spec 8.6: FindClosest's reply is strictly ordered by distance to the
\* target (hence free of duplicates) and holds at most K entries.
FindClosestSortedDistinct ==
    reply.op = "find_closest" =>
        /\ Len(reply.body) <= K
        /\ IsSorted([i \in 1..Len(reply.body) |-> reply.body[i].addr],
                    LAMBDA x, y : Distance(x, reply.arg) < Distance(y, reply.arg))

\* Spec 8.1 and 4.5: every entry HandleQuery serves passes Entry.Verify,
\* which the querying client runs on it before use.
ServedEntriesVerify ==
    reply.op = "query" /\ reply.hdr = "dht.query" => Verify(reply.body[1])

\* Spec 4.2 (insert refreshes seed relations) and 4.6 (handle_add_peer):
\* once an add-peer request for another node is answered "ok", the
\* requester is among that node's Seeds as NetDB.Query returns them.
AddPeerSeedRecorded ==
    reply.op = "add_peer" /\ reply.hdr = "ok" /\ reply.arg # Self =>
        reply.from \in Materialize(reply.arg, rows, seedRel).seeds

=============================================================================
