------------------------------- MODULE Mirror -------------------------------
(***************************************************************************)
(* Peer.Mirror (peer.go) and the two goroutines it runs with: the piece   *)
(* reader of Client.Pieces (proto/client.go) and Database.InsertPieces    *)
(* (dht/sql.go), fed by the server side LocalPeer.HandlePiece and          *)
(* Database.QueryPiecePosts.                                               *)
(*                                                                         *)
(* Posts are the remote peer's post ids 1..N, dense and in id order; a    *)
(* piece is the set of ids it carries and its hash is that set, so a      *)
(* piece matches HashList[i] iff it holds exactly the posts of piece i.   *)
(* The channels are sequences with their capacity (ret: 100 in the code, *)
(* pieces: data.PieceSize) and a closed flag.  The local post table is the *)
(* set of remote ids it holds; INSERT OR IGNORE on the unique info_hash   *)
(* makes a second insert of a post a no-op, and PostCount (MAX(id)) is the *)
(* number of rows.  The onPiece progress channel is read by the caller,   *)
(* which is not in the repository; it is assumed always read.  Faults     *)
(* names the operations that may fail in a run.                            *)
(***************************************************************************)
EXTENDS Naturals, Sequences, FiniteSets

CONSTANTS
    N,          \* posts in the remote collection (entry.PostCount)
    PS,         \* data.PieceSize: posts per piece
    Local,      \* the numbers of posts the local table may hold at the start
    RetCap,     \* capacity of the channel Client.Pieces returns (100)
    PiecesCap,  \* capacity of Mirror's pieces channel (data.PieceSize)
    Batch,      \* InsertPieces commits when n reaches it (99)
    Faults      \* subset of FaultKinds that may happen

FaultKinds == {"ping", "setup", "open", "write", "gzip", "read", "begin",
               "commit", "exec", "addpeer"}

ASSUME /\ N \in 1..6 /\ PS \in 1..3 /\ Local \subseteq 0..N
       /\ RetCap \in 1..3 /\ PiecesCap \in 1..3 /\ Batch \in 1..99
       /\ Faults \subseteq FaultKinds

Least(a, b) == IF a < b THEN a ELSE b
CeilDiv(a, b) == (a + b - 1) \div b

\* mcol.Size: HandleHashList sends len(hashList)/32 hashes, one per piece.
Size == CeilDiv(N, PS)

\* The posts of piece j of the collection; HashList[32*j:32*j+32] is its hash.
PieceOf(j) == {p \in 1..N : j * PS < p /\ p <= (j + 1) * PS}

\* The nil *Piece that ends InsertPieces' loop.
NilPiece == {0}

VARIABLES
    mpc, mi, mres, piece, \* Mirror: pc, loop counter i, result, piece held
    since,                \* the first piece Mirror requests
    ret, retClosed,       \* the channel Client.Pieces returns
    ppc, pi, rd, rerr, cur, \* reader: pc, loop counter, next post id of the
                          \* stream, sticky ErrorReader error, piece built
    pieces, piecesClosed, \* Mirror's pieces channel
    ipc, n, tx, committed \* InsertPieces: pc, n, open transaction, table

vars == <<mpc, mi, mres, piece, since, ret, retClosed, ppc, pi, rd, rerr, cur,
          pieces, piecesClosed, ipc, n, tx, committed>>

Init ==
    /\ mpc = "ping" /\ mi = 0 /\ mres = "none" /\ piece = {} /\ since = 0
    /\ ret = <<>> /\ retClosed = FALSE
    /\ ppc = "idle" /\ pi = 0 /\ rd = 1 /\ rerr = FALSE /\ cur = {}
    /\ pieces = <<>> /\ piecesClosed = FALSE
    /\ ipc = "idle" /\ n = 0 /\ tx = {} /\ \E l \in Local : committed = 1..l

\* A send on a closed channel panics and takes the whole process down, as
\* does InsertPieces' deferred tx.Commit() on a nil tx.
Alive == mres # "panic" /\ ipc # "panic"

Reader == <<ppc, pi, rd, rerr, cur, ret, retClosed>>
Inserter == <<ipc, n, tx, committed>>

\* Mirror returns: the deferred stream Closes (the reader's reads fail from
\* now on) and close(onPiece).
Return(res) == mpc' = "done" /\ mres' = res

-----------------------------------------------------------------------------
(* Mirror.                                                                 *)

\* p.Ping; on success the pieces channel is made and `go db.InsertPieces`.
MPing ==
    /\ Alive /\ mpc = "ping"
    /\ \/ /\ "ping" \in Faults
          /\ Return("err")
          /\ UNCHANGED ipc
       \/ /\ mpc' = "setup" /\ ipc' = "begin"
          /\ UNCHANGED mres
    /\ UNCHANGED <<mi, piece, since, pieces, piecesClosed, n, tx, committed>>
    /\ UNCHANGED Reader

\* The entry (p.Query or GetEntry/Entry), addEntry, OpenStream, Collection
\* and collection.Save: any of them may fail and return.
MSetup ==
    /\ Alive /\ mpc = "setup"
    /\ \/ /\ "setup" \in Faults /\ Return("err")
       \/ mpc' = "count" /\ UNCHANGED mres
    /\ UNCHANGED <<mi, piece, since, pieces, piecesClosed>>
    /\ UNCHANGED Reader /\ UNCHANGED Inserter

\* `if int(db.PostCount()) == entry.PostCount { return nil }`; otherwise
\* since = ceil(PostCount / PieceSize) - 1, or 0.
MCount ==
    /\ Alive /\ mpc = "count"
    /\ LET cnt == Cardinality(committed) IN
       IF cnt = N
       THEN Return("ok") /\ UNCHANGED since
       ELSE /\ since' = IF CeilDiv(cnt, PS) = 0 THEN 0 ELSE CeilDiv(cnt, PS) - 1
            /\ mpc' = "open" /\ UNCHANGED mres
    /\ UNCHANGED <<mi, piece, pieces, piecesClosed>>
    /\ UNCHANGED Reader /\ UNCHANGED Inserter

\* pieceStream := p.OpenStream(), then Pieces(address, since, mcol.Size):
\* its request write may fail, and it then returns a nil channel, which
\* `for piece := range piece_chan` blocks on for ever ("nilrange").
\* Otherwise the reader goroutine starts on the stream HandlePiece writes.
MOpen ==
    /\ Alive /\ mpc = "open"
    /\ \/ /\ "open" \in Faults /\ Return("err")
          /\ UNCHANGED ppc
       \/ /\ "write" \in Faults
          /\ mpc' = "nilrange" /\ UNCHANGED <<mres, ppc>>
       \/ /\ mpc' = "loop" /\ ppc' = "gzip"
          /\ UNCHANGED mres
    /\ rd' = since * PS + 1
    /\ UNCHANGED <<mi, piece, since, pieces, piecesClosed, pi, rerr, cur, ret,
                   retClosed>>
    /\ UNCHANGED Inserter

\* One iteration of the range over piece_chan: the hash check against
\* HashList[32*i:32*i+32] (a mismatch returns an error), onPiece <- i.
MRecv ==
    /\ Alive /\ mpc = "loop" /\ ret # <<>>
    /\ ret' = Tail(ret)
    /\ IF Head(ret) # PieceOf(mi)
       THEN Return("err") /\ UNCHANGED piece
       ELSE /\ mpc' = "send" /\ piece' = Head(ret)
            /\ UNCHANGED mres
    /\ UNCHANGED <<mi, since, pieces, piecesClosed, ppc, pi, rd, rerr, cur,
                   retClosed>>
    /\ UNCHANGED Inserter

(* A variant of the send that does not wait for room in the channel.     *)
MSendNoBound ==
    /\ Alive /\ mpc = "send"
    /\ pieces' = Append(pieces, piece)
    /\ mi' = mi + 1 /\ mpc' = "loop"
    /\ UNCHANGED <<mres, since, piecesClosed, piece>>
    /\ UNCHANGED Reader
    /\ UNCHANGED Inserter

\* `pieces <- piece; i++`: blocks while the channel is full, panics once
\* InsertPieces has closed it.
MSend ==
    /\ Alive /\ mpc = "send"
    /\ \/ /\ piecesClosed
          /\ mres' = "panic" /\ UNCHANGED <<mpc, mi, pieces>>
       \/ /\ ~piecesClosed /\ Len(pieces) < PiecesCap
          /\ pieces' = Append(pieces, piece)
          /\ mi' = mi + 1 /\ mpc' = "loop"
          /\ UNCHANGED mres
    /\ UNCHANGED <<since, piecesClosed, piece>>
    /\ UNCHANGED Reader
    /\ UNCHANGED Inserter

\* The range ends when the reader closes piece_chan.
MRangeEnd ==
    /\ Alive /\ mpc = "loop" /\ ret = <<>> /\ retClosed
    /\ mpc' = "addpeer"
    /\ UNCHANGED <<mi, mres, piece, since, pieces, piecesClosed>>
    /\ UNCHANGED Reader
    /\ UNCHANGED Inserter

(* A variant that returns after RequestAddPeer without `pieces <- nil`.   *)
MAddPeerNoNil ==
    /\ Alive /\ mpc = "addpeer"
    /\ Return("ok")
    /\ UNCHANGED <<mi, piece, since, pieces, piecesClosed>>
    /\ UNCHANGED Reader
    /\ UNCHANGED Inserter

\* RequestAddPeer (its error is Mirror's result), seed reset, then
\* `pieces <- nil`, which blocks while full and panics once closed.
MAddPeer ==
    /\ Alive /\ mpc = "addpeer"
    /\ \/ /\ piecesClosed
          /\ mres' = "panic" /\ UNCHANGED <<mpc, pieces>>
       \/ /\ ~piecesClosed /\ Len(pieces) < PiecesCap
          /\ pieces' = Append(pieces, NilPiece)
          /\ \/ Return("ok")
             \/ "addpeer" \in Faults /\ Return("err")
    /\ UNCHANGED <<mi, piece, since, piecesClosed>>
    /\ UNCHANGED Reader
    /\ UNCHANGED Inserter
-----------------------------------------------------------------------------
(* The reader goroutine of Client.Pieces.                                  *)

\* HandlePiece streams QueryPiecePosts(since, length): `WHERE id > ?` with
\* since*PieceSize and `LIMIT 0,?` with since + PieceSize*length, then the
\* id = -1 sentinel.  StreamEnd is the last post id before the sentinel.
StreamEnd == Least(N, since * PS + since + PS * Size)

\* gzip.NewReader on the stream; its failure closes the channel at once.
PGzip ==
    /\ Alive /\ ppc = "gzip"
    /\ \/ /\ "gzip" \in Faults
          /\ ppc' = "done" /\ retClosed' = TRUE
       \/ ppc' = "loop" /\ UNCHANGED retClosed
    /\ UNCHANGED <<pi, rd, rerr, cur, ret>>
    /\ UNCHANGED <<mpc, mi, mres, piece, since, pieces, piecesClosed>>
    /\ UNCHANGED Inserter

\* The posts of a piece of up to PieceSize posts, that the stream still has.
Avail == {p \in rd .. StreamEnd : p < rd + PS}

\* The first k posts of a contiguous set of ids.
FirstOf(S, k) == {x \in S : Cardinality({y \in S : y < x}) < k}

\* One iteration of `for i := 0; i < length; i++`: read posts until
\* PieceSize, the sentinel, or a read error (sticky in ErrorReader; every
\* read fails once Mirror has returned and closed the stream).  The piece
\* is sent even when short or empty.
PRead ==
    /\ Alive /\ ppc = "loop" /\ pi < Size
    /\ \/ /\ rerr \/ mpc = "done"
          /\ cur' = {} /\ rerr' = TRUE /\ UNCHANGED rd
       \/ /\ ~rerr /\ mpc # "done"
          /\ cur' = Avail /\ rd' = rd + Cardinality(Avail)
          /\ UNCHANGED rerr
       \/ /\ ~rerr /\ mpc # "done" /\ "read" \in Faults
          /\ \E k \in 0 .. (Cardinality(Avail) - 1) :
                cur' = FirstOf(Avail, k) /\ rd' = rd + k
          /\ rerr' = TRUE
    /\ ppc' = "send"
    /\ UNCHANGED <<pi, ret, retClosed>>
    /\ UNCHANGED <<mpc, mi, mres, piece, since, pieces, piecesClosed>>
    /\ UNCHANGED Inserter

\* `ret <- &piece`: blocks while the channel is full.
PSend ==
    /\ Alive /\ ppc = "send" /\ Len(ret) < RetCap
    /\ ret' = Append(ret, cur)
    /\ pi' = pi + 1 /\ ppc' = "loop"
    /\ UNCHANGED <<rd, rerr, cur, retClosed>>
    /\ UNCHANGED <<mpc, mi, mres, piece, since, pieces, piecesClosed>>
    /\ UNCHANGED Inserter

\* The deferred close(ret) once length pieces were sent.
PClose ==
    /\ Alive /\ ppc = "loop" /\ pi = Size
    /\ ppc' = "done" /\ retClosed' = TRUE
    /\ UNCHANGED <<pi, rd, rerr, cur, ret>>
    /\ UNCHANGED <<mpc, mi, mres, piece, since, pieces, piecesClosed>>
    /\ UNCHANGED Inserter

-----------------------------------------------------------------------------
(* Database.InsertPieces.                                                  *)

\* db.conn.Begin(); on failure it returns before its deferred function is
\* registered, so nothing will ever receive from pieces.
IBegin ==
    /\ Alive /\ ipc = "begin"
    /\ \/ /\ "begin" \in Faults /\ ipc' = "done"
       \/ ipc' = "loop"
    /\ UNCHANGED <<n, tx, committed>>
    /\ UNCHANGED <<mpc, mi, mres, piece, since, pieces, piecesClosed>>
    /\ UNCHANGED Reader

\* Return from the loop: the deferred tx.Commit() (which fails, and rolls
\* back, when the tx was already committed), GenerateFts and close(pieces).
IReturn(newCommitted) ==
    /\ committed' = newCommitted /\ tx' = {}
    /\ piecesClosed' = TRUE /\ ipc' = "done"
    /\ UNCHANGED n

(* A variant whose batch commit drops the piece that triggered it.        *)
IRecvBatchSkip ==
    /\ Alive /\ ipc = "loop" /\ pieces # <<>>
    /\ pieces' = Tail(pieces)
    /\ LET p == Head(pieces) IN
       IF p = NilPiece
       THEN IReturn(committed \cup tx)
       ELSE IF n = Batch
       THEN committed' = committed \cup tx /\ tx' = {} /\ n' = 0
            /\ UNCHANGED <<ipc, piecesClosed>>
       ELSE tx' = tx \cup p /\ n' = n + 1
            /\ UNCHANGED <<ipc, piecesClosed, committed>>
    /\ UNCHANGED <<mpc, mi, mres, piece, since>>
    /\ UNCHANGED Reader

\* One iteration of `for piece := range pieces`: nil returns; at n == 99
\* the tx is committed and a new one begun (a failed Commit returns and,
\* like a failed deferred Commit, loses the tx; a failed Begin leaves tx
\* nil and returns, and the deferred tx.Commit() panics on it); then
\* every post is inserted (a failed Exec returns, its earlier posts in tx).
IRecv ==
    /\ Alive /\ ipc = "loop" /\ pieces # <<>>
    /\ pieces' = Tail(pieces)
    /\ LET p == Head(pieces)
           c1 == IF n = Batch THEN committed \cup tx ELSE committed
           tx1 == IF n = Batch THEN {} ELSE tx
           n1 == IF n = Batch THEN 0 ELSE n
       IN  IF p = NilPiece
           THEN \/ IReturn(committed \cup tx)
                \/ "commit" \in Faults /\ IReturn(committed)
           ELSE \/ /\ n = Batch /\ "commit" \in Faults
                   /\ IReturn(committed)
                \/ /\ n = Batch /\ "begin" \in Faults
                   /\ committed' = c1 /\ tx' = {} /\ ipc' = "panic"
                   /\ UNCHANGED <<n, piecesClosed>>
                \/ /\ "exec" \in Faults
                   /\ \E k \in 0 .. (Cardinality(p) - 1) :
                         IReturn(c1 \cup tx1 \cup FirstOf(p, k))
                \/ /\ committed' = c1 /\ tx' = tx1 \cup p /\ n' = n1 + 1
                   /\ UNCHANGED <<ipc, piecesClosed>>
    /\ UNCHANGED <<mpc, mi, mres, piece, since>>
    /\ UNCHANGED Reader

-----------------------------------------------------------------------------
MirrorStep == MPing \/ MSetup \/ MCount \/ MOpen \/ MRecv \/ MSend
              \/ MRangeEnd \/ MAddPeer
ReaderStep == PGzip \/ PRead \/ PSend \/ PClose
InserterStep == IBegin \/ IRecv

Next == MirrorStep \/ ReaderStep \/ InserterStep

\* Each of the three goroutines is scheduled whenever it can run.
Fairness == WF_vars(MirrorStep) /\ WF_vars(ReaderStep) /\ WF_vars(InserterStep)

Spec == Init /\ [][Next]_vars /\ Fairness
-----------------------------------------------------------------------------
(* Properties                                                              *)

AllPosts == 1..N

\* The shapes of the state; a channel never holds more than its capacity.
TypeOK ==
    /\ mpc \in {"ping", "setup", "count", "open", "nilrange", "loop", "send",
               "addpeer", "done"}
    /\ mres \in {"none", "ok", "err", "panic"} /\ mi \in 0..Size
    /\ since \in 0..Size
    /\ ppc \in {"idle", "gzip", "loop", "send", "done"} /\ pi \in 0..Size
    /\ ret \in Seq(SUBSET AllPosts) /\ Len(ret) <= RetCap
    /\ pieces \in Seq(SUBSET AllPosts \cup {NilPiece}) /\ Len(pieces) <= PiecesCap
    /\ ipc \in {"idle", "begin", "loop", "done", "panic"} /\ n \in 0..Batch
    /\ tx \subseteq AllPosts /\ committed \subseteq AllPosts

\* Mirror computes where to resume from PostCount, MAX(id) of the local
\* post table, which is right only while the committed posts are a
\* gap-free prefix of the remote collection: the hash check, the order of
\* the two channels, InsertPieces' batching and its commits on every error
\* path together keep it so.
CommittedPrefix ==
    /\ committed = 1 .. Cardinality(committed)
    /\ committed \cup tx = 1 .. Cardinality(committed \cup tx)

\* With no failure, a first mirror ends: Mirror returns nil, the reader
\* and InsertPieces return, and the whole collection is committed.
MirrorCompletes ==
    <>[](mres = "ok" /\ ppc = "done" /\ ipc = "done" /\ committed = AllPosts)

\* Every InsertPieces goroutine Mirror starts returns, committing its
\* transaction and closing the channel.
InsertPiecesReturns == (ipc = "begin") ~> (ipc = "done")

\* The reader goroutine of Client.Pieces returns (and closes its channel)
\* once started, however Mirror ended.
ReaderReturns == (ppc = "gzip") ~> (ppc = "done")

\* Mirror itself returns, whatever failed.
MirrorReturns == <>(mpc = "done")

\* No send on the pieces channel after InsertPieces closed it: such a send
\* panics and ends the process.
NoSendOnClosedPieces == mres # "panic"

\* When Mirror returns nil (and the peer was registered as a seed with
\* RequestAddPeer) the collection is stored once InsertPieces is done.
MirrorOkMeansStored ==
    (mres = "ok" /\ ipc = "done") => committed = AllPosts

=============================================================================
