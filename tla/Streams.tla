------------------------------ MODULE Streams ------------------------------
(***************************************************************************)
(* The life of request streams on one connection (one yamux session)      *)
(* between a requesting node A and a serving node B.                      *)
(*                                                                         *)
(* A's side, for every request r (Peer.Query, Peer.Bootstrap, Announce,   *)
(* ... all take the same shape): Peer.OpenStream pings, marks the peer    *)
(* seen and asks the StreamManager for a stream; StreamManager.OpenStream *)
(* opens it and sets a 10 s deadline; the request is written, one reply   *)
(* is read, and the deferred stream.Close() runs.                         *)
(*                                                                         *)
(* B's side: Server.ListenStream accepts streams in the order A opened    *)
(* them, waits on its rate limiter (the Limiter module, composed here by  *)
(* INSTANCE), sets a 10 s deadline, records the stream with AddStream and *)
(* starts HandleStream, which reads messages and hands each to            *)
(* RouteMessage; RouteMessage runs the handler and closes the stream.     *)
(*                                                                         *)
(* yamux, the session library, is not part of this repository; the model *)
(* keeps of it what the code relies on: a stream is released only when   *)
(* both ends have called Close (or the session ends); a read returns      *)
(* buffered data, else EOF once the other end closed, else an error once  *)
(* the deadline passed or the session closed; Accept fails once the       *)
(* session closed; SetDeadline never fails.  A deadline is a timer        *)
(* started when the stream was opened or accepted; how long the other    *)
(* end takes is not modelled, so a read or write blocked on a stream may *)
(* fail with its deadline at any moment (a Timeout choice).               *)
(***************************************************************************)
EXTENDS Naturals, Sequences, FiniteSets

CONSTANTS
    Reqs,       \* the requests A makes on the connection, one stream each
    Burst,      \* ListenStream's limiter burst
    Srv         \* B's ListenStream, the one session of the Limiter

VARIABLES
    sess,       \* the session: "open" or "closed"
    rq,         \* A's request r: "idle", "open", "sent", "done"
    backlog,    \* streams A opened that B has not accepted yet, in order
    hs,         \* B's end of stream r: "none", "backlog", "read", "reread", "exit"
    req,        \* the request of r is buffered at B, unread
    rep,        \* the reply to r is buffered at A, unread
    bClosed,    \* B's end of r has called Close
    clients,    \* StreamManager.clients of B: the streams AddStream recorded
    tokens, tickBuf, tickerOn, closed, gpc, upc   \* the Limiter's variables

lvars == <<tokens, tickBuf, tickerOn, closed, gpc, upc>>
svars == <<sess, rq, backlog, hs, req, rep, bClosed, clients>>
vars == <<svars, lvars>>

L == INSTANCE Limiter WITH Sessions <- {Srv}

Init ==
    /\ sess = "open"
    /\ rq = [r \in Reqs |-> "idle"]
    /\ backlog = <<>>
    /\ hs = [r \in Reqs |-> "none"]
    /\ req = [r \in Reqs |-> FALSE]
    /\ rep = [r \in Reqs |-> FALSE]
    /\ bClosed = [r \in Reqs |-> FALSE]
    /\ clients = {}
    /\ L!Init

-----------------------------------------------------------------------------
(* A: the requester                                                        *)

\* StreamManager.OpenStream: session.Open() adds the stream to B's accept
\* backlog; SetDeadline arms A's timer (never fails).
SmOpenStream(r) ==
    /\ rq' = [rq EXCEPT ![r] = "open"]
    /\ backlog' = Append(backlog, r)
    /\ hs' = [hs EXCEPT ![r] = "backlog"]

\* Peer.OpenStream after the request's own Ping: Ping fails once the
\* session closed and may time out while it is open; on success
\* UpdateSeen, then the StreamManager opens the stream.
OpenStream(r) ==
    /\ rq[r] = "idle"
    /\ \/ /\ sess = "open"
          /\ SmOpenStream(r)
       \/ /\ rq' = [rq EXCEPT ![r] = "done"]
          /\ UNCHANGED <<backlog, hs>>
    /\ UNCHANGED <<sess, req, rep, bClosed, clients>>
    /\ UNCHANGED lvars

\* The request returns, whatever its outcome; its deferred stream.Close()
\* (Client.Close) closes A's end, so A's end of r is closed exactly when
\* r opened a stream and ended.
EndRequest(r) == rq' = [rq EXCEPT ![r] = "done"]

aClosed(r) == rq[r] = "done" /\ hs[r] # "none"

\* WriteMessage of the request.  It fails once the session closed, or when
\* the deadline passes first, and the request returns.
WriteRequest(r) ==
    /\ rq[r] = "open"
    /\ \/ /\ sess = "open"
          /\ req' = [req EXCEPT ![r] = TRUE]
          /\ rq' = [rq EXCEPT ![r] = "sent"]
       \/ /\ EndRequest(r)
          /\ UNCHANGED req
    /\ UNCHANGED <<sess, backlog, hs, rep, bClosed, clients>>
    /\ UNCHANGED lvars

\* A read of the reply on a stream without a deadline: it returns only
\* with the reply, EOF, or the session's end.
ReadReplyNoDeadline(r) ==
    /\ rq[r] = "sent"
    /\ rep[r] \/ bClosed[r] \/ sess = "closed"
    /\ EndRequest(r)
    /\ rep' = [rep EXCEPT ![r] = FALSE]
    /\ UNCHANGED <<sess, backlog, hs, req, bClosed, clients>>
    /\ UNCHANGED lvars

\* Client.ReadMessage of the reply returns the reply, EOF once B closed
\* its end, or an error once the session closed; and since OpenStream set
\* a deadline it returns an error at the latest when that passes.  The
\* request then ends.
ReadReply(r) ==
    /\ rq[r] = "sent"
    /\ EndRequest(r)
    /\ rep' = [rep EXCEPT ![r] = FALSE]
    /\ UNCHANGED <<sess, backlog, hs, req, bClosed, clients>>
    /\ UNCHANGED lvars

-----------------------------------------------------------------------------
(* B: ListenStream, HandleStream, RouteMessage                             *)

\* StreamManager.AddStream appends the accepted stream to sm.clients.
AddStream(r) == clients' = clients \cup {r}

\* ListenStream: session.Accept() returns the oldest opened stream,
\* limiter.Wait() takes a token (blocking while there is none), then
\* SetDeadline, AddStream, UpdateSeen and `go HandleStream`.
Accept ==
    /\ upc[Srv] = "accept"
    /\ backlog # <<>>
    /\ L!Wait(Srv)
    /\ LET r == Head(backlog) IN
         /\ backlog' = Tail(backlog)
         /\ hs' = [hs EXCEPT ![r] = "read"]
         /\ AddStream(r)
    /\ UNCHANGED <<sess, rq, req, rep, bClosed>>
    /\ UNCHANGED <<tickBuf, tickerOn, closed, gpc, upc>>

\* ListenStream: once the session closed, Accept fails; Wait still takes
\* a token, the loop returns and the deferred limiter.Stop() begins.
AcceptFail ==
    /\ upc[Srv] = "accept"
    /\ sess = "closed"
    /\ L!Wait(Srv)
    /\ upc' = [upc EXCEPT ![Srv] = "stop"]
    /\ UNCHANGED svars
    /\ UNCHANGED <<tickBuf, tickerOn, closed, gpc>>

\* HandleStream reads the request and RouteMessage runs the handler, which
\* writes a reply or, on its error paths, returns without one; the
\* deferred msg.Client.Close() closes B's end.  The reply reaches A only
\* while A's end is open and the session lives.
HandleRead(r) ==
    /\ hs[r] = "read"
    /\ req[r]
    /\ req' = [req EXCEPT ![r] = FALSE]
    /\ \E replied \in BOOLEAN :
         rep' = [rep EXCEPT ![r] = replied /\ ~aClosed(r) /\ sess = "open"]
    /\ bClosed' = [bClosed EXCEPT ![r] = TRUE]
    /\ hs' = [hs EXCEPT ![r] = "reread"]
    /\ UNCHANGED <<sess, rq, backlog, clients>>
    /\ UNCHANGED lvars

\* With nothing buffered, HandleStream's ReadMessage fails (EOF once A
\* closed, the session's end, or B's deadline, which may pass at any
\* moment) and HandleStream returns: B's end is closed only if
\* RouteMessage ran.
HandleEnd(r) ==
    /\ hs[r] \in {"read", "reread"}
    /\ ~req[r]
    /\ hs' = [hs EXCEPT ![r] = "exit"]
    /\ UNCHANGED <<sess, rq, backlog, req, rep, bClosed, clients>>
    /\ UNCHANGED lvars

\* The connection is lost, or either node terminates the session.
Drop ==
    /\ sess = "open"
    /\ sess' = "closed"
    /\ UNCHANGED <<rq, backlog, hs, req, rep, bClosed, clients>>
    /\ UNCHANGED lvars

\* A step of the limiter's ticker, its refill goroutine or Stop.
LimiterStep ==
    /\ \/ L!Tick(Srv) \/ L!TickRecv(Srv) \/ L!SelectQuit(Srv)
       \/ L!SelectThrottle(Srv) \/ L!SelectDefault(Srv)
       \/ L!StopTicker(Srv) \/ L!StopClose(Srv)
    /\ UNCHANGED svars

Requester(r) == OpenStream(r) \/ WriteRequest(r) \/ ReadReply(r)

Handler(r) == HandleRead(r) \/ HandleEnd(r)

Next ==
    \/ \E r \in Reqs : Requester(r) \/ Handler(r)
    \/ Accept \/ AcceptFail \/ Drop \/ LimiterStep

\* Goroutines run when they can and deadlines pass; losing the connection is
\* a fault, never forced.
Fairness ==
    /\ \A r \in Reqs :
         /\ WF_vars(Requester(r)) /\ WF_vars(Handler(r))
    /\ WF_vars(Accept) /\ WF_vars(AcceptFail)
    /\ WF_vars(L!Tick(Srv) /\ UNCHANGED svars)
    /\ WF_vars(L!TickRecv(Srv) /\ UNCHANGED svars)
    /\ WF_vars((L!SelectQuit(Srv) \/ L!SelectThrottle(Srv)
                \/ L!SelectDefault(Srv)) /\ UNCHANGED svars)
    /\ WF_vars(L!StopTicker(Srv) /\ UNCHANGED svars)
    /\ WF_vars(L!StopClose(Srv) /\ UNCHANGED svars)

Spec == Init /\ [][Next]_vars /\ Fairness

-----------------------------------------------------------------------------
(* Properties                                                              *)

TypeOK ==
    /\ sess \in {"open", "closed"}
    /\ rq \in [Reqs -> {"idle", "open", "sent", "done"}]
    /\ hs \in [Reqs -> {"none", "backlog", "read", "reread", "exit"}]
    /\ backlog \in Seq(Reqs)
    /\ \A f \in {req, rep, bClosed} :
         f \in [Reqs -> BOOLEAN]
    /\ clients \subseteq Reqs
    /\ L!TypeOK

\* Every request ends: whether B replies, fails without a reply, never
\* reads the request, or the connection goes, A's read of the reply
\* returns, because StreamManager.OpenStream armed A's deadline.
RequestEnds ==
    \A r \in Reqs : rq[r] # "idle" ~> rq[r] = "done"

\* Rate limiting never starves ListenStream (Limiter's property, here with
\* the real accept loop feeding it).
WaitEventuallyReturns == L!WaitEventuallyReturns

\* Spec 8: a stream once used is released, both ends closed (or the
\* session gone), so the session's stream count returns to where it was.
StreamsReleased ==
    \A r \in Reqs :
        hs[r] # "none" ~> (aClosed(r) /\ bClosed[r]) \/ sess = "closed"

=============================================================================
