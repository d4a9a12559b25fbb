----------------------------- MODULE Handshake -----------------------------
(***************************************************************************)
(* Setting up one connection between two Zif nodes: the dialer C runs     *)
(* PeerManager.ConnectPeerDirect (Peer.Connect, StreamManager.OpenTCP,    *)
(* handleConnection and Handshake, then ConnectClient and SetPeer), the   *)
(* listener S runs Server.Listen and Server.Handshake (HandleHandshake:   *)
(* SetTCP, ConnectServer, SetPeer, Entry, DHT.Insert, then ListenStream).  *)
(* Afterwards each side's heartbeatPeer and ListenStream goroutines watch *)
(* the session.                                                           *)
(*                                                                         *)
(* SetPeer calls Peer.Entry, and on both sides p.entry is still nil, so   *)
(* it runs GetEntry: a yamux Ping and a Query for the other node's own    *)
(* address.  The other node answers that query only from a stream its     *)
(* ListenStream accepted, so each side's setup waits on the other's.      *)
(*                                                                         *)
(* The four message exchanges of the handshake itself (handshake,          *)
(* handshake_send, handshake_recieve) are not in the repository; they are *)
(* one step here that succeeds on an open connection.  The yamux session  *)
(* of the connection is open or closed for both ends at once.  Faults     *)
(* names what the network may do: "drop" ends the connection (or makes    *)
(* the dial fail), "slow" lets a Ping or Query on a live session outlast  *)
(* its timeout.                                                            *)
(***************************************************************************)
EXTENDS FiniteSets

CONSTANTS
    Faults      \* subset of {"drop", "slow"}

ASSUME Faults \subseteq {"drop", "slow"}

Sides == {"C", "S"}
Other(s) == IF s = "C" THEN "S" ELSE "C"

VARIABLES
    net,        \* the TCP connection and its session: "none", "open", "closed"
    pc,         \* pc[s]: where side s's setup goroutine is
    sess,       \* sess[s]: the StreamManager of s has its yamux session
    entry,      \* entry[s]: p.entry of the Peer that s holds for the other
    known,      \* known[s]: the other's entry was passed to s's DHT.Insert
    tracked,    \* tracked[s]: the other's address is a key of s's peers
    hb,         \* hb[s]: s's heartbeatPeer goroutine for this peer
    ls          \* ls[s]: s's ListenStream goroutine for this peer

vars == <<net, pc, sess, entry, known, tracked, hb, ls>>

Init ==
    /\ net = "none"
    /\ pc = [s \in Sides |-> IF s = "C" THEN "dial" ELSE "accept"]
    /\ sess = [s \in Sides |-> FALSE]
    /\ entry = [s \in Sides |-> FALSE]
    /\ known = [s \in Sides |-> FALSE]
    /\ tracked = [s \in Sides |-> FALSE]
    /\ hb = [s \in Sides |-> "none"]
    /\ ls = [s \in Sides |-> "none"]

\* The other side answers a Ping and a Query of its own address: its
\* session exists and its ListenStream accepts the stream.  HandleQuery
\* for the node's own address replies with its own entry, which passes
\* GetEntry's address check.
Answers(s) == net = "open" /\ sess[Other(s)] /\ ls[Other(s)] = "run"

\* Peer.Ping or the Query fails for certain: the session is closed (Ping
\* checks IsClosed, Accept and reads fail), or the other side stopped its
\* setup and will never answer before the 10 s deadline.
NoAnswer(s) == net = "closed" \/ pc[Other(s)] = "fail"

\* OpenTCP: net.Dial; handleConnection writes ProtoZif and ProtoVersion.
Dial ==
    /\ pc["C"] = "dial"
    /\ \/ net' = "open" /\ pc' = [pc EXCEPT !["C"] = "hs"]
       \/ "drop" \in Faults /\ pc' = [pc EXCEPT !["C"] = "fail"]
                            /\ UNCHANGED net
    /\ UNCHANGED <<sess, entry, known, tracked, hb, ls>>

\* Server.Listen reads the preamble; a read on a closed connection leaves
\* zif at 0, which is not ProtoZif, and the loop moves on.  Otherwise
\* `go s.Handshake(conn, ...)`.
Accept ==
    /\ pc["S"] = "accept" /\ net # "none"
    /\ pc' = [pc EXCEPT !["S"] = IF net = "open" THEN "hs" ELSE "fail"]
    /\ UNCHANGED <<net, sess, entry, known, tracked, hb, ls>>

\* A variant of the exchange after which HandleHandshake goes on without
\* ConnectServer.
ExchangeBadPc ==
    /\ pc["C"] = "hs" /\ pc["S"] = "hs" /\ net = "open"
    /\ pc' = [pc EXCEPT !["C"] = "client", !["S"] = "setpeer"]
    /\ known' = [known EXCEPT !["C"] = TRUE]
    /\ UNCHANGED <<net, sess, entry, tracked, hb, ls>>

\* The handshake exchange on an open connection: C sends its cap, S
\* replies ok and its own cap.  C's Connect then copies the server's
\* address (p.entry stays nil) and inserts its entry into the DHT.
Exchange ==
    /\ pc["C"] = "hs" /\ pc["S"] = "hs" /\ net = "open"
    /\ pc' = [pc EXCEPT !["C"] = "client", !["S"] = "server"]
    /\ known' = [known EXCEPT !["C"] = TRUE]
    /\ UNCHANGED <<net, sess, entry, tracked, hb, ls>>

\* On a closed connection a handshake read fails: for C, Handshake
\* returns a nil header, handleConnection an error and ConnectPeerDirect
\* PeerUnreachable; for S, Server.Handshake logs and returns.
ExchangeFail(s) ==
    /\ pc[s] = "hs" /\ net = "closed"
    /\ pc' = [pc EXCEPT ![s] = "fail"]
    /\ UNCHANGED <<net, sess, entry, known, tracked, hb, ls>>

\* A variant of ConnectClient that leaves out `go lp.ListenStream(p)`.
ConnectClientNoListen ==
    /\ pc["C"] = "client"
    /\ pc' = [pc EXCEPT !["C"] = "setpeer"]
    /\ sess' = [sess EXCEPT !["C"] = TRUE]
    /\ UNCHANGED <<net, entry, known, tracked, hb, ls>>

\* Peer.ConnectClient: StreamManager.ConnectClient (no session of either
\* role exists on a fresh Peer, so yamux.Client), then go ListenStream.
ConnectClient ==
    /\ pc["C"] = "client"
    /\ pc' = [pc EXCEPT !["C"] = "setpeer"]
    /\ sess' = [sess EXCEPT !["C"] = TRUE]
    /\ ls' = [ls EXCEPT !["C"] = "run"]
    /\ UNCHANGED <<net, entry, known, tracked, hb>>

\* HandleHandshake: SetTCP, then ConnectServer (yamux.Server).
ConnectServer ==
    /\ pc["S"] = "server"
    /\ pc' = [pc EXCEPT !["S"] = "setpeer"]
    /\ sess' = [sess EXCEPT !["S"] = TRUE]
    /\ UNCHANGED <<net, entry, known, tracked, hb, ls>>

\* Where each side goes once SetPeer returns.
AfterSetPeer(s) == IF s = "C" THEN "done" ELSE "entry"

\* SetPeer on a peer the map does not hold: p.Entry() runs GetEntry.  On
\* success the peer is stored and heartbeatPeer started (one peer, so the
\* eviction loop does not run); on failure SetPeer logs and returns.
SetPeer(s) ==
    /\ pc[s] = "setpeer"
    /\ pc' = [pc EXCEPT ![s] = AfterSetPeer(s)]
    /\ \/ /\ Answers(s)
          /\ entry' = [entry EXCEPT ![s] = TRUE]
          /\ tracked' = [tracked EXCEPT ![s] = TRUE]
          /\ hb' = [hb EXCEPT ![s] = "run"]
       \/ NoAnswer(s) /\ UNCHANGED <<entry, tracked, hb>>
    /\ UNCHANGED <<net, sess, known, ls>>

\* HandleHandshake's own `peer.Entry()`: the cached entry, or GetEntry
\* once more; then DHT.Insert.  On an error HandleHandshake returns it.
HandshakeEntry ==
    /\ pc["S"] = "entry"
    /\ \/ /\ entry["S"] \/ Answers("S")
          /\ entry' = [entry EXCEPT !["S"] = TRUE]
          /\ known' = [known EXCEPT !["S"] = TRUE]
          /\ pc' = [pc EXCEPT !["S"] = "listen"]
       \/ /\ ~entry["S"] /\ NoAnswer("S")
          /\ pc' = [pc EXCEPT !["S"] = "fail"]
          /\ UNCHANGED <<entry, known>>
    /\ UNCHANGED <<net, sess, tracked, hb, ls>>

\* GetEntry on a live session whose Ping or Query outlasts its timeout:
\* in SetPeer, which logs and returns, or in HandleHandshake, which
\* returns the error.
GetEntryLate(s) ==
    /\ "slow" \in Faults /\ net = "open"
    /\ \/ pc[s] = "setpeer" /\ pc' = [pc EXCEPT ![s] = AfterSetPeer(s)]
       \/ pc[s] = "entry" /\ ~entry[s] /\ pc' = [pc EXCEPT ![s] = "fail"]
    /\ UNCHANGED <<net, sess, entry, known, tracked, hb, ls>>

\* Server.Handshake after HandleHandshake: SetCapabilities,
\* SetNetworkPeer, go ListenStream.
StartListen ==
    /\ pc["S"] = "listen"
    /\ pc' = [pc EXCEPT !["S"] = "done"]
    /\ ls' = [ls EXCEPT !["S"] = "run"]
    /\ UNCHANGED <<net, sess, entry, known, tracked, hb>>

\* heartbeatPeer at a tick: the peer is gone from peers, so return; or the
\* Ping fails on the closed session, HandleCloseConnection, return.  The
\* deferred HandleCloseConnection runs in both cases.
Heartbeat(s) ==
    /\ hb[s] = "run"
    /\ ~tracked[s] \/ net = "closed"
    /\ hb' = [hb EXCEPT ![s] = "done"]
    /\ tracked' = [tracked EXCEPT ![s] = FALSE]
    /\ UNCHANGED <<net, pc, sess, entry, known, ls>>

\* heartbeatPeer at a tick: a Ping on the live session outlasts 30 s.
\* HandleCloseConnection removes the peer; nothing closes the session.
HeartbeatSlow(s) ==
    /\ hb[s] = "run" /\ tracked[s] /\ net = "open" /\ "slow" \in Faults
    /\ hb' = [hb EXCEPT ![s] = "done"]
    /\ tracked' = [tracked EXCEPT ![s] = FALSE]
    /\ UNCHANGED <<net, pc, sess, entry, known, ls>>

\* A variant of ListenStream that goes on accepting after an error.
ListenStreamClosedNoExit(s) ==
    /\ ls[s] = "run" /\ net = "closed"
    /\ tracked' = [tracked EXCEPT ![s] = FALSE]
    /\ UNCHANGED <<net, pc, sess, entry, known, hb, ls>>

\* ListenStream: Accept fails on the closed session, so return; the
\* deferred HandleCloseConnection(peer.Address()) removes the peer, and the
\* goroutine enters its other deferred call, limiter.Stop, which may block
\* for ever (module Limiter) but no longer serves the peer ("stop").
ListenStreamClosed(s) ==
    /\ ls[s] = "run" /\ net = "closed"
    /\ ls' = [ls EXCEPT ![s] = "stop"]
    /\ tracked' = [tracked EXCEPT ![s] = FALSE]
    /\ UNCHANGED <<net, pc, sess, entry, known, hb>>

\* The network or the remote process ends the connection.
Drop ==
    /\ "drop" \in Faults /\ net = "open"
    /\ net' = "closed"
    /\ UNCHANGED <<pc, sess, entry, known, tracked, hb, ls>>

\* The steps each node's goroutines take by themselves.
Step(s) ==
    \/ ExchangeFail(s) \/ SetPeer(s) \/ Heartbeat(s) \/ ListenStreamClosed(s)
    \/ s = "C" /\ (Dial \/ ConnectClient)
    \/ s = "S" /\ (Accept \/ ConnectServer \/ HandshakeEntry \/ StartListen)

Next ==
    \/ Exchange \/ Drop
    \/ \E s \in Sides : Step(s) \/ GetEntryLate(s) \/ HeartbeatSlow(s)

\* The runtime schedules every runnable goroutine.  What the network does
\* (a drop, an answer later than its timeout) is not bound to happen.
Fairness == WF_vars(Exchange) /\ \A s \in Sides : WF_vars(Step(s))

Spec == Init /\ [][Next]_vars /\ Fairness

-----------------------------------------------------------------------------
(* Properties                                                              *)

\* The shapes of the state; a heartbeat or a ListenStream only ever runs
\* on a Peer whose StreamManager has its yamux session.
TypeOK ==
    /\ net \in {"none", "open", "closed"}
    /\ pc["C"] \in {"dial", "hs", "client", "setpeer", "done", "fail"}
    /\ pc["S"] \in {"accept", "hs", "server", "setpeer", "entry", "listen",
                    "done", "fail"}
    /\ \A s \in Sides :
          /\ sess[s] \in BOOLEAN /\ entry[s] \in BOOLEAN
          /\ known[s] \in BOOLEAN /\ tracked[s] \in BOOLEAN
          /\ hb[s] \in {"none", "run", "done"} /\ ls[s] \in {"none", "run", "stop"}
          /\ (hb[s] # "none" \/ ls[s] # "none") => sess[s]

\* Both setups end, unless the dial failed and Listen never saw the
\* connection: neither SetPeer waits for ever on the other (C starts its
\* ListenStream before its SetPeer, S answers C once its own GetEntry is
\* through), whatever the network does.
SetupEnds ==
    <>(pc["C"] \in {"done", "fail"} /\ (pc["S"] \in {"done", "fail"} \/ net = "none"))

\* Once the connection is closed, both nodes eventually forget it: the
\* peer leaves peers, its heartbeat has returned and its ListenStream has
\* stopped accepting and serving (it may stay blocked in limiter.Stop, which
\* the Limiter module checks), whatever step of the setup each side was at.
ClosedConnectionForgotten ==
    net = "closed" ~>
        \A s \in Sides : ~tracked[s] /\ hb[s] # "run" /\ ls[s] # "run"

\* Spec 4.7 and 8.4: a node serving a live connection whose setup has
\* finished (its ListenStream runs) holds that peer in peers; a heartbeat
\* failure removes and closes the peer.
ServedPeersTracked ==
    \A s \in Sides :
        (net = "open" /\ ls[s] = "run" /\ pc[s] = "done") => tracked[s]

=============================================================================
