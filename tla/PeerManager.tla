---------------------------- MODULE PeerManager ----------------------------
(***************************************************************************)
(* The PeerManager's map of connected peers (package zif, PeerManager:    *)
(* SetPeer, HandleCloseConnection, heartbeatPeer) and the goroutines that *)
(* act on it for each connection: the SetPeer call itself, the heartbeat  *)
(* loop, and Server.ListenStream with its deferred HandleCloseConnection. *)
(*                                                                         *)
(* A connection (a Peer with its yamux session) is a slot of Conns with   *)
(* the remote address it handshook as.  The cmap operations are atomic;   *)
(* the compound steps of the code are not, so each goroutine moves        *)
(* through the steps below and the steps of different goroutines          *)
(* interleave.  The code only ever compares peerSeen stamps with each     *)
(* other and with time.Now(), which is later than all of them, so a stamp *)
(* is kept as its rank among the current stamps.                          *)
(*                                                                         *)
(* Not modelled here: publicToZif (only a hint in front of GetPeer), the  *)
(* seed managers (HandleCloseConnection's send on their Close channel),   *)
(* the announce loop, whose only effect on this state is UpdateSeen       *)
(* (the Seen action), and the limiter in ListenStream (module Limiter).   *)
(***************************************************************************)
EXTENDS Naturals, FiniteSets

CONSTANTS
    Nodes,      \* remote Zif addresses
    Conns,      \* connection slots (reused once their Peer is finished)
    MaxPeers    \* net.maxPeers

VARIABLES
    st,         \* st[c]: "free", "open" (session live), "closed"
    caddr,      \* caddr[c]: the address connection c handshook as
    sp,         \* sp[c]: progress of SetPeer for c
    hb,         \* hb[c]: heartbeatPeer goroutine of c
    ls,         \* ls[c]: ListenStream goroutine of c
    peers,      \* PeerManager.peers: address -> connection
    peerSeen,   \* PeerManager.peerSeen: address -> rank of its time
    victim      \* victim[c]: the address c's SetPeer is evicting

vars == <<st, caddr, sp, hb, ls, peers, peerSeen, victim>>

\* Functions with a finite domain, updated the way cmap Set/Remove do.
SetKey(f, k, v) == [x \in DOMAIN f \cup {k} |-> IF x = k THEN v ELSE f[x]]
RemoveKey(f, k) == [x \in DOMAIN f \ {k} |-> f[x]]

\* Stamps replaced by their ranks.
Ranked(f) == [x \in DOMAIN f |-> Cardinality({y \in DOMAIN f : f[y] < f[x]})]

\* peerSeen.Set(addr, time.Now().UnixNano()): a stamp later than all others.
Stamp(f, k) == Ranked(SetKey(f, k, Cardinality(DOMAIN f) + 1))

\* The updateSeen hook exists once SetPeer got past its Has check.
Hooked(c) == sp[c] \in {"stamp", "evict", "scan", "evictSeen", "done"}

\* A variant of HandleCloseConnection that forgets peers.Remove.
HandleCloseConnectionNoRemove(a) == peers' = peers

\* HandleCloseConnection(addr), first statement: peers.Remove(addr),
\* whichever connection the entry belongs to.
HandleCloseConnection(a) == peers' = RemoveKey(peers, a)

\* HandleCloseConnection(addr), second statement: peerSeen.Remove(addr).
\* It is a separate cmap call, so another goroutine's SetPeer can run
\* between the two.
HandleCloseSeen(a) == peerSeen' = Ranked(RemoveKey(peerSeen, a))

Init ==
    /\ st = [c \in Conns |-> "free"]
    /\ caddr = [c \in Conns |-> CHOOSE n \in Nodes : TRUE]
    /\ sp = [c \in Conns |-> "none"]
    /\ hb = [c \in Conns |-> "none"]
    /\ ls = [c \in Conns |-> "none"]
    /\ peers = [n \in {} |-> CHOOSE c \in Conns : TRUE]
    /\ peerSeen = [n \in {} |-> 0]
    /\ victim = [c \in Conns |-> CHOOSE n \in Nodes : TRUE]

\* A slot whose Peer is finished: session closed, no goroutine left.
Finished(c) ==
    /\ st[c] = "closed"
    /\ sp[c] \in {"dup", "done"}
    /\ hb[c] \in {"none", "done"}
    /\ ls[c] = "done"

\* A variant of Connect that reuses any closed slot, even one whose
\* goroutines still run.
ConnectAnySlot(c, n) ==
    /\ st[c] # "open"
    /\ st' = [st EXCEPT ![c] = "open"]
    /\ caddr' = [caddr EXCEPT ![c] = n]
    /\ sp' = [sp EXCEPT ![c] = "check"]
    /\ hb' = [hb EXCEPT ![c] = "none"]
    /\ \/ /\ n \notin DOMAIN peers
          /\ ls' = [ls EXCEPT ![c] = "run"]
       \/ ls' = [ls EXCEPT ![c] = "wait"]
    /\ UNCHANGED <<peers, peerSeen, victim>>

\* An outbound connection (ConnectPeerDirect: Connect, then ConnectClient,
\* which starts ListenStream, then SetPeer), or an inbound one
\* (Server.Handshake: HandleHandshake runs SetPeer, ListenStream starts
\* after it returns).  ConnectPeerDirect first returns an existing peer it
\* finds through publicToZif and GetPeer; HandleHandshake has no such check.
\* The connection takes a free slot or that of a finished Peer.
Connect(c, n) ==
    /\ st[c] = "free" \/ Finished(c)
    /\ st' = [st EXCEPT ![c] = "open"]
    /\ caddr' = [caddr EXCEPT ![c] = n]
    /\ sp' = [sp EXCEPT ![c] = "check"]
    /\ hb' = [hb EXCEPT ![c] = "none"]
    /\ \/ /\ n \notin DOMAIN peers
          /\ ls' = [ls EXCEPT ![c] = "run"]
       \/ ls' = [ls EXCEPT ![c] = "wait"]
    /\ UNCHANGED <<peers, peerSeen, victim>>

\* SetPeer, first step: `if pm.peers.Has(...) { return }`.
SetPeerCheck(c) ==
    /\ sp[c] = "check"
    /\ IF caddr[c] \in DOMAIN peers
       THEN /\ sp' = [sp EXCEPT ![c] = "dup"]
            /\ ls' = [ls EXCEPT ![c] = IF @ = "wait" THEN "run" ELSE @]
       ELSE /\ sp' = [sp EXCEPT ![c] = "set"]
            /\ UNCHANGED ls
    /\ UNCHANGED <<st, caddr, hb, peers, peerSeen, victim>>

\* SetPeer: publicToZif.Set, the hooks, then peers.Set.
SetPeerSet(c) ==
    /\ sp[c] = "set"
    /\ sp' = [sp EXCEPT ![c] = "stamp"]
    /\ peers' = SetKey(peers, caddr[c], c)
    /\ UNCHANGED <<st, caddr, hb, ls, peerSeen, victim>>

\* SetPeer, the next statement: peerSeen.Set(addr, now).
SetPeerStamp(c) ==
    /\ sp[c] = "stamp"
    /\ sp' = [sp EXCEPT ![c] = "evict"]
    /\ peerSeen' = Stamp(peerSeen, caddr[c])
    /\ UNCHANGED <<st, caddr, hb, ls, peers, victim>>

\* SetPeer's loop ends: `go heartbeatPeer(p)`, `go announcePeer(p)`, and
\* for an inbound connection Server.Handshake starts ListenStream.
SetPeerReturn(c) ==
    /\ sp' = [sp EXCEPT ![c] = "done"]
    /\ hb' = [hb EXCEPT ![c] = "run"]
    /\ ls' = [ls EXCEPT ![c] = IF @ = "wait" THEN "run" ELSE @]

\* SetPeer's loop condition `pm.peers.Count() > maxPeers`.
SetPeerLoop(c) ==
    /\ sp[c] = "evict"
    /\ IF Cardinality(DOMAIN peers) > MaxPeers
       THEN /\ sp' = [sp EXCEPT ![c] = "scan"]
            /\ UNCHANGED <<hb, ls>>
       ELSE SetPeerReturn(c)
    /\ UNCHANGED <<st, caddr, peers, peerSeen, victim>>

\* The loop body.  The scan over peerSeen compares each stamp with now but
\* never lowers oldestValue, so oldestKey is the last key the (unordered)
\* iteration yields: any key, or "" when peerSeen has emptied since the
\* loop condition.  A key with no peer ("", or a stamp UpdateSeen left after
\* removal) breaks the loop; otherwise Terminate and the first statement
\* of HandleCloseConnection.
SetPeerEvict(c) ==
    /\ sp[c] = "scan"
    /\ \/ \E v \in DOMAIN peerSeen \cap DOMAIN peers :
             /\ st' = [st EXCEPT ![peers[v]] = "closed"]
             /\ HandleCloseConnection(v)
             /\ sp' = [sp EXCEPT ![c] = "evictSeen"]
             /\ victim' = [victim EXCEPT ![c] = v]
             /\ UNCHANGED <<hb, ls>>
       \/ /\ DOMAIN peerSeen = {} \/ DOMAIN peerSeen \ DOMAIN peers # {}
          /\ SetPeerReturn(c)
          /\ UNCHANGED <<st, peers, victim>>
    /\ UNCHANGED <<caddr, peerSeen>>

\* The eviction's HandleCloseConnection removes the victim's stamp; the
\* loop goes round again.
SetPeerEvictSeen(c) ==
    /\ sp[c] = "evictSeen"
    /\ HandleCloseSeen(victim[c])
    /\ sp' = [sp EXCEPT ![c] = "evict"]
    /\ victim' = [victim EXCEPT ![c] = CHOOSE n \in Nodes : TRUE]
    /\ UNCHANGED <<st, caddr, hb, ls, peers>>

\* A variant of the heartbeat's removal check with the test inverted
\* (`if has { return }`).
HeartbeatGoneInverted(c) ==
    /\ hb[c] = "run"
    /\ caddr[c] \in DOMAIN peers
    /\ hb' = [hb EXCEPT ![c] = "defer"]
    /\ UNCHANGED <<st, caddr, sp, ls, peers, peerSeen, victim>>

\* heartbeatPeer, at a tick: the peer's address is no longer in peers, so
\* the goroutine returns (its deferred HandleCloseConnection runs next).
HeartbeatGone(c) ==
    /\ hb[c] = "run"
    /\ caddr[c] \notin DOMAIN peers
    /\ hb' = [hb EXCEPT ![c] = "defer"]
    /\ UNCHANGED <<st, caddr, sp, ls, peers, peerSeen, victim>>

\* heartbeatPeer, at a tick: the address is in peers (under whichever
\* connection) and Ping fails, because the session is closed or because a
\* live session did not answer within 30 s.  HandleCloseConnection, whose
\* peerSeen.Remove is the step HeartbeatSeen; then return.
HeartbeatFail(c) ==
    /\ hb[c] = "run"
    /\ caddr[c] \in DOMAIN peers
    /\ hb' = [hb EXCEPT ![c] = "failSeen"]
    /\ HandleCloseConnection(caddr[c])
    /\ UNCHANGED <<st, caddr, sp, ls, peerSeen, victim>>

HeartbeatClosed(c) == st[c] = "closed" /\ HeartbeatFail(c)

\* heartbeatPeer's `defer pm.HandleCloseConnection(p.Address())`.
HeartbeatDefer(c) ==
    /\ hb[c] = "defer"
    /\ hb' = [hb EXCEPT ![c] = "deferSeen"]
    /\ HandleCloseConnection(caddr[c])
    /\ UNCHANGED <<st, caddr, sp, ls, peerSeen, victim>>

\* The peerSeen.Remove of either HandleCloseConnection of the heartbeat:
\* after the failed ping the goroutine returns into its deferred call,
\* after the deferred call it is gone.
HeartbeatSeen(c) ==
    /\ hb[c] \in {"failSeen", "deferSeen"}
    /\ hb' = [hb EXCEPT ![c] = IF @ = "failSeen" THEN "defer" ELSE "done"]
    /\ HandleCloseSeen(caddr[c])
    /\ UNCHANGED <<st, caddr, sp, ls, peers, victim>>

\* A stream accepted by ListenStream, or opened by Peer.OpenStream (the
\* announce loop, requests): UpdateSeen, if SetPeer installed the hook.
Seen(c) ==
    /\ st[c] = "open"
    /\ Hooked(c)
    /\ ls[c] = "run"
    /\ peerSeen' = Stamp(peerSeen, caddr[c])
    /\ UNCHANGED <<st, caddr, sp, hb, ls, peers, victim>>

\* ListenStream: session.Accept fails on a closed session; return, and the
\* deferred HandleCloseConnection(peer.Address()) runs.
ListenStreamClosed(c) ==
    /\ ls[c] = "run"
    /\ st[c] = "closed"
    /\ ls' = [ls EXCEPT ![c] = "closeSeen"]
    /\ HandleCloseConnection(caddr[c])
    /\ UNCHANGED <<st, caddr, sp, hb, peerSeen, victim>>

\* The deferred call's peerSeen.Remove; the goroutine then runs its other
\* deferred call, limiter.Stop (module Limiter), and no longer acts on
\* this state.
ListenStreamSeen(c) ==
    /\ ls[c] = "closeSeen"
    /\ ls' = [ls EXCEPT ![c] = "done"]
    /\ HandleCloseSeen(caddr[c])
    /\ UNCHANGED <<st, caddr, sp, hb, peers, victim>>

\* The remote side or the network ends the session.
Drop(c) ==
    /\ st[c] = "open"
    /\ st' = [st EXCEPT ![c] = "closed"]
    /\ UNCHANGED <<caddr, sp, hb, ls, peers, peerSeen, victim>>

\* The goroutine steps the runtime schedules by itself.
Goroutine(c) ==
    \/ SetPeerCheck(c) \/ SetPeerSet(c) \/ SetPeerStamp(c)
    \/ SetPeerLoop(c) \/ SetPeerEvict(c) \/ SetPeerEvictSeen(c)
    \/ HeartbeatGone(c) \/ HeartbeatClosed(c) \/ HeartbeatDefer(c)
    \/ HeartbeatSeen(c) \/ ListenStreamClosed(c) \/ ListenStreamSeen(c)

Next ==
    \E c \in Conns :
        \/ \E n \in Nodes : Connect(c, n)
        \/ Goroutine(c) \/ HeartbeatFail(c) \/ Seen(c) \/ Drop(c)

Fairness == \A c \in Conns : WF_vars(Goroutine(c))

Spec == Init /\ [][Next]_vars /\ Fairness

-----------------------------------------------------------------------------
(* Properties                                                              *)

\* The shapes of the state; in particular every entry of peers is keyed by
\* the address its own connection handshook as, so a Peer's slot is never
\* reused while an entry still names it.  (An address in peers need not
\* have a stamp: a close's peers.Remove, a SetPeer's peers.Set and
\* peerSeen.Set, then the close's peerSeen.Remove leave it without one.)
TypeOK ==
    /\ st \in [Conns -> {"free", "open", "closed"}]
    /\ caddr \in [Conns -> Nodes]
    /\ victim \in [Conns -> Nodes]
    /\ sp \in [Conns -> {"none", "check", "dup", "set", "stamp", "evict",
                           "scan", "evictSeen", "done"}]
    /\ hb \in [Conns -> {"none", "run", "failSeen", "defer", "deferSeen",
                           "done"}]
    /\ ls \in [Conns -> {"none", "wait", "run", "closeSeen", "done"}]
    /\ DOMAIN peers \subseteq Nodes
    /\ \A n \in DOMAIN peers : peers[n] \in Conns /\ caddr[peers[n]] = n
    /\ DOMAIN peerSeen \subseteq Nodes
    /\ \A n \in DOMAIN peerSeen : peerSeen[n] \in 0 .. (Cardinality(Nodes) - 1)

Tracked(c) == caddr[c] \in DOMAIN peers /\ peers[caddr[c]] = c

\* Every connection in peers still has a heartbeat goroutine that has not
\* returned (or is about to be started by its SetPeer): heartbeatPeer only
\* returns after the address left peers, and a connection enters peers only
\* through its own SetPeer, which starts the heartbeat.
TrackedPeersMonitored ==
    \A c \in Conns : Tracked(c) => hb[c] \in {"none", "run"}

\* Connections stop arriving from some point on.  Without it a SetPeer can
\* loop forever: each new connection pushes the count over maxPeers again
\* and the looping SetPeer evicts it.
ConnectsStop ==
    ~[]<><<\E c \in Conns, n \in Nodes : Connect(c, n)>>_vars

\* A connection in peers whose session has closed (Terminate, Drop, a
\* failed ping) is eventually removed from peers by its heartbeat or by its
\* ListenStream's deferred HandleCloseConnection, once connections stop
\* arriving.
ClosedPeersEventuallyDropped ==
    ConnectsStop =>
        \A c \in Conns : (Tracked(c) /\ st[c] = "closed") ~> ~Tracked(c)

\* Spec 3 (scenario "LRU eviction") and SetPeer's comment: the peer SetPeer
\* evicts is the least recently seen one.  An eviction is the one step that
\* both closes a tracked peer's session and removes it from peers.
EvictsLeastRecentlySeen ==
    [][\A v \in DOMAIN peers \cap DOMAIN peerSeen :
          (st[peers[v]] = "open" /\ st'[peers[v]] = "closed"
             /\ v \notin DOMAIN peers')
          => \A u \in DOMAIN peers \cap DOMAIN peerSeen :
                peerSeen[v] <= peerSeen[u]]_vars

\* Spec 5: |peers| <= max_peers is eventual: whatever races occur, once
\* connections stop arriving the map eventually stays within net.maxPeers.
PeersEventuallyBounded ==
    ConnectsStop => <>[](Cardinality(DOMAIN peers) <= MaxPeers)

\* Spec 8.4: the address of every live peer, one whose session is open and
\* whose SetPeer registered it, is a key of peers.
LivePeersTracked ==
    \A c \in Conns :
        (st[c] = "open" /\ sp[c] = "done") => caddr[c] \in DOMAIN peers

=============================================================================
