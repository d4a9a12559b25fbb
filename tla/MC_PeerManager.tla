--------------------------- MODULE MC_PeerManager ---------------------------
(* Model-checking instance of PeerManager.  The cfgs give two or three     *)
(* connection slots between as many remote nodes, so that a node can      *)
(* reconnect while its old connection's goroutines still run, and          *)
(* net.maxPeers = 1 so that a second peer already triggers eviction.  No   *)
(* symmetry is declared: the runs check liveness, which symmetry would     *)
(* make unsound.                                                           *)
EXTENDS PeerManager, TLC
=============================================================================
