---------------------------- MODULE MC_Handshake ----------------------------
(* Model-checking instance of Handshake.  There is one connection, so the  *)
(* cfgs only choose what the network may do: MC_Handshake.cfg lets it drop *)
(* the connection at any point and let any Ping or Query time out, which  *)
(* reaches every step of both setups and every way they can end.          *)
EXTENDS Handshake, TLC
=============================================================================
