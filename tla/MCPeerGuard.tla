---------------------------- MODULE MCPeerGuard ----------------------------
(* PeerGuard for TLC: one peer and two loops; a unit of time is half a     *)
(* recovery window, a sixth of a ban.                                      *)
EXTENDS PeerGuard
=============================================================================
