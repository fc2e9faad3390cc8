---------------------------- MODULE MCWebSocket ----------------------------
(* WebSocket for TLC: two topics whose state changes back and forth. *)
EXTENDS WebSocket

MCTopics == {"chain", "mempool"}
MCValues == {"old", "new"}
=============================================================================
