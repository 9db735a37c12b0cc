--------------------------- MODULE MCWsConnection ---------------------------
(* One thread that sends twice, and up to two messages of the peer.       *)
EXTENDS WsConnection
=============================================================================
