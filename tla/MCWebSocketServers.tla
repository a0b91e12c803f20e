------------------------- MODULE MCWebSocketServers -------------------------
(* TLC instances of WebSocketServers. *)
EXTENDS WebSocketServers
=============================================================================
