-------------------------- MODULE MCWebSocketServer --------------------------
(* Values for checking WebSocketServer by itself. *)
EXTENDS WebSocketServer

MCFd == 3 .. 4
=============================================================================
