---------------------------- MODULE MCWebSocket -----------------------------
(* WebSocket on small instances; the .cfg files give the constants.        *)
EXTENDS WebSocket
=============================================================================
