----------------------------- MODULE MCWebSocket -----------------------------
(* One stream used as its documentation allows. *)
EXTENDS WebSocket
=============================================================================
