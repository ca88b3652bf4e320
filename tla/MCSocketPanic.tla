---------------------------- MODULE MCSocketPanic ----------------------------
(* One websocket session with one request.                                   *)
EXTENDS WsRelay

CONSTANT s1

OneSession == [r \in RelayRequests |-> s1]
=============================================================================
