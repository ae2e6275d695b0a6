---------------------------- MODULE SocketShared ----------------------------
(***************************************************************************)
(* The state that the connect chain and the client of one rude::Socket     *)
(* have in common: the timeout setTimeout() stored, which both push down   *)
(* to the objects they own, and the destruction of the Socket.             *)
(***************************************************************************)
EXTENDS Naturals

CONSTANT Timeouts   \* the values setTimeout() is called with; 0 is "no timeout"

ASSUME TimeoutsAssumption == 0 \in Timeouts

VARIABLES
  timeout,   \* Socket_TCPClient::timeoutsecs/timeoutmilli
  gone       \* the Socket was destroyed
=============================================================================
