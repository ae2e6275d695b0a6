---------------------------- MODULE MCTcpClient ----------------------------
(* The client for TLC.                                                     *)
EXTENDS ClientSession

CONSTANT h1
=============================================================================
