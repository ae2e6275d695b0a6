--------------------------- MODULE MCConnectChain ---------------------------
(* The connect chain for TLC.                                              *)
EXTENDS ConnectChain
=============================================================================
