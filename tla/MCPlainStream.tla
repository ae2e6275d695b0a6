--------------------------- MODULE MCPlainStream ---------------------------
(* The data calls for TLC.                                                 *)
EXTENDS PlainStream
=============================================================================
