---------------------------- MODULE MCRudeSocket ----------------------------
(* The whole Socket for TLC.                                               *)
EXTENDS RudeSocket

CONSTANTS h1, h2
=============================================================================
