-------------------------- MODULE MCProxyHandshake --------------------------
(* The exchanges with a proxy for TLC.  Of the two inputs the first has a  *)
(* port of two different bytes and no password, the second lengths that    *)
(* are negative as a char.                                                 *)
EXTENDS ProxyHandshake

MCGivens == {[name |-> 1, port |-> 10, user |-> 2, pass |-> 0],
             [name |-> 5, port |-> 63, user |-> 4, pass |-> 7]}
=============================================================================
