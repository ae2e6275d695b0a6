-------------------------- MODULE MCTlsConnection --------------------------
(* The timed TLS connection for TLC: no timeout, one below a millisecond,  *)
(* one of milliseconds, and one whose milliseconds overflow an int.        *)
EXTENDS TlsConnection

MCTimeoutArgs == {[secs |-> 0, usecs |-> 0], [secs |-> 0, usecs |-> 1],
                  [secs |-> 0, usecs |-> 3], [secs |-> 16, usecs |-> 0]}
=============================================================================
