--------------------------- MODULE TlsConnection ---------------------------
(***************************************************************************)
(* One Socket with a timeout and a TLS connection, as Socket_TCPClient     *)
(* puts it together: TimedConnect opens the descriptor, TlsStream binds    *)
(* to it, and both change its mode.  close() ends it, and the Socket is    *)
(* used again.                                                             *)
(***************************************************************************)
EXTENDS TimedConnect, TlsStream

timerVars == <<tmo, nonblock, left>>
vars      == <<timerVars, connectVars, tlsVars>>

Init ==
  /\ tmo \in TimeoutArgs /\ nonblock = FALSE /\ left = 0
  /\ ConnectInit /\ TlsInit

AtRest    == cpc = "idle" /\ tpc = "idle"
Connected == cpc = "idle" /\ fdOpen

(* setTimeout(), between two calls.                                        *)
SetTimeout ==
  /\ AtRest
  /\ tmo' \in TimeoutArgs
  /\ UNCHANGED <<nonblock, left, connectVars, tlsVars>>

(* connectSSL(): the connect, then the bind.                               *)
Connecting ==
  /\ \/ AtRest /\ OpenSocket
     \/ ConnectStep
     \/ ConnectInterrupted
     \/ NetworkAnswers
  /\ UNCHANGED tlsVars

Calling ==
  /\ Connected
  /\ \/ op = "none" /\ BindBegins
     \/ op = "none" /\ BindCannotBegin
     \/ ReadBegins
     \/ SendBegins
     \/ FinishBegins
     \/ TlsStep
     \/ TlsOutside
  /\ UNCHANGED connectVars

(* close(): the comm is gone, with its SSL object if it got one, and so is *)
(* the descriptor.                                                         *)
CloseConnection ==
  /\ Connected
  /\ ShutdownReturns \/ (tpc = "idle" /\ hs = "null" /\ op = "bind")
  /\ op' = "none" /\ tpc' = "idle" /\ want' = "none" /\ result' = "none"
  /\ d_restore' = FALSE /\ d_oldflags' = FALSE /\ modeLost' = FALSE
  /\ hs' = "null" /\ pend' = 0 /\ wleft' = 0 /\ same' = TRUE /\ unacked' = 0
  /\ inq' = <<>> /\ outq' = 0 /\ link' = "open"
  /\ sock' = "0" /\ fdOpen' = FALSE /\ nonblock' = FALSE /\ syn' = "none"
  /\ UNCHANGED <<tmo, left, cpc, errno, value, cerror, outcome, cause>>

Tick == Clock /\ UNCHANGED <<tmo, nonblock, connectVars, tlsVars>>

Next ==
  \/ SetTimeout
  \/ Connecting
  \/ Calling
  \/ CloseConnection
  \/ Tick

(* The program goes on with a call it is in, and time passes.  The         *)
(* resolver answers, one way or the other.  The network, the peer, signals *)
(* and the caller owe nothing.                                             *)
ConnectGoesOn == ConnectStep /\ UNCHANGED tlsVars
TlsGoesOn     == Connected /\ TlsStep /\ UNCHANGED connectVars
CloseGoesOn   == tpc = "shutdown" /\ CloseConnection

Spec ==
  /\ Init /\ [][Next]_vars
  /\ WF_vars(ConnectGoesOn)
  /\ WF_vars(TlsGoesOn)
  /\ WF_vars(CloseGoesOn)
  /\ WF_vars(Tick)
-----------------------------------------------------------------------------
(* Every variable keeps its type; the timer stays within its bound.        *)
TypeOK ==
  /\ tmo \in TimeoutArgs /\ nonblock \in BOOLEAN /\ left \in 0..Ticks
  /\ ConnectTypeOK /\ TlsTypeOK

(* However simpleConnect() ends, what it hands back is consistent: after   *)
(* success a connected descriptor in blocking mode, in the caller's        *)
(* socket; after failure no descriptor, open or named.                     *)
HandsOver ==
  [][ /\ outcome # "ok" /\ outcome' = "ok"
         => sock' = "fd" /\ fdOpen' /\ syn' = "up" /\ ~nonblock'
      /\ outcome # "fail" /\ outcome' = "fail" => sock' = "0" /\ ~fdOpen' ]_vars

(* getError() names the first call that failed, the timeout or the errno   *)
(* that stopped the connect, whatever fcntl(), close() and connect() in    *)
(* progress did to errno since.  There are two exceptions: the code does   *)
(* not look at the -1 of socket() ("EMFILE") and reports a later failure,  *)
(* and an fcntl() that cannot put the mode back ("EIO") replaces what was  *)
(* found out before.                                                       *)
ErrorNamesCause ==
  outcome = "fail" => cerror = cause \/ cause = "EMFILE" \/ cerror = "EIO"

(* A connect() with a timeout of at least a millisecond that fits an int   *)
(* comes back, though the network never answers.                           *)
WholeMilliseconds == tmo.secs * MsPerSec + (tmo.usecs \div UsPerMs)

ConnectTimeoutHonoured ==
  (cpc # "idle" /\ WholeMilliseconds \in 1..(IntHalf - 1)) ~> cpc = "idle"

(* Between calls the descriptor is in blocking mode, after a timeout, a    *)
(* failed handshake or a signal too, unless fcntl() refused to put it back.*)
ModeRestored == AtRest /\ ~modeLost => ~nonblock

(* A read does not time out while OpenSSL holds decrypted bytes for it,    *)
(* which select() cannot see.                                              *)
NoTimeoutOverPending == tpc = "idle" /\ op = "read" /\ result = "timeout" => pend = 0

(* A read that returns 0 is the end of the data: the peer has closed, and  *)
(* nothing it sent before is left, in OpenSSL or in the kernel.            *)
EofIsReal ==
  tpc = "idle" /\ op = "read" /\ result = "eof"
    => link # "open" /\ pend = 0 /\ ~Arrived("data")

(* Over any sequence of sends, timed out, failed or repeated, what left    *)
(* for the peer is what the sends that returned a count counted, and the   *)
(* begun part of the one message OpenSSL still has.                        *)
SendsAccounted == unacked = IF wleft > 0 THEN MsgUnits - wleft ELSE 0

(* A handshake, read or send with a timeout comes back, whatever dribbles  *)
(* in from the peer, if the descriptor could be made non-blocking; and     *)
(* every call, close() included, comes back from a connection that was     *)
(* reset.                                                                  *)
TlsCallsReturn == ((HasTimeout /\ d_restore) \/ link = "reset") ~> tpc = "idle"
=============================================================================
