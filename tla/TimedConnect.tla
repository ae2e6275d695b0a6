---------------------------- MODULE TimedConnect ----------------------------
(***************************************************************************)
(* The simpleConnect of Socket_Connect_Normal, from socket() to its        *)
(* return, with connecttimeout taken apart: the descriptor is made         *)
(* non-blocking, connect() is issued, select() waits for its end or for    *)
(* the timeout, SO_ERROR says how it ended, the mode is put back, and the  *)
(* error is read from errno, which every call in between may overwrite.    *)
(*                                                                         *)
(* Descriptor 0 is taken (TcpClient has the case where it is free), and a  *)
(* port and a server were given.                                           *)
(***************************************************************************)
EXTENDS TimedDescriptor

CONSTANTS
  IntHalf,    \* 2^31: an int runs from -IntHalf to IntHalf - 1
  MsPerSec,   \* 1000
  UsPerMs     \* 1000

ASSUME ArithmeticConstants ==
  /\ IntHalf \in Nat \ {0}
  /\ MsPerSec \in Nat \ {0} /\ UsPerMs \in Nat \ {0}

VARIABLES
  cpc,       \* where simpleConnect is
  sock,      \* its SOCKET &: "0", "-1" or the descriptor, "fd"
  fdOpen,    \* the descriptor is open
  syn,       \* how far the kernel is with the connection
  errno,
  value,     \* what connecttimeout, or connect(), returns
  cerror,    \* the error that was set, or "none"
  outcome,   \* what simpleConnect returned
  cause      \* a history of it: the first of its calls that failed, or "none"

connectVars == <<cpc, sock, fdOpen, syn, errno, value, cerror, outcome, cause>>

Errnos == {"0", "EMFILE", "EBADF", "EINPROGRESS", "ENETUNREACH", "ECONNREFUSED",
           "EINTR", "EINVAL", "EIO", "ENOBUFS"}

(* Two's complement, which is what the builds do on overflow.              *)
Wrap(n) == ((n + IntHalf) % (2 * IntHalf)) - IntHalf

(* Mutant of Milliseconds: the microseconds are dropped.                   *)
MillisecondsOfSecs == Wrap(tmo.secs * MsPerSec)

Milliseconds == Wrap(Wrap(tmo.secs * MsPerSec) + tmo.usecs \div UsPerMs)

ConnectInit ==
  /\ cpc = "idle" /\ sock = "0" /\ fdOpen = FALSE /\ syn = "none"
  /\ errno = "0" /\ value = 0 /\ cerror = "none" /\ outcome = "none" /\ cause = "none"

Goto(p) == cpc' = p /\ UNCHANGED <<sock, fdOpen, cerror, outcome>>

(* The first failure of a simpleConnect stays its cause, whatever fails    *)
(* after it.                                                               *)
Blames(e) == cause' = IF cause = "none" THEN e ELSE cause

(* The failure of a call that sets errno to e.                             *)
Stops(e) == value' = -1 /\ errno' = e /\ Blames(e)

(* socket().  Its failure, -1, goes unnoticed; the calls on it then fail.  *)
(* "0" stands for whatever errno held: it is read after a failure only.    *)
OpenSocket ==
  /\ cpc = "idle" /\ ~fdOpen
  /\ cpc' = "resolve" /\ outcome' = "none" /\ cerror' = "none"
  /\ syn' = "none" /\ value' = 0 /\ nonblock' = FALSE
  /\ \/ sock' = "fd" /\ fdOpen' = TRUE /\ errno' = "0" /\ cause' = "none"
     \/ sock' = "-1" /\ fdOpen' = FALSE /\ errno' = "EMFILE" /\ cause' = "EMFILE"
  /\ UNCHANGED <<tmo, left>>

(* Mutant of CloseAndFail: sock keeps the number of the closed descriptor. *)
CloseAndFailKeepsSock(e) ==
  /\ cpc' = "idle" /\ outcome' = "fail" /\ cerror' = e
  /\ fdOpen' = FALSE /\ nonblock' = FALSE /\ syn' = "none"
  /\ UNCHANGED <<sock, errno, value, tmo>> /\ left' = 0

(* Every failure closes what was opened and clears the caller's socket.    *)
CloseAndFail(e) ==
  /\ cpc' = "idle" /\ outcome' = "fail" /\ cerror' = e
  /\ sock' = "0" /\ fdOpen' = FALSE /\ nonblock' = FALSE /\ syn' = "none"
  /\ UNCHANGED <<errno, value, tmo>> /\ left' = 0

ResolveFails == cpc = "resolve" /\ CloseAndFail("resolve") /\ Blames("resolve")

Resolved ==
  /\ cpc = "resolve"
  /\ Goto(IF Milliseconds = 0 THEN "issue" ELSE "mode")
  /\ UNCHANGED <<syn, errno, value, cause, tmo, nonblock, left>>
-----------------------------------------------------------------------------
(* connecttimeout.  A descriptor that cannot be made non-blocking is left  *)
(* as it is.                                                               *)
MakeNonBlocking ==
  /\ cpc = "mode"
  /\ \/ /\ fdOpen /\ nonblock' = TRUE
        /\ Goto("issue") /\ UNCHANGED <<errno, value, cause>>
     \/ /\ Goto("report") /\ Stops(IF fdOpen THEN "EIO" ELSE "EBADF")
        /\ UNCHANGED nonblock
  /\ UNCHANGED <<syn, tmo, left>>

AfterConnect == IF Milliseconds = 0 THEN "report" ELSE "restore"

(* connect(): it is done at once, fails at once, or is under way: then a   *)
(* non-blocking one says EINPROGRESS, and a blocking one waits.            *)
IssueConnect ==
  /\ cpc = "issue"
  /\ \/ /\ fdOpen /\ syn' = "up" /\ Goto(AfterConnect)
        /\ UNCHANGED <<errno, value, cause, left>>
     \/ /\ Goto(AfterConnect) /\ Stops(IF fdOpen THEN "ENETUNREACH" ELSE "EBADF")
        /\ UNCHANGED <<syn, left>>
     \/ /\ fdOpen /\ syn' = "pending" /\ Goto("wait")
        /\ errno' = (IF nonblock THEN "EINPROGRESS" ELSE errno)
        /\ left' = (IF nonblock /\ Milliseconds > 0 THEN Ticks ELSE 0)
        /\ UNCHANGED <<value, cause>>
  /\ UNCHANGED <<tmo, nonblock>>

(* select() for a connect() with a timeout: ready, expired, interrupted,   *)
(* or refused for a negative time.                                         *)
SelectsConnect == cpc = "wait" /\ nonblock

ConnectReady ==
  /\ SelectsConnect /\ Milliseconds > 0 /\ syn # "pending"
  /\ Goto("sockopt")
  /\ UNCHANGED <<syn, errno, value, cause, tmo, nonblock, left>>

ConnectExpires ==
  /\ SelectsConnect /\ Milliseconds > 0 /\ syn = "pending" /\ left = 0
  /\ Goto("restore") /\ value' = -2 /\ Blames("timeout")
  /\ UNCHANGED <<syn, errno, tmo, nonblock, left>>

ConnectRefused ==
  /\ SelectsConnect /\ Milliseconds < 0
  /\ Goto("restore") /\ Stops("EINVAL")
  /\ UNCHANGED <<syn, tmo, nonblock, left>>

ConnectInterrupted ==
  /\ cpc = "wait" /\ Milliseconds >= 0
  /\ Goto(AfterConnect) /\ Stops("EINTR")
  /\ UNCHANGED <<syn, tmo, nonblock, left>>

(* SO_ERROR tells a connection from a failure, which is put into errno.    *)
ReadSockError ==
  /\ cpc = "sockopt"
  /\ Goto("restore")
  /\ \/ Stops("ENOBUFS")
     \/ syn = "up" /\ UNCHANGED <<errno, value, cause>>
     \/ syn = "refused" /\ Stops("ECONNREFUSED")
  /\ UNCHANGED <<syn, tmo, nonblock, left>>

(* Mutant of RestoreBlocking: errno is not saved around fcntl().           *)
RestoreBlockingLosesErrno ==
  /\ cpc = "restore"
  /\ Goto("report")
  /\ \/ nonblock' = FALSE /\ errno' \in {errno, "0"} /\ UNCHANGED <<value, cause>>
     \/ Stops("EIO") /\ UNCHANGED nonblock
  /\ UNCHANGED <<syn, tmo, left>>

(* Mutant of RestoreBlocking: its failure is ignored.                      *)
RestoreBlockingIgnores ==
  /\ cpc = "restore"
  /\ Goto("report")
  /\ nonblock' \in {FALSE, nonblock}
  /\ UNCHANGED <<syn, errno, value, cause, tmo, left>>

(* The mode is put back with errno saved around it; a descriptor that      *)
(* stays non-blocking is not handed out, and then errno says so, not what  *)
(* stopped the connect before.                                             *)
RestoreBlocking ==
  /\ cpc = "restore"
  /\ Goto("report")
  /\ \/ nonblock' = FALSE /\ UNCHANGED <<errno, value, cause>>
     \/ Stops("EIO") /\ UNCHANGED nonblock
  /\ UNCHANGED <<syn, tmo, left>>
-----------------------------------------------------------------------------
(* A blocking connect() comes back when the kernel is done.                *)
BlockingConnectEnds ==
  /\ cpc = "wait" /\ ~nonblock /\ syn # "pending"
  /\ Goto("report")
  /\ \/ syn = "up" /\ UNCHANGED <<errno, value, cause>>
     \/ syn = "refused" /\ Stops("ECONNREFUSED")
  /\ UNCHANGED <<syn, tmo, nonblock, left>>

ReportFailure ==
  /\ cpc = "report" /\ value # 0
  /\ CloseAndFail(IF value = -2 THEN "timeout" ELSE errno)
  /\ UNCHANGED cause

ReportSuccess ==
  /\ cpc = "report" /\ value = 0
  /\ cpc' = "idle" /\ outcome' = "ok" /\ left' = 0
  /\ UNCHANGED <<sock, fdOpen, syn, errno, value, cerror, cause, tmo, nonblock>>

(* The network accepts or refuses the connection, at any moment or never.  *)
NetworkAnswers ==
  /\ syn = "pending" /\ syn' \in {"up", "refused"}
  /\ UNCHANGED <<cpc, sock, fdOpen, errno, value, cerror, outcome, cause, tmo, nonblock, left>>

(* The steps of a simpleConnect in progress that need nobody else.         *)
ConnectStep ==
  \/ ResolveFails
  \/ Resolved
  \/ MakeNonBlocking
  \/ IssueConnect
  \/ ConnectReady
  \/ ConnectExpires
  \/ ConnectRefused
  \/ ReadSockError
  \/ RestoreBlocking
  \/ BlockingConnectEnds
  \/ ReportFailure
  \/ ReportSuccess
-----------------------------------------------------------------------------
ConnectStatusOK ==
  /\ cpc \in {"idle", "resolve", "mode", "issue", "wait", "sockopt", "restore", "report"}
  /\ sock \in {"0", "-1", "fd"}
  /\ syn \in {"none", "pending", "up", "refused"}
  /\ errno \in Errnos /\ value \in -2..0
  /\ cerror \in Errnos \cup {"none", "resolve", "timeout"}
  /\ cause \in Errnos \cup {"none", "resolve", "timeout"}
  /\ outcome \in {"none", "ok", "fail"}

ConnectTypeOK == fdOpen \in BOOLEAN /\ ConnectStatusOK
=============================================================================
