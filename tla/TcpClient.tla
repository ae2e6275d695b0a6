----------------------------- MODULE TcpClient -----------------------------
(***************************************************************************)
(* Socket_TCPClient and the Socket_Comm object it owns: the descriptor,    *)
(* the communication object bound to it, the TLS objects inside that, and  *)
(* every call of the client that moves them.  The process' descriptor      *)
(* table is part of the state, shared with the rest of the program, which  *)
(* opens and closes descriptors of its own between any two steps.          *)
(*                                                                         *)
(* A call of connect() takes several steps: the new Socket_Comm replaces   *)
(* the old one, Socket_Connect_Normal opens a descriptor, the hops talk    *)
(* over it, the Socket_Comm binds to it.  All other calls are one step.    *)
(***************************************************************************)
EXTENDS SocketShared, FiniteSets

CONSTANTS
  MaxFd,          \* the process may hold the descriptors 0..MaxFd
  Hosts,          \* the server names passed to connect()
  NoHost,         \* the null or empty server name
  CloseRule,      \* when the caller calls close() before it connects again
  StdinHeld,      \* TRUE: descriptor 0 is never closed by the program
  StopAfterFail   \* TRUE: the caller sends and reads nothing on a connection
                  \* that a failed startSSL() ended

ASSUME ClientConstants ==
  /\ MaxFd \in Nat
  /\ NoHost \notin Hosts
  /\ CloseRule \in {"always", "connected", "never"}
  /\ StdinHeld \in BOOLEAN
  /\ StopAfterFail \in BOOLEAN

VARIABLES
  fds,            \* who holds each descriptor: this Socket, the program, no one
  peer,           \* the destination at the far end of each descriptor
  d_sock,         \* Socket_TCPClient::d_sock; 0 is "not connected"
  d_comm,         \* the Socket_Comm the client owns
  d_error,        \* what Socket_TCPClient::d_error is about, "none" if nothing
  ret,            \* what the last call returned
  pc,             \* where a connect() in progress is
  target,         \* the server that connect() was asked for
  upgradeFailed,  \* the last startSSL() ended the connection
  owesClose,      \* connect() succeeded and close() was not called since
  tlsAsked,       \* a TLS handshake was started on the descriptor d_sock
  stray           \* the Socket used a descriptor that it does not hold

clientVars == <<fds, peer, d_sock, d_comm, d_error, ret, pc, target,
                upgradeFailed, owesClose, tlsAsked, stray, timeout, gone>>
ghostVars  == <<upgradeFailed, owesClose, tlsAsked>>

Fds    == 0..MaxFd
NoSock == 0
Names  == Hosts \cup {NoHost}
Errors == {"none", "args", "socket", "connect", "hop", "tls", "nocomm", "notconnected",
           "secure", "finished", "null", "io"}
SslStates == {"null", "init", "failed", "up"}

(* A Socket_Comm: "plain" is Socket_Comm_Normal, "ssh" is Socket_Comm_SSH. *)
(* fd is Socket_Comm::d_sock; ctx says whether ctx is allocated; ssl is    *)
(* null, or allocated with the handshake unfinished, failed or finished.   *)
Comms == [kind : {"none", "plain", "ssh"}, fd : Fds, ctx : BOOLEAN, ssl : SslStates,
          host : Names, verify : BOOLEAN, timeout : Timeouts]

NoComm == [kind |-> "none", fd |-> NoSock, ctx |-> FALSE, ssl |-> "null",
           host |-> NoHost, verify |-> FALSE, timeout |-> 0]
-----------------------------------------------------------------------------
(* POSIX hands out the lowest free descriptor.                             *)
IsLowestFree(f) ==
  /\ fds[f] = "free"
  /\ \A g \in Fds : fds[g] = "free" => f <= g

(* A comm just constructed and given to setComm, which sets its timeout.   *)
NewPlain == [NoComm EXCEPT !.kind = "plain", !.timeout = timeout]
NewSsh(host, verify) ==
  [NoComm EXCEPT !.kind = "ssh", !.host = host, !.verify = verify, !.timeout = timeout]

(* The ways Socket_Comm_SSH::virtualbind can end, by what it leaves in ctx *)
(* and ssl: no context, no trust store or no SSL object, a handshake cut   *)
(* off by the timeout, a handshake that failed, a session.                 *)
HandshakeEnds ==
  {hs \in [ctx : BOOLEAN, ssl : SslStates] :
     /\ hs.ssl # "null" => hs.ctx
     /\ hs.ssl = "init" => timeout # 0}

(* Mutant of BoundTls: a failed virtualbind resets Socket_Comm::d_sock.    *)
BoundTlsResets(comm, f, hs) ==
  [comm EXCEPT !.fd = IF hs.ssl = "up" THEN f ELSE NoSock, !.ctx = hs.ctx, !.ssl = hs.ssl]

(* Socket_Comm::bind records the descriptor before virtualbind runs, and   *)
(* keeps it when virtualbind fails.                                        *)
Bound(comm, f)        == [comm EXCEPT !.fd = f]
BoundTls(comm, f, hs) == [comm EXCEPT !.fd = f, !.ctx = hs.ctx, !.ssl = hs.ssl]

(* Socket_Comm::finish unbinds and releases the TLS objects of a bound     *)
(* comm; an unbound one it leaves as it is.                                *)
Finished(comm) ==
  IF comm.fd # NoSock THEN [comm EXCEPT !.fd = NoSock, !.ctx = FALSE, !.ssl = "null"]
                      ELSE comm

(* SSL_shutdown writes its close_notify only where a session is up.        *)
StrayShutdown(comm) ==
  comm.fd # NoSock /\ comm.ssl = "up" /\ fds[comm.fd] # "lib"

(* A send or read that passes the bound check goes to the descriptor,      *)
(* except that virtualsend and virtualread refuse a null ssl and OpenSSL   *)
(* refuses a failed one (after select() and fcntl() if there is a timeout).*)
UsesDescriptor(comm) ==
  /\ comm.fd # NoSock
  /\ \/ comm.kind = "plain"
     \/ comm.ssl \in {"init", "up"}
     \/ comm.ssl = "failed" /\ comm.timeout # 0

ClientInit ==
  /\ fds = [f \in Fds |-> IF f = 0 THEN "other" ELSE "free"]
  /\ peer = [f \in Fds |-> NoHost]
  /\ d_sock = NoSock
  /\ d_comm = NoComm
  /\ d_error = "none"
  /\ ret = "none"
  /\ pc = "idle"
  /\ target = NoHost
  /\ upgradeFailed = FALSE
  /\ owesClose = FALSE
  /\ tlsAsked = FALSE
  /\ stray = FALSE
  /\ timeout = 0
  /\ gone = FALSE

ClientIdle == pc = "idle" /\ ~gone

Returns(r, e) == ret' = r /\ d_error' = e /\ pc' = "idle"
-----------------------------------------------------------------------------
(* connect(), connectSSL(): the call.  setComm deletes the previous comm,  *)
(* whose destructor finishes it.                                           *)
CallerMayConnect ==
  /\ CloseRule = "always" => d_sock = NoSock
  /\ CloseRule = "connected" => ~owesClose

BeginConnect(comm, host) ==
  /\ ClientIdle
  /\ CallerMayConnect
  /\ d_comm' = comm
  /\ stray' = (stray \/ StrayShutdown(d_comm))
  /\ target' = host
  /\ pc' = "open"
  /\ ret' = "none"
  /\ upgradeFailed' = FALSE
  /\ UNCHANGED <<fds, peer, d_sock, d_error, owesClose, tlsAsked, timeout, gone>>

(* Mutant of OpenRejected: the refused connect() binds the new comm to the *)
(* descriptor that is still open.                                          *)
OpenRejectedBinds ==
  /\ pc = "open"
  /\ d_comm' = Bound(d_comm, d_sock)
  /\ Returns("fail", "args")
  /\ UNCHANGED <<fds, peer, d_sock, target, ghostVars, stray, timeout, gone>>

(* simpleConnect refuses a bad port or an empty server before socket().    *)
OpenRejected ==
  /\ pc = "open"
  /\ Returns("fail", "args")
  /\ UNCHANGED <<fds, peer, d_sock, d_comm, target, ghostVars, stray, timeout, gone>>

(* socket() returned descriptor 0, which the code takes for its failure.   *)
OpenZero ==
  /\ pc = "open"
  /\ IsLowestFree(0)
  /\ fds' = [fds EXCEPT ![0] = "lib"]
  /\ d_sock' = 0
  /\ Returns("fail", "socket")
  /\ UNCHANGED <<peer, d_comm, target, ghostVars, stray, timeout, gone>>

(* Mutant of OpenFailed: the descriptor is left open.                      *)
OpenFailedLeaks ==
  /\ pc = "open"
  /\ fds[0] # "free"
  /\ \E f \in Fds : IsLowestFree(f) /\ fds' = [fds EXCEPT ![f] = "lib"]
  /\ d_sock' = NoSock
  /\ Returns("fail", "connect")
  /\ UNCHANGED <<peer, d_comm, target, ghostVars, stray, timeout, gone>>

(* No descriptor, no address or no connection: what was opened, if         *)
(* anything, is closed again, and d_sock says so.                          *)
OpenFailed ==
  /\ pc = "open"
  /\ d_sock' = NoSock
  /\ Returns("fail", "connect")
  /\ UNCHANGED <<fds, peer, d_comm, target, ghostVars, stray, timeout, gone>>

(* The first TCP connection is up.  d_sock is overwritten, whatever it was.*)
Opened(f, next) ==
  /\ pc = "open"
  /\ IsLowestFree(f) /\ f # 0
  /\ fds' = [fds EXCEPT ![f] = "lib"]
  /\ d_sock' = f
  /\ pc' = next
  /\ tlsAsked' = FALSE
  /\ UNCHANGED <<peer, d_comm, d_error, ret, target, upgradeFailed, owesClose, stray, timeout, gone>>

(* The last hop reports that the destination is connected.                 *)
Relayed ==
  /\ pc = "relay"
  /\ pc' = "bind"
  /\ UNCHANGED <<fds, peer, d_sock, d_comm, d_error, ret, target, ghostVars, stray, timeout, gone>>

(* Mutant of RelayFailed: the hop's error is not copied.                   *)
RelayFailedSilent(e) ==
  /\ pc = "relay"
  /\ Returns("fail", "none")
  /\ UNCHANGED <<fds, peer, d_sock, d_comm, target, ghostVars, stray, timeout, gone>>

(* A hop's simpleConnect fails.  The descriptor stays open and d_sock      *)
(* still names it.  The error is the hop's, which may be empty.            *)
RelayFailed(e) ==
  /\ pc = "relay"
  /\ Returns("fail", e)
  /\ UNCHANGED <<fds, peer, d_sock, d_comm, target, ghostVars, stray, timeout, gone>>

BindPlain ==
  /\ pc = "bind" /\ d_comm.kind = "plain"
  /\ d_comm' = Bound(d_comm, d_sock)
  /\ peer' = [peer EXCEPT ![d_sock] = target]
  /\ Returns("ok", d_error)
  /\ owesClose' = TRUE
  /\ UNCHANGED <<fds, d_sock, target, upgradeFailed, tlsAsked, stray, timeout, gone>>

BindTls(hs) ==
  /\ pc = "bind" /\ d_comm.kind = "ssh"
  /\ d_comm' = BoundTls(d_comm, d_sock, hs)
  /\ peer' = [peer EXCEPT ![d_sock] = target]
  /\ IF hs.ssl = "up" THEN Returns("ok", d_error) ELSE Returns("fail", "tls")
  /\ owesClose' = (hs.ssl = "up")
  /\ tlsAsked' = TRUE
  /\ UNCHANGED <<fds, d_sock, target, upgradeFailed, stray, timeout, gone>>
-----------------------------------------------------------------------------
(* Mutant of StartError: the result of finish() is ignored.                *)
StartErrorIgnoresFinish ==
  IF d_comm.kind = "none" THEN "nocomm"
  ELSE IF d_sock = NoSock THEN "notconnected"
  ELSE IF d_comm.kind = "ssh" THEN "secure"
  ELSE "none"

(* startSSL(): refused without a comm, without a connection, on a secure   *)
(* comm, or when the comm is not bound (finish fails).                     *)
StartError ==
  IF d_comm.kind = "none" THEN "nocomm"
  ELSE IF d_sock = NoSock THEN "notconnected"
  ELSE IF d_comm.kind = "ssh" THEN "secure"
  ELSE IF d_comm.fd = NoSock THEN "finished"
  ELSE "none"

StartRefused ==
  /\ ClientIdle
  /\ StartError # "none"
  /\ Returns("fail", StartError)
  /\ UNCHANGED <<fds, peer, d_sock, d_comm, target, ghostVars, stray, timeout, gone>>

(* The plain comm is finished and deleted, a TLS one takes its place and   *)
(* binds to the same descriptor.                                           *)
StartTls(host, verify, hs) ==
  /\ ClientIdle
  /\ StartError = "none"
  /\ hs.ssl = "up"
  /\ d_comm' = BoundTls(NewSsh(host, verify), d_sock, hs)
  /\ Returns("ok", d_error)
  /\ tlsAsked' = TRUE
  /\ UNCHANGED <<fds, peer, d_sock, target, upgradeFailed, owesClose, stray, timeout, gone>>

(* Mutant of StartTlsFailed: d_sock keeps the number that was closed.      *)
StartTlsFailedKeepsSock(host, verify, hs) ==
  /\ ClientIdle
  /\ StartError = "none"
  /\ hs.ssl # "up"
  /\ d_comm' = BoundTls(NewSsh(host, verify), d_sock, hs)
  /\ fds' = [fds EXCEPT ![d_sock] = "free"]
  /\ Returns("fail", "tls")
  /\ upgradeFailed' = TRUE
  /\ owesClose' = FALSE
  /\ tlsAsked' = TRUE
  /\ UNCHANGED <<peer, d_sock, target, stray, timeout, gone>>

(* The handshake failed: startSSL closes the descriptor itself.            *)
StartTlsFailed(host, verify, hs) ==
  /\ ClientIdle
  /\ StartError = "none"
  /\ hs.ssl # "up"
  /\ d_comm' = BoundTls(NewSsh(host, verify), d_sock, hs)
  /\ fds' = [fds EXCEPT ![d_sock] = "free"]
  /\ d_sock' = NoSock
  /\ Returns("fail", "tls")
  /\ upgradeFailed' = TRUE
  /\ owesClose' = FALSE
  /\ tlsAsked' = TRUE
  /\ UNCHANGED <<peer, target, stray, timeout, gone>>
-----------------------------------------------------------------------------
(* send, read, readline, reads, and sends of a non-empty string: one use   *)
(* of the comm.  A session that the timeout left in mid-handshake is       *)
(* carried on by OpenSSL, and may come up or fail now.                     *)
Transfer ==
  /\ ClientIdle
  /\ StopAfterFail => ~upgradeFailed
  /\ stray' = (stray \/ (UsesDescriptor(d_comm) /\ fds[d_comm.fd] # "lib"))
  /\ \/ /\ d_comm.kind = "none"
        /\ Returns("fail", "nocomm") /\ UNCHANGED d_comm
     \/ /\ d_comm.kind # "none"
        /\ Returns("fail", "io") /\ UNCHANGED d_comm
     \/ /\ d_comm.kind = "plain" /\ d_comm.fd # NoSock
        /\ Returns("ok", d_error) /\ UNCHANGED d_comm
     \/ /\ d_comm.fd # NoSock /\ d_comm.ssl \in {"init", "up"}
        /\ Returns("ok", d_error) /\ d_comm' = [d_comm EXCEPT !.ssl = "up"]
     \/ /\ d_comm.fd # NoSock /\ d_comm.ssl \in {"init", "up"}
        /\ Returns("fail", "io") /\ d_comm' = [d_comm EXCEPT !.ssl = "failed"]
  /\ UNCHANGED <<fds, peer, d_sock, target, ghostVars, timeout, gone>>

(* A read, or a send under a timeout, of no bytes on a bound plain comm:   *)
(* its loop over the bytes does not run, so the descriptor is not touched, *)
(* and as it returns 0 the client's error becomes the comm's, which is     *)
(* empty unless an earlier call on this comm failed.                       *)
TransferNothing ==
  /\ ClientIdle
  /\ d_comm.kind = "plain" /\ d_comm.fd # NoSock
  /\ \E e \in {"none", "io"} : Returns("ok", e)
  /\ UNCHANGED <<fds, peer, d_sock, d_comm, target, ghostVars, stray, timeout, gone>>

(* sends(NULL) fails and sends("") succeeds before they look at the comm.  *)
SendsNull ==
  /\ ClientIdle
  /\ Returns("fail", "null")
  /\ UNCHANGED <<fds, peer, d_sock, d_comm, target, ghostVars, stray, timeout, gone>>

SendsEmpty ==
  /\ ClientIdle
  /\ Returns("ok", d_error)
  /\ UNCHANGED <<fds, peer, d_sock, d_comm, target, ghostVars, stray, timeout, gone>>

(* Mutant of Close: the comm is not finished.                              *)
CloseWithoutFinish ==
  /\ ClientIdle
  /\ Returns("ok", d_error)
  /\ fds' = IF d_sock = NoSock THEN fds ELSE [fds EXCEPT ![d_sock] = "free"]
  /\ d_sock' = NoSock
  /\ owesClose' = FALSE
  /\ UNCHANGED <<peer, d_comm, target, upgradeFailed, tlsAsked, stray, timeout, gone>>

(* close(): nothing to do without a descriptor; otherwise the comm is      *)
(* finished and the descriptor closed even if finish failed.               *)
Close ==
  /\ ClientIdle
  /\ IF d_sock = NoSock
     THEN Returns("ok", d_error) /\ UNCHANGED <<fds, d_sock, d_comm, stray>>
     ELSE /\ IF d_comm.kind # "none" /\ d_comm.fd = NoSock
             THEN Returns("fail", "finished")
             ELSE Returns("ok", d_error)
          /\ stray' = (stray \/ StrayShutdown(d_comm))
          /\ d_comm' = Finished(d_comm)
          /\ fds' = [fds EXCEPT ![d_sock] = "free"]
          /\ d_sock' = NoSock
  /\ owesClose' = FALSE
  /\ UNCHANGED <<peer, target, upgradeFailed, tlsAsked, timeout, gone>>

(* Mutant of SetCommTimeout: the comm keeps the timeout it had.            *)
SetCommTimeoutStores(t) ==
  /\ ClientIdle
  /\ timeout' = t
  /\ UNCHANGED <<fds, peer, d_sock, d_comm, d_error, ret, pc, target, ghostVars, stray, gone>>

(* setTimeout: stored, and handed to the comm.                             *)
SetCommTimeout(t) ==
  /\ ClientIdle
  /\ timeout' = t
  /\ d_comm' = IF d_comm.kind = "none" THEN d_comm ELSE [d_comm EXCEPT !.timeout = t]
  /\ UNCHANGED <<fds, peer, d_sock, d_error, ret, pc, target, ghostVars, stray, gone>>

(* Mutant of DestroyClient: the descriptor is closed before the comm is    *)
(* finished.                                                               *)
DestroyClientClosesFirst ==
  /\ ClientIdle
  /\ gone' = TRUE
  /\ stray' = (stray \/ (d_comm.fd # NoSock /\ d_comm.ssl = "up"))
  /\ d_comm' = NoComm
  /\ fds' = IF d_sock = NoSock THEN fds ELSE [fds EXCEPT ![d_sock] = "free"]
  /\ d_sock' = NoSock
  /\ UNCHANGED <<peer, d_error, ret, pc, target, ghostVars, timeout>>

(* ~Socket_TCPClient: finish, close, delete the comm.                      *)
DestroyClient ==
  /\ ClientIdle
  /\ gone' = TRUE
  /\ stray' = (stray \/ StrayShutdown(d_comm))
  /\ d_comm' = NoComm
  /\ fds' = IF d_sock = NoSock THEN fds ELSE [fds EXCEPT ![d_sock] = "free"]
  /\ d_sock' = NoSock
  /\ UNCHANGED <<peer, d_error, ret, pc, target, ghostVars, timeout>>

(* The rest of the program opens and closes descriptors of its own, at any *)
(* time.                                                                   *)
ProgramOpens(f) ==
  /\ IsLowestFree(f)
  /\ fds' = [fds EXCEPT ![f] = "other"]
  /\ UNCHANGED <<peer, d_sock, d_comm, d_error, ret, pc, target, ghostVars, stray, timeout, gone>>

ProgramCloses(f) ==
  /\ fds[f] = "other"
  /\ StdinHeld => f # 0
  /\ fds' = [fds EXCEPT ![f] = "free"]
  /\ UNCHANGED <<peer, d_sock, d_comm, d_error, ret, pc, target, ghostVars, stray, timeout, gone>>
-----------------------------------------------------------------------------
ClientNext ==
  \/ \E h \in Names : BeginConnect(NewPlain, h)
  \/ \E h \in Names, v \in BOOLEAN : BeginConnect(NewSsh(h, v), h)
  \/ OpenRejected
  \/ OpenZero
  \/ OpenFailed
  \/ \E f \in Fds, next \in {"relay", "bind"} : Opened(f, next)
  \/ Relayed
  \/ \E e \in {"none", "hop"} : RelayFailed(e)
  \/ BindPlain
  \/ \E hs \in HandshakeEnds : BindTls(hs)
  \/ StartRefused
  \/ \E h \in Names, v \in BOOLEAN, hs \in HandshakeEnds : StartTls(h, v, hs)
  \/ \E h \in Names, v \in BOOLEAN, hs \in HandshakeEnds : StartTlsFailed(h, v, hs)
  \/ Transfer
  \/ TransferNothing
  \/ SendsNull
  \/ SendsEmpty
  \/ Close
  \/ \E t \in Timeouts : SetCommTimeout(t)
  \/ DestroyClient
  \/ \E f \in Fds : ProgramOpens(f)
  \/ \E f \in Fds : ProgramCloses(f)

ClientSpec == ClientInit /\ [][ClientNext]_clientVars
-----------------------------------------------------------------------------
ClientTypeOK ==
  /\ fds \in [Fds -> {"free", "lib", "other"}]
  /\ peer \in [Fds -> Names]
  /\ d_sock \in Fds
  /\ d_comm \in Comms
  /\ d_error \in Errors
  /\ ret \in {"none", "ok", "fail"}
  /\ pc \in {"idle", "open", "relay", "bind"}
  /\ target \in Names
  /\ upgradeFailed \in BOOLEAN
  /\ owesClose \in BOOLEAN
  /\ tlsAsked \in BOOLEAN
  /\ stray \in BOOLEAN
  /\ timeout \in Timeouts
  /\ gone \in BOOLEAN

(* d_sock, when it is set, names a descriptor this Socket holds: close()   *)
(* and the destructor never close a descriptor of somebody else.           *)
SockIsOurs == d_sock # NoSock => fds[d_sock] = "lib"

(* Every descriptor this Socket holds is the one close() will close.       *)
NoDescriptorLeak == \A f \in Fds : fds[f] = "lib" => f = d_sock /\ f # NoSock

(* What socket.h promises: "The destructor closes any connection still     *)
(* open".                                                                  *)
DestructorReleases == gone => \A f \in Fds : fds[f] # "lib"

(* Whatever a call returned, TLS objects are only alive in a bound comm,   *)
(* the only kind whose finish() releases them.                             *)
TlsReleasable == (d_comm.ctx \/ d_comm.ssl # "null") => d_comm.fd # NoSock

(* The comm talks over d_sock or over nothing, unless a failed startSSL()  *)
(* ended the connection.                                                   *)
CommFollowsSock == d_comm.fd # NoSock => d_comm.fd = d_sock \/ upgradeFailed

(* The Socket never sends, reads or shuts down over a descriptor that it   *)
(* does not hold, for instance one the program was given after a close.    *)
NoStrayUse == ~stray

(* Once TLS was asked for on a connection, nothing is ever sent over that  *)
(* connection in the clear: no plain comm is bound to it.                  *)
NoCleartextAfterTls == tlsAsked /\ d_comm.kind = "plain" => d_comm.fd = NoSock
=============================================================================
