----------------------------- MODULE RudeSocket -----------------------------
(***************************************************************************)
(* One rude::Socket: Rude_SocketImpl drives the connect chain and the      *)
(* client together.  Every action is one call of the public interface, or  *)
(* one stage of a connect() in progress, and is the conjunction of what it *)
(* does to the chain (ConnectChain), to the client (TcpClient) and to the  *)
(* fields of Rude_SocketImpl itself.                                       *)
(***************************************************************************)
EXTENDS ConnectChain, TcpClient

VARIABLES
  withSSL,        \* built with USING_OPENSSL: both builds are explored
  d_lastserver,   \* the host startSSL() will verify against
  d_sslverify,    \* what setSSLVerify() was last given
  d_sslerror,     \* "nossl", or "none"
  failed          \* the last call returned a failure

implVars == <<withSSL, d_lastserver, d_sslverify, d_sslerror>>
vars     == <<chainVars, clientVars, implVars, failed>>

(* getError(): the SSL error hides the client's.                           *)
GetError == IF d_sslerror # "none" THEN d_sslerror ELSE d_error

SocketInit ==
  /\ ChainInit
  /\ ClientInit
  /\ withSSL \in BOOLEAN
  /\ d_lastserver = NoHost
  /\ d_sslverify = TRUE
  /\ d_sslerror = "none"
  /\ failed = FALSE

(* The caller has control.                                                 *)
Idle == ChainIdle /\ ClientIdle

(* What a call of the client returns is what the Socket returns.           *)
Reports == failed' = (ret' = "fail")

(* A build without OpenSSL refuses connectSSL() and startSSL() here.       *)
RefuseSSL ==
  /\ d_sslerror' = "nossl"
  /\ failed' = TRUE
  /\ UNCHANGED <<chainVars, clientVars, withSSL, d_sslverify>>
-----------------------------------------------------------------------------
InsertHop(k) ==
  /\ Idle
  /\ Insert(k)
  /\ failed' = FALSE
  /\ UNCHANGED <<clientVars, implVars>>

Connect(host) ==
  /\ Idle
  /\ d_sslerror' = "none"
  /\ d_lastserver' = host
  /\ Install
  /\ BeginConnect(NewPlain, host)
  /\ Reports
  /\ UNCHANGED <<withSSL, d_sslverify>>

ConnectSSL(host) ==
  /\ Idle /\ withSSL
  /\ d_sslerror' = "none"
  /\ d_lastserver' = host
  /\ Install
  /\ BeginConnect(NewSsh(host, d_sslverify), host)
  /\ Reports
  /\ UNCHANGED <<withSSL, d_sslverify>>

ConnectSSLRefused(host) ==
  /\ Idle /\ ~withSSL
  /\ d_lastserver' = host
  /\ RefuseSSL
-----------------------------------------------------------------------------
(* Stages of a connect() in progress.  The first is the simpleConnect of   *)
(* the Socket_Connect_Normal.                                              *)
OpenStageFails ==
  /\ StageFail
  /\ OpenRejected \/ OpenZero \/ OpenFailed
  /\ Reports
  /\ UNCHANGED implVars

OpenStageOk(f) ==
  /\ pc = "open"
  /\ s_nextchild[at] = NULL => target # NoHost
  /\ StageOk
  /\ Opened(f, IF s_nextchild[at] = NULL THEN "bind" ELSE "relay")
  /\ Reports
  /\ UNCHANGED implVars

(* A hop that is not the last connects to the next hop's address.          *)
RelayOn ==
  /\ pc = "relay"
  /\ StageOk
  /\ s_nextchild[at] # NULL
  /\ UNCHANGED <<clientVars, implVars, failed>>

(* The last hop connects to the destination.  All but a tunnel refuse an   *)
(* empty server name.                                                      *)
RelayArrives ==
  /\ pc = "relay"
  /\ StageOk
  /\ s_nextchild[at] = NULL
  /\ target = NoHost => kind[at] = "tunnel"
  /\ Relayed
  /\ Reports
  /\ UNCHANGED implVars

(* A hop fails.  Socket_Connect_Socks5 returns without an error when the   *)
(* proxy's method reply cannot be read.                                    *)
RelayStageFails(e) ==
  /\ pc = "relay"
  /\ StageFail
  /\ e = "none" => kind[at] = "socks5"
  /\ RelayFailed(e)
  /\ Reports
  /\ UNCHANGED implVars

BindStage ==
  /\ at = NULL /\ ~undef
  /\ BindPlain \/ \E hs \in HandshakeEnds : BindTls(hs)
  /\ Reports
  /\ UNCHANGED <<chainVars, implVars>>

ConnectStage ==
  \/ OpenStageFails
  \/ \E f \in Fds : OpenStageOk(f)
  \/ RelayOn
  \/ RelayArrives
  \/ \E e \in {"none", "hop"} : RelayStageFails(e)
  \/ BindStage
-----------------------------------------------------------------------------
StartSSL ==
  /\ Idle /\ withSSL
  /\ d_sslerror' = "none"
  /\ \/ StartRefused
     \/ \E hs \in HandshakeEnds : StartTls(d_lastserver, d_sslverify, hs)
     \/ \E hs \in HandshakeEnds : StartTlsFailed(d_lastserver, d_sslverify, hs)
  /\ Reports
  /\ UNCHANGED <<chainVars, withSSL, d_lastserver, d_sslverify>>

StartSSLRefused ==
  /\ Idle /\ ~withSSL
  /\ RefuseSSL
  /\ UNCHANGED d_lastserver

(* send, read, sends, reads, readline and close go straight to the client. *)
UseConnection ==
  /\ Idle
  /\ Transfer \/ TransferNothing \/ SendsNull \/ SendsEmpty \/ Close
  /\ Reports
  /\ UNCHANGED <<chainVars, implVars>>

SetTimeouts(t) ==
  /\ Idle
  /\ SetTimeout(t)
  /\ SetCommTimeout(t)
  /\ UNCHANGED <<implVars, failed>>

SetSSLVerify(v) ==
  /\ Idle
  /\ d_sslverify' = v
  /\ UNCHANGED <<chainVars, clientVars, withSSL, d_lastserver, d_sslerror, failed>>

Destroy ==
  /\ Idle
  /\ DestroyChain
  /\ DestroyClient
  /\ UNCHANGED <<implVars, failed>>

(* The rest of the program, at any moment.                                 *)
Program ==
  /\ \E f \in Fds : ProgramOpens(f) \/ ProgramCloses(f)
  /\ UNCHANGED <<chainVars, implVars, failed>>

SocketNext ==
  \/ \E k \in HopKinds : InsertHop(k)
  \/ \E h \in Names : Connect(h)
  \/ \E h \in Names : ConnectSSL(h)
  \/ \E h \in Names : ConnectSSLRefused(h)
  \/ ConnectStage
  \/ StartSSL
  \/ StartSSLRefused
  \/ UseConnection
  \/ \E t \in Timeouts : SetTimeouts(t)
  \/ \E v \in BOOLEAN : SetSSLVerify(v)
  \/ Destroy
  \/ Program

(* No fairness: without a timeout a stage may wait for its peer for ever.  *)
SocketSpec == SocketInit /\ [][SocketNext]_vars
-----------------------------------------------------------------------------
(* A TLS comm, however it came about, names the host that is really at the *)
(* far end of its descriptor: connectSSL(), and startSSL() through         *)
(* d_lastserver, never check the certificate against another name, even    *)
(* when a connect() was refused in between.                                *)
TlsNamesDestination ==
  d_comm.kind = "ssh" /\ d_comm.fd # NoSock => d_comm.host = peer[d_comm.fd]

(* The comm that sends and reads has the timeout last set.                 *)
CommTimeoutCurrent == d_comm.kind # "none" => d_comm.timeout = timeout

(* A comm is bound only to a connection that went through the whole chain  *)
(* of the connect() that made it.                                          *)
BoundOnlyWhenRouted == d_comm.fd # NoSock => outcome = "up" /\ at = NULL

(* A call that reports failure leaves a description in getError(), after   *)
(* any calls that set or cleared the two errors before it; only a connect()*)
(* that a SOCKS5 hop stopped may have none.                                *)
FailureDescribed ==
  failed /\ GetError = "none" => outcome = "failed" /\ kind[blame] = "socks5"
=============================================================================
