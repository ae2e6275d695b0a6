-------------------------- MODULE RudeSocketProofs --------------------------
(***************************************************************************)
(* Proofs about the whole Socket.  First that Rude_SocketImpl uses its     *)
(* chain and its client only as their modules allow, so that everything    *)
(* proved of the two alone is true of them inside a Socket; then what the  *)
(* two together, and the fields of Rude_SocketImpl, make true.             *)
(***************************************************************************)
EXTENDS RudeSocket, ConnectChainProofs, TcpClientProofs

(* What Rude_SocketImpl hands to the client when it asks for TLS.          *)
ImplTypeOK ==
  /\ d_lastserver \in Names
  /\ d_sslverify \in BOOLEAN
  /\ d_sslerror \in {"none", "nossl"}
  /\ withSSL \in BOOLEAN
  /\ failed \in BOOLEAN

LEMMA ImplTypeInit == SocketInit => ImplTypeOK
  BY DEF SocketInit, ImplTypeOK, Names

LEMMA ImplTypeStep == ImplTypeOK /\ [SocketNext]_vars => ImplTypeOK'
<1> SUFFICES ASSUME ImplTypeOK, [SocketNext]_vars PROVE ImplTypeOK'
  OBVIOUS
<1>0. Reports => failed' \in BOOLEAN
  BY DEF Reports
<1> USE <1>0 DEF ImplTypeOK
<1>1. ASSUME NEW k \in HopKinds, InsertHop(k) PROVE ImplTypeOK'
  BY <1>1 DEF InsertHop, implVars
<1>2. ASSUME NEW h \in Names, Connect(h) \/ ConnectSSL(h) \/ ConnectSSLRefused(h)
      PROVE  ImplTypeOK'
  BY <1>2 DEF Connect, ConnectSSL, ConnectSSLRefused, RefuseSSL
<1>3. CASE ConnectStage
  <2>1. UNCHANGED implVars /\ (Reports \/ UNCHANGED failed)
    BY <1>3 DEF ConnectStage, OpenStageFails, OpenStageOk, RelayOn, RelayArrives,
                RelayStageFails, BindStage
  <2> QED BY <2>1 DEF implVars
<1>4. CASE StartSSL
  BY <1>4 DEF StartSSL
<1>5. CASE StartSSLRefused
  BY <1>5 DEF StartSSLRefused, RefuseSSL
<1>6. CASE UseConnection
  BY <1>6 DEF UseConnection, implVars
<1>7. ASSUME NEW t \in Timeouts, SetTimeouts(t) PROVE ImplTypeOK'
  BY <1>7 DEF SetTimeouts, implVars
<1>8. ASSUME NEW v \in BOOLEAN, SetSSLVerify(v) PROVE ImplTypeOK'
  BY <1>8 DEF SetSSLVerify
<1>9. CASE Destroy \/ Program
  BY <1>9 DEF Destroy, Program, implVars
<1>10. CASE UNCHANGED vars
  BY <1>10 DEF vars, implVars
<1> QED
  BY <1>1, <1>2, <1>3, <1>4, <1>5, <1>6, <1>7, <1>8, <1>9, <1>10 DEF SocketNext
-----------------------------------------------------------------------------
(* The two components.                                                     *)

(* Every step of the Socket is a step of the chain or leaves it alone.     *)
LEMMA ChainSees ==
  ASSUME [SocketNext]_vars
  PROVE  [ChainNext]_chainVars
<1>1. ASSUME NEW k \in HopKinds, InsertHop(k) PROVE ChainNext
  BY <1>1 DEF InsertHop, ChainNext
<1>2. ASSUME NEW h \in Names, Connect(h) \/ ConnectSSL(h) PROVE ChainNext
  BY <1>2 DEF Connect, ConnectSSL, ChainNext
<1>3. CASE ConnectStage
  BY <1>3 DEF ConnectStage, OpenStageFails, OpenStageOk, RelayOn, RelayArrives,
              RelayStageFails, BindStage, ChainNext
<1>4. ASSUME NEW t \in Timeouts, SetTimeouts(t) PROVE ChainNext
  BY <1>4 DEF SetTimeouts, ChainNext
<1>5. CASE Destroy
  BY <1>5 DEF Destroy, ChainNext
<1>6. ASSUME \/ \E h \in Names : ConnectSSLRefused(h)
             \/ StartSSL \/ StartSSLRefused \/ UseConnection \/ Program
             \/ \E v \in BOOLEAN : SetSSLVerify(v)
      PROVE  UNCHANGED chainVars
  BY <1>6 DEF ConnectSSLRefused, StartSSL, StartSSLRefused, RefuseSSL, UseConnection, Program,
              SetSSLVerify
<1>7. CASE UNCHANGED vars
  BY <1>7 DEF vars
<1> QED BY <1>1, <1>2, <1>3, <1>4, <1>5, <1>6, <1>7 DEF SocketNext

(* Every step of the Socket is a step of the client or leaves it alone.    *)
LEMMA ClientSees ==
  ASSUME ImplTypeOK, [SocketNext]_vars
  PROVE  [ClientNext]_clientVars
<1>1. ASSUME NEW h \in Names, Connect(h) PROVE ClientNext
  BY <1>1 DEF Connect, ClientNext
<1>2. ASSUME NEW h \in Names, ConnectSSL(h) PROVE ClientNext
  BY <1>2 DEF ConnectSSL, ClientNext, ImplTypeOK
<1>3. CASE ConnectStage
  <2>1. CASE OpenStageFails
    BY <2>1 DEF OpenStageFails, ClientNext
  <2>2. ASSUME NEW f \in Fds, OpenStageOk(f) PROVE ClientNext
    BY <2>2 DEF OpenStageOk, ClientNext
  <2>3. CASE RelayOn
    BY <2>3 DEF RelayOn
  <2>4. CASE RelayArrives
    BY <2>4 DEF RelayArrives, ClientNext
  <2>5. ASSUME NEW e \in {"none", "hop"}, RelayStageFails(e) PROVE ClientNext
    BY <2>5 DEF RelayStageFails, ClientNext
  <2>6. CASE BindStage
    BY <2>6 DEF BindStage, ClientNext
  <2> QED BY <1>3, <2>1, <2>2, <2>3, <2>4, <2>5, <2>6 DEF ConnectStage
<1>4. CASE StartSSL
  BY <1>4 DEF StartSSL, ClientNext, ImplTypeOK
<1>5. CASE UseConnection
  BY <1>5 DEF UseConnection, ClientNext
<1>6. ASSUME NEW t \in Timeouts, SetTimeouts(t) PROVE ClientNext
  BY <1>6 DEF SetTimeouts, ClientNext
<1>7. CASE Destroy
  BY <1>7 DEF Destroy, ClientNext
<1>8. CASE Program
  BY <1>8 DEF Program, ClientNext
<1>9. ASSUME \/ \E k \in HopKinds : InsertHop(k)
             \/ \E h \in Names : ConnectSSLRefused(h)
             \/ StartSSLRefused
             \/ \E v \in BOOLEAN : SetSSLVerify(v)
      PROVE  UNCHANGED clientVars
  BY <1>9 DEF InsertHop, ConnectSSLRefused, StartSSLRefused, RefuseSSL, SetSSLVerify
<1>10. CASE UNCHANGED vars
  BY <1>10 DEF vars
<1> QED
  BY <1>1, <1>2, <1>3, <1>4, <1>5, <1>6, <1>7, <1>8, <1>9, <1>10 DEF SocketNext

(* Seen from its chain and from its client a Socket behaves as their       *)
(* modules say, so their theorems can be used of it.                       *)
LEMMA SocketUsesComponents == SocketSpec => ChainSpec /\ ClientSpec
<1>1. SocketInit => ChainInit /\ ClientInit
  BY DEF SocketInit
<1>2. ImplTypeOK /\ [SocketNext]_vars => [ChainNext]_chainVars /\ [ClientNext]_clientVars
  BY ChainSees, ClientSees
<1> QED BY <1>1, <1>2, ImplTypeInit, ImplTypeStep, PTL
        DEF SocketSpec, ChainSpec, ClientSpec

(* So what was proved of them alone holds inside a Socket, for every       *)
(* caller: the timeout reaches the chain, a connect() that is up went      *)
(* through every hop, no descriptor of somebody else is closed, no TLS     *)
(* object is stranded, and no connection falls back to cleartext.          *)
THEOREM ComponentsKeepTheirPromises ==
  SocketSpec => [](/\ TimeoutReachesChain /\ RouteThroughAllHops /\ FailureStopsTheWalk
                     /\ SockIsOurs /\ TlsReleasable /\ NoCleartextAfterTls)
  BY SocketUsesComponents, TimeoutReaches, RouteIsComplete, FailureStops,
     NeverClosesOthers, TlsAlwaysReleasable, NeverBackToCleartext, PTL
-----------------------------------------------------------------------------
(* The route.  The comm is bound after the walk down the chain has ended   *)
(* at the destination, and the next walk begins with a comm that is not.   *)
WalkedWhenBinding == pc = "bind" => outcome = "up" /\ at = NULL
RouteInv == WalkedWhenBinding /\ BoundOnlyWhenRouted

(* The name.  While a connect() runs, d_lastserver is where it is going    *)
(* to and a TLS comm already carries that name.  Afterwards d_lastserver   *)
(* is where a plain comm, which startSSL() may upgrade, is connected to;   *)
(* the refusal of connectSSL() changes it, in a build without TLS only.    *)
NameOfTarget ==
  pc # "idle" => target = d_lastserver /\ (d_comm.kind = "ssh" => d_comm.host = target)
NameOfPlain ==
  withSSL /\ d_comm.kind = "plain" /\ d_comm.fd # NoSock => peer[d_comm.fd] = d_lastserver
NameInv == NameOfTarget /\ NameOfPlain /\ TlsNamesDestination

SocketInv ==
  /\ ImplTypeOK /\ ClientInv
  /\ RouteInv
  /\ CommTimeoutCurrent
  /\ NameInv

LEMMA SocketInvInit == SocketInit => SocketInv
<1> SUFFICES ASSUME SocketInit PROVE SocketInv
  OBVIOUS
<1>1. ImplTypeOK /\ ClientInv
  BY ImplTypeInit, ClientInvInit DEF SocketInit
<1>2. d_comm.kind = "none" /\ d_comm.fd = NoSock /\ pc = "idle"
  BY CommFacts DEF SocketInit, ClientInit
<1> QED BY <1>1, <1>2
     DEF SocketInv, RouteInv, WalkedWhenBinding, BoundOnlyWhenRouted, CommTimeoutCurrent,
         NameInv, NameOfTarget, NameOfPlain, TlsNamesDestination

(* A step that leaves the comm bound as it was, or unbinds it, and moves   *)
(* nothing else that the invariant is about.                               *)
LEMMA SocketInvFrame ==
  ASSUME SocketInv, ImplTypeOK', ClientInv',
         UNCHANGED <<pc, outcome, at, peer, target, d_lastserver, withSSL>>,
         d_comm'.kind = d_comm.kind, d_comm'.host = d_comm.host,
         d_comm'.fd \in {d_comm.fd, NoSock},
         d_comm'.timeout = timeout' \/ (d_comm'.timeout = d_comm.timeout /\ UNCHANGED timeout)
  PROVE  SocketInv'
<1>1. RouteInv'
  BY DEF SocketInv, RouteInv, WalkedWhenBinding, BoundOnlyWhenRouted
<1>2. CommTimeoutCurrent'
  BY DEF SocketInv, CommTimeoutCurrent
<1>3. NameInv'
  BY DEF SocketInv, NameInv, NameOfTarget, NameOfPlain, TlsNamesDestination
<1> QED BY <1>1, <1>2, <1>3 DEF SocketInv

(* connect() and connectSSL() begin with a comm that is not bound.         *)
LEMMA SocketInvConnect ==
  ASSUME SocketInv, ImplTypeOK', ClientInv',
         NEW h \in Names, Connect(h) \/ ConnectSSL(h)
  PROVE  SocketInv'
<1>1. /\ d_comm'.fd = NoSock /\ d_comm'.timeout = timeout
      /\ d_comm'.kind = "ssh" => d_comm'.host = h
  BY DEF Connect, ConnectSSL, BeginConnect, NewPlain, NewSsh, NoComm
<1>2. pc' = "open" /\ target' = h /\ d_lastserver' = h /\ timeout' = timeout
  BY DEF Connect, ConnectSSL, BeginConnect
<1> QED BY <1>1, <1>2
     DEF SocketInv, RouteInv, WalkedWhenBinding, BoundOnlyWhenRouted, CommTimeoutCurrent,
         NameInv, NameOfTarget, NameOfPlain, TlsNamesDestination

(* Until the connect() binds its comm, the comm is unbound; it is bound    *)
(* when the walk is over.                                                  *)
LEMMA SocketInvStage ==
  ASSUME SocketInv, ImplTypeOK', ClientInv', ConnectStage
  PROVE  SocketInv'
<1>0. /\ d_comm \in Comms /\ peer \in [Fds -> Names] /\ d_sock \in Fds
      /\ pc # "idle" => d_comm.fd = NoSock
  BY DEF SocketInv, ClientInv, ClientTypeOK, InProgress
<1>1. ASSUME UNCHANGED <<d_comm, timeout, target, d_lastserver, withSSL>>, pc # "idle",
             pc' = "bind" => outcome' = "up" /\ at' = NULL
      PROVE  SocketInv'
  BY <1>0, <1>1
     DEF SocketInv, RouteInv, WalkedWhenBinding, BoundOnlyWhenRouted, CommTimeoutCurrent,
         NameInv, NameOfTarget, NameOfPlain, TlsNamesDestination
<1>2. CASE OpenStageFails
  BY <1>1, <1>2 DEF OpenStageFails, OpenRejected, OpenZero, OpenFailed, Returns, implVars
<1>3. ASSUME NEW f \in Fds, OpenStageOk(f) PROVE SocketInv'
  BY <1>1, <1>3 DEF OpenStageOk, StageOk, Opened, implVars
<1>4. CASE RelayOn
  BY <1>1, <1>4 DEF RelayOn, clientVars, implVars
<1>5. CASE RelayArrives
  BY <1>1, <1>5 DEF RelayArrives, StageOk, Relayed, implVars
<1>6. ASSUME NEW e \in {"none", "hop"}, RelayStageFails(e) PROVE SocketInv'
  BY <1>1, <1>6 DEF RelayStageFails, RelayFailed, Returns, implVars
<1>7. CASE BindStage
  <2>1. /\ d_comm'.fd = d_sock /\ d_comm'.kind = d_comm.kind /\ d_comm'.host = d_comm.host
        /\ d_comm'.timeout = d_comm.timeout
    BY <1>0, <1>7 DEF BindStage, BindPlain, BindTls, Bound, BoundTls, Comms
  <2>2. /\ pc = "bind" /\ peer'[d_sock] = target /\ pc' = "idle"
        /\ UNCHANGED <<timeout, target, d_lastserver, withSSL, outcome, at>>
    BY <1>0, <1>7 DEF BindStage, BindPlain, BindTls, Returns, chainVars, implVars
  <2> QED BY <2>1, <2>2
       DEF SocketInv, RouteInv, WalkedWhenBinding, BoundOnlyWhenRouted, CommTimeoutCurrent,
           NameInv, NameOfTarget, NameOfPlain, TlsNamesDestination
<1> QED BY <1>2, <1>3, <1>4, <1>5, <1>6, <1>7 DEF ConnectStage

(* startSSL() replaces a plain comm, bound to d_sock, by a TLS one with    *)
(* the name that d_lastserver holds, or ends the connection.               *)
LEMMA SocketInvStartSSL ==
  ASSUME SocketInv, ImplTypeOK', ClientInv', StartSSL
  PROVE  SocketInv'
<1>0. withSSL /\ pc = "idle" /\ at = NULL
      /\ UNCHANGED <<outcome, at, d_lastserver, withSSL>>
  BY DEF StartSSL, Idle, ChainIdle, ClientIdle, chainVars
<1>1. CASE StartRefused
  BY <1>0, <1>1, SocketInvFrame DEF StartRefused, Returns
<1>2. ASSUME NEW hs \in HandshakeEnds,
             StartTls(d_lastserver, d_sslverify, hs) \/ StartTlsFailed(d_lastserver, d_sslverify, hs)
      PROVE  SocketInv'
  <2>1. /\ d_comm.kind = "plain" /\ d_comm.fd # NoSock /\ d_sock # NoSock
    <3>1. StartError = "none"
      BY <1>2 DEF StartTls, StartTlsFailed
    <3> QED BY <3>1 DEF StartError, SocketInv, ClientInv, ClientTypeOK, Comms
  <2>2. d_comm.fd = d_sock
    BY <2>1 DEF SocketInv, ClientInv, CommFollowsSock, AfterFailedUpgrade
  <2>3. /\ d_comm'.kind = "ssh" /\ d_comm'.fd = d_sock /\ d_comm'.host = d_lastserver
        /\ d_comm'.timeout = timeout
    BY <1>2 DEF StartTls, StartTlsFailed, BoundTls, NewSsh, NoComm
  <2>4. pc' = "idle" /\ UNCHANGED <<peer, timeout, target>>
    BY <1>2 DEF StartTls, StartTlsFailed, Returns
  <2> QED BY <1>0, <2>1, <2>2, <2>3, <2>4
       DEF SocketInv, RouteInv, WalkedWhenBinding, BoundOnlyWhenRouted, CommTimeoutCurrent,
           NameInv, NameOfTarget, NameOfPlain, TlsNamesDestination
<1> QED BY <1>1, <1>2 DEF StartSSL

LEMMA SocketInvStep == SocketInv /\ [SocketNext]_vars => SocketInv'
<1> SUFFICES ASSUME SocketInv, [SocketNext]_vars PROVE SocketInv'
  OBVIOUS
<1>0. ImplTypeOK' /\ ClientInv' /\ d_comm \in Comms
  BY ImplTypeStep, ClientSees, ClientInvStep DEF SocketInv, ClientInv, ClientTypeOK
<1>1. ASSUME NEW k \in HopKinds, InsertHop(k) PROVE SocketInv'
  BY <1>0, <1>1, SocketInvFrame DEF InsertHop, Insert, walkVars, clientVars, implVars
<1>2. ASSUME NEW h \in Names, Connect(h) \/ ConnectSSL(h) PROVE SocketInv'
  BY <1>0, <1>2, SocketInvConnect
<1>3. ASSUME NEW h \in Names, ConnectSSLRefused(h) PROVE SocketInv'
  <2>1. ~withSSL /\ ~withSSL' /\ pc = "idle" /\ UNCHANGED <<chainVars, clientVars>>
    BY <1>3 DEF ConnectSSLRefused, RefuseSSL, Idle, ClientIdle
  <2> QED BY <1>0, <2>1
       DEF chainVars, clientVars, SocketInv, RouteInv, WalkedWhenBinding, BoundOnlyWhenRouted,
           CommTimeoutCurrent, NameInv, NameOfTarget, NameOfPlain, TlsNamesDestination
<1>4. CASE ConnectStage
  BY <1>0, <1>4, SocketInvStage
<1>5. CASE StartSSL
  BY <1>0, <1>5, SocketInvStartSSL
<1>6. CASE StartSSLRefused
  BY <1>0, <1>6, SocketInvFrame DEF StartSSLRefused, RefuseSSL, chainVars, clientVars
<1>7. CASE UseConnection
  <2>1. /\ pc' = "idle" /\ pc = "idle"
        /\ UNCHANGED <<outcome, at, d_lastserver, withSSL, peer, target, timeout>>
    BY <1>7 DEF UseConnection, Transfer, TransferNothing, SendsNull, SendsEmpty, Close, ClientIdle,
             Returns,
                chainVars, implVars
  <2>2. /\ d_comm'.kind = d_comm.kind /\ d_comm'.host = d_comm.host
        /\ d_comm'.fd \in {d_comm.fd, NoSock} /\ d_comm'.timeout = d_comm.timeout
    <3>1. CASE Transfer
      BY <1>0, <3>1 DEF Transfer, Comms
    <3>2. CASE TransferNothing \/ SendsNull \/ SendsEmpty
      BY <3>2 DEF TransferNothing, SendsNull, SendsEmpty
    <3>3. CASE Close
      BY <1>0, <3>3 DEF Close, Finished, Comms
    <3> QED BY <1>7, <3>1, <3>2, <3>3 DEF UseConnection
  <2> QED BY <1>0, <2>1, <2>2, SocketInvFrame
<1>8. ASSUME NEW t \in Timeouts, SetTimeouts(t) PROVE SocketInv'
  <2>1. UNCHANGED <<pc, outcome, at, peer, target, d_lastserver, withSSL>>
    BY <1>8 DEF SetTimeouts, SetTimeout, SetCommTimeout, walkVars, implVars
  <2>2. /\ d_comm'.kind = d_comm.kind /\ d_comm'.host = d_comm.host
        /\ d_comm'.fd = d_comm.fd
        /\ d_comm'.kind # "none" => d_comm'.timeout = timeout'
    BY <1>0, <1>8 DEF SetTimeouts, SetCommTimeout, Comms
  <2> QED BY <1>0, <2>1, <2>2
       DEF SocketInv, RouteInv, WalkedWhenBinding, BoundOnlyWhenRouted, CommTimeoutCurrent,
           NameInv, NameOfTarget, NameOfPlain, TlsNamesDestination
<1>9. ASSUME NEW v \in BOOLEAN, SetSSLVerify(v) PROVE SocketInv'
  BY <1>0, <1>9, SocketInvFrame DEF SetSSLVerify, chainVars, clientVars
<1>10. CASE Destroy
  <2>1. d_comm'.kind = "none" /\ d_comm'.fd = NoSock /\ pc' = "idle"
    BY <1>10, CommFacts DEF Destroy, DestroyClient, ClientIdle
  <2> QED BY <1>0, <2>1
       DEF SocketInv, RouteInv, WalkedWhenBinding, BoundOnlyWhenRouted, CommTimeoutCurrent,
           NameInv, NameOfTarget, NameOfPlain, TlsNamesDestination
<1>11. CASE Program
  BY <1>0, <1>11, SocketInvFrame
     DEF Program, ProgramOpens, ProgramCloses, chainVars, implVars
<1>12. CASE UNCHANGED vars
  BY <1>0, <1>12, SocketInvFrame DEF vars, chainVars, clientVars, implVars
<1> QED
  BY <1>1, <1>2, <1>3, <1>4, <1>5, <1>6, <1>7, <1>8, <1>9, <1>10, <1>11, <1>12 DEF SocketNext

LEMMA SocketInvariant == SocketSpec => []SocketInv
  BY SocketInvInit, SocketInvStep, PTL DEF SocketSpec

(* No comm is ever bound before its connect() has gone through the whole   *)
(* chain, nor left bound when the next walk begins.                        *)
THEOREM AlwaysRouted == SocketSpec => []BoundOnlyWhenRouted
<1>1. SocketInv => BoundOnlyWhenRouted
  BY DEF SocketInv, RouteInv
<1> QED BY <1>1, SocketInvariant, PTL

(* Whatever order setTimeout(), connect() and startSSL() come in, sends    *)
(* and reads are under the timeout last set.                               *)
THEOREM CommTimeoutAlwaysCurrent == SocketSpec => []CommTimeoutCurrent
<1>1. SocketInv => CommTimeoutCurrent
  BY DEF SocketInv
<1> QED BY <1>1, SocketInvariant, PTL

(* A certificate is never checked against the name of another host than    *)
(* the one the connection leads to.                                        *)
THEOREM TlsAlwaysNamesDestination == SocketSpec => []TlsNamesDestination
<1>1. SocketInv => TlsNamesDestination
  BY DEF SocketInv, NameInv
<1> QED BY <1>1, SocketInvariant, PTL
-----------------------------------------------------------------------------
(* Errors.  While a connect() runs it has not failed yet.                  *)
ErrorInv ==
  /\ pc # "idle" => ret = "none"
  /\ FailureDescribed

(* A call of the client that fails, fails with a description.              *)
DescribedByClient == ret' = "fail" => d_error' # "none"

LEMMA ErrorFromClient ==
  ASSUME Reports, DescribedByClient, pc' # "idle" => ret' = "none"
  PROVE  ErrorInv'
  BY DEF Reports, DescribedByClient, ErrorInv, FailureDescribed, GetError

(* The stages of a connect(): all but a SOCKS5 hop describe their failure. *)
LEMMA StageDescribed ==
  ASSUME ErrorInv, ConnectStage
  PROVE  ErrorInv'
<1>1. CASE OpenStageFails
  <2>1. ret' = "fail" /\ d_error' # "none" /\ pc' = "idle" /\ Reports
    BY <1>1 DEF OpenStageFails, OpenRejected, OpenZero, OpenFailed, Returns
  <2> QED BY <2>1, ErrorFromClient DEF DescribedByClient
<1>2. ASSUME NEW f \in Fds, OpenStageOk(f) PROVE ErrorInv'
  <2>1. ret' = "none" /\ Reports
    BY <1>2 DEF OpenStageOk, Opened, ErrorInv
  <2> QED BY <2>1, ErrorFromClient DEF DescribedByClient
<1>3. CASE RelayOn
  <2>1. ~failed \/ GetError # "none" \/ (outcome = "failed" /\ kind[blame] = "socks5")
    BY DEF ErrorInv, FailureDescribed
  <2>2. outcome' = outcome /\ kind' = kind /\ blame' = blame
    BY <1>3 DEF RelayOn, StageOk, heapVars
  <2> QED BY <1>3, <2>1, <2>2
       DEF RelayOn, clientVars, implVars, ErrorInv, FailureDescribed, GetError
<1>4. CASE RelayArrives
  <2>1. ret' = "none" /\ Reports
    BY <1>4 DEF RelayArrives, Relayed, ErrorInv
  <2> QED BY <2>1, ErrorFromClient DEF DescribedByClient
<1>5. ASSUME NEW e \in {"none", "hop"}, RelayStageFails(e) PROVE ErrorInv'
  <2>1. ret' = "fail" /\ d_error' = e /\ pc' = "idle" /\ Reports
    BY <1>5 DEF RelayStageFails, RelayFailed, Returns
  <2>2. CASE e = "hop"
    BY <2>1, <2>2, ErrorFromClient DEF DescribedByClient
  <2>3. CASE e = "none"
    <3>1. kind[at] = "socks5" /\ outcome' = "failed" /\ blame' = at /\ kind' = kind
      BY <1>5, <2>3 DEF RelayStageFails, StageFail, heapVars
    <3> QED BY <2>1, <3>1 DEF ErrorInv, FailureDescribed
  <2> QED BY <1>5, <2>2, <2>3
<1>6. CASE BindStage
  <2>1. (ret' = "ok" \/ d_error' = "tls") /\ pc' = "idle" /\ Reports
    BY <1>6 DEF BindStage, BindPlain, BindTls, Returns
  <2> QED BY <2>1, ErrorFromClient DEF DescribedByClient
<1> QED BY <1>1, <1>2, <1>3, <1>4, <1>5, <1>6 DEF ConnectStage

LEMMA ErrorStep == ErrorInv /\ [SocketNext]_vars => ErrorInv'
<1> SUFFICES ASSUME ErrorInv, [SocketNext]_vars PROVE ErrorInv'
  OBVIOUS
<1>1. ASSUME UNCHANGED <<pc, ret, d_error, d_sslerror>>,
             ~failed' \/ UNCHANGED <<failed, outcome, kind, blame>>
      PROVE  ErrorInv'
  BY <1>1 DEF ErrorInv, FailureDescribed, GetError
<1>2. ASSUME NEW k \in HopKinds, InsertHop(k) PROVE ErrorInv'
  BY <1>1, <1>2 DEF InsertHop, clientVars, implVars
<1>3. ASSUME NEW h \in Names, Connect(h) \/ ConnectSSL(h) PROVE ErrorInv'
  <2>1. ret' = "none" /\ Reports
    BY <1>3 DEF Connect, ConnectSSL, BeginConnect
  <2> QED BY <2>1, ErrorFromClient DEF DescribedByClient
<1>4. ASSUME (\E h \in Names : ConnectSSLRefused(h)) \/ StartSSLRefused PROVE ErrorInv'
  <2>1. d_sslerror' = "nossl" /\ UNCHANGED clientVars
    BY <1>4 DEF ConnectSSLRefused, StartSSLRefused, RefuseSSL
  <2> QED BY <2>1 DEF clientVars, ErrorInv, FailureDescribed, GetError
<1>5. CASE ConnectStage
  BY <1>5, StageDescribed
<1>6. CASE StartSSL
  <2>1. (ret' = "ok" \/ d_error' # "none") /\ pc' = "idle" /\ Reports
    BY <1>6 DEF StartSSL, StartRefused, StartTls, StartTlsFailed, Returns
  <2> QED BY <2>1, ErrorFromClient DEF DescribedByClient
<1>7. CASE UseConnection
  <2>1. (ret' = "ok" \/ d_error' # "none") /\ pc' = "idle" /\ Reports
    BY <1>7 DEF UseConnection, Transfer, TransferNothing, SendsNull, SendsEmpty, Close, Returns
  <2> QED BY <2>1, ErrorFromClient DEF DescribedByClient
<1>8. ASSUME NEW t \in Timeouts, SetTimeouts(t) PROVE ErrorInv'
  BY <1>1, <1>8 DEF SetTimeouts, SetTimeout, SetCommTimeout, heapVars, walkVars, implVars
<1>9. ASSUME NEW v \in BOOLEAN, SetSSLVerify(v) PROVE ErrorInv'
  BY <1>1, <1>9 DEF SetSSLVerify, chainVars, clientVars
<1>10. CASE Destroy
  BY <1>1, <1>10 DEF Destroy, DestroyChain, DestroyClient, heapVars, walkVars, implVars
<1>11. CASE Program
  BY <1>1, <1>11 DEF Program, ProgramOpens, ProgramCloses, chainVars, implVars
<1>12. CASE UNCHANGED vars
  BY <1>1, <1>12 DEF vars, chainVars, clientVars, implVars
<1> QED
  BY <1>2, <1>3, <1>4, <1>5, <1>6, <1>7, <1>8, <1>9, <1>10, <1>11, <1>12 DEF SocketNext

(* Every call that reports a failure leaves a description behind, through  *)
(* whatever calls came before it and whichever error hides which, unless   *)
(* a SOCKS5 hop, whose failure to read the method reply has no message,    *)
(* stopped the last connect().                                             *)
THEOREM FailureAlwaysDescribed == SocketSpec => []FailureDescribed
<1>1. SocketInit => ErrorInv
  BY DEF SocketInit, ClientInit, ErrorInv, FailureDescribed
<1>2. ErrorInv => FailureDescribed
  BY DEF ErrorInv
<1> QED BY <1>1, <1>2, ErrorStep, PTL DEF SocketSpec
=============================================================================
