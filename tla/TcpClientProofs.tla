-------------------------- MODULE TcpClientProofs --------------------------
(***************************************************************************)
(* Proofs about the client, for any number of descriptors, any hosts and   *)
(* timeouts, and for every way the rest of the program opens and closes    *)
(* descriptors in between.                                                 *)
(***************************************************************************)
EXTENDS TcpClient, TLAPS

(* The comms that a call constructs, binds or finishes are comms.          *)
LEMMA CommTypes ==
  ASSUME timeout \in Timeouts
  PROVE  /\ NoComm \in Comms
         /\ NewPlain \in Comms
         /\ \A h \in Names, v \in BOOLEAN : NewSsh(h, v) \in Comms
<1> USE ClientConstants, TimeoutsAssumption
<1>1. NoSock \in Fds /\ NoHost \in Names
  BY DEF NoSock, Fds, Names
<1>2. NoComm \in Comms
  BY <1>1 DEF NoComm, Comms, SslStates
<1>3. NewPlain \in Comms
  BY <1>1 DEF NewPlain, NoComm, Comms, SslStates
<1>4. \A h \in Names, v \in BOOLEAN : NewSsh(h, v) \in Comms
  BY <1>1 DEF NewSsh, NoComm, Comms, SslStates
<1> QED BY <1>2, <1>3, <1>4

LEMMA HandshakeTypes ==
  ASSUME NEW hs \in HandshakeEnds
  PROVE  hs.ctx \in BOOLEAN /\ hs.ssl \in SslStates
  BY DEF HandshakeEnds

LEMMA BoundTypes ==
  ASSUME NEW comm \in Comms, NEW f \in Fds
  PROVE  /\ Bound(comm, f) \in Comms
         /\ Finished(comm) \in Comms
         /\ \A hs \in HandshakeEnds : BoundTls(comm, f, hs) \in Comms
<1>1. Bound(comm, f) \in Comms
  BY DEF Bound, Comms
<1>2. Finished(comm) \in Comms
  <2>1. NoSock \in Fds
    BY ClientConstants DEF NoSock, Fds
  <2> QED BY <2>1 DEF Finished, Comms, SslStates
<1>3. \A hs \in HandshakeEnds : BoundTls(comm, f, hs) \in Comms
  BY HandshakeTypes DEF BoundTls, Comms
<1> QED BY <1>1, <1>2, <1>3
-----------------------------------------------------------------------------
LEMMA ClientTypeInit == ClientInit => ClientTypeOK
<1> SUFFICES ASSUME ClientInit PROVE ClientTypeOK
  OBVIOUS
<1>1. timeout \in Timeouts /\ NoSock \in Fds /\ NoHost \in Names
  <2>1. NoSock \in Fds
    BY ClientConstants DEF NoSock, Fds
  <2>2. timeout \in Timeouts
    BY TimeoutsAssumption DEF ClientInit
  <2> QED BY <2>1, <2>2 DEF Names
<1>2. d_comm \in Comms
  BY <1>1, CommTypes DEF ClientInit
<1>3. fds \in [Fds -> {"free", "lib", "other"}] /\ peer \in [Fds -> Names]
  BY <1>1 DEF ClientInit
<1> QED BY <1>1, <1>2, <1>3 DEF ClientInit, ClientTypeOK, Errors

LEMMA ClientTypeStep == ClientTypeOK /\ [ClientNext]_clientVars => ClientTypeOK'
<1> SUFFICES ASSUME ClientTypeOK, [ClientNext]_clientVars PROVE ClientTypeOK'
  OBVIOUS
<1>0. NoSock \in Fds /\ 0 \in Fds /\ NoHost \in Names
  BY ClientConstants DEF NoSock, Fds, Names
<1> USE ClientTypeOK DEF ClientTypeOK
<1>1. ASSUME NEW h \in Names, BeginConnect(NewPlain, h) PROVE ClientTypeOK'
  BY <1>1, CommTypes DEF BeginConnect
<1>2. ASSUME NEW h \in Names, NEW v \in BOOLEAN, BeginConnect(NewSsh(h, v), h)
      PROVE  ClientTypeOK'
  BY <1>2, CommTypes DEF BeginConnect
<1>3. CASE OpenRejected
  BY <1>3 DEF OpenRejected, Returns, Errors, ghostVars
<1>4. CASE OpenZero
  BY <1>0, <1>4 DEF OpenZero, Returns, Errors, ghostVars
<1>5. CASE OpenFailed
  BY <1>0, <1>5 DEF OpenFailed, Returns, Errors, ghostVars
<1>6. ASSUME NEW f \in Fds, NEW next \in {"relay", "bind"}, Opened(f, next)
      PROVE  ClientTypeOK'
  BY <1>6 DEF Opened
<1>7. CASE Relayed
  BY <1>7 DEF Relayed, ghostVars
<1>8. ASSUME NEW e \in {"none", "hop"}, RelayFailed(e) PROVE ClientTypeOK'
  BY <1>8 DEF RelayFailed, Returns, Errors, ghostVars
<1>9. CASE BindPlain
  BY <1>9, BoundTypes DEF BindPlain, Returns
<1>10. ASSUME NEW hs \in HandshakeEnds, BindTls(hs) PROVE ClientTypeOK'
  <2>1. BoundTls(d_comm, d_sock, hs) \in Comms
    BY BoundTypes
  <2>2. ret' \in {"ok", "fail"} /\ d_error' \in Errors /\ pc' = "idle"
    BY <1>10 DEF BindTls, Returns, Errors
  <2>3. owesClose' \in BOOLEAN
    BY <1>10 DEF BindTls
  <2> QED BY <1>10, <2>1, <2>2, <2>3 DEF BindTls
<1>11. CASE StartRefused
  <2>1. StartError \in Errors
    BY DEF StartError, Errors
  <2> QED BY <1>11, <2>1 DEF StartRefused, Returns, ghostVars
<1>12. ASSUME NEW h \in Names, NEW v \in BOOLEAN, NEW hs \in HandshakeEnds,
              StartTls(h, v, hs)
       PROVE  ClientTypeOK'
  <2>1. BoundTls(NewSsh(h, v), d_sock, hs) \in Comms
    BY CommTypes, BoundTypes
  <2> QED BY <1>12, <2>1 DEF StartTls, Returns
<1>13. ASSUME NEW h \in Names, NEW v \in BOOLEAN, NEW hs \in HandshakeEnds,
              StartTlsFailed(h, v, hs)
       PROVE  ClientTypeOK'
  <2>1. BoundTls(NewSsh(h, v), d_sock, hs) \in Comms
    BY CommTypes, BoundTypes
  <2> QED BY <1>0, <1>13, <2>1 DEF StartTlsFailed, Returns, Errors
<1>14. CASE Transfer
  <2>1. d_comm' \in Comms
    BY <1>14 DEF Transfer, Comms, SslStates
  <2>2. ret' \in {"ok", "fail"} /\ d_error' \in Errors /\ pc' = "idle"
    BY <1>14 DEF Transfer, Returns, Errors
  <2>3. stray' \in BOOLEAN
    BY <1>14 DEF Transfer
  <2> QED BY <1>14, <2>1, <2>2, <2>3 DEF Transfer, ghostVars
<1>15. CASE TransferNothing \/ SendsNull
  BY <1>15 DEF TransferNothing, SendsNull, Returns, Errors, ghostVars
<1>16. CASE SendsEmpty
  BY <1>16 DEF SendsEmpty, Returns, ghostVars
<1>17. CASE Close
  <2>1. d_comm' \in Comms
    BY <1>17, BoundTypes DEF Close
  <2>2. ret' \in {"ok", "fail"} /\ d_error' \in Errors /\ pc' = "idle"
    BY <1>17 DEF Close, Returns, Errors
  <2>3. stray' \in BOOLEAN
    BY <1>17 DEF Close
  <2>4. fds' \in [Fds -> {"free", "lib", "other"}] /\ d_sock' \in Fds
    BY <1>0, <1>17 DEF Close
  <2> QED BY <1>17, <2>1, <2>2, <2>3, <2>4 DEF Close
<1>18. ASSUME NEW t \in Timeouts, SetCommTimeout(t) PROVE ClientTypeOK'
  <2>1. d_comm' \in Comms
    BY <1>18 DEF SetCommTimeout, Comms
  <2> QED BY <1>18, <2>1 DEF SetCommTimeout, ghostVars
<1>19. CASE DestroyClient
  BY <1>0, <1>19, CommTypes DEF DestroyClient, ghostVars
<1>20. ASSUME NEW f \in Fds, ProgramOpens(f) PROVE ClientTypeOK'
  BY <1>20 DEF ProgramOpens, ghostVars
<1>21. ASSUME NEW f \in Fds, ProgramCloses(f) PROVE ClientTypeOK'
  BY <1>21 DEF ProgramCloses, ghostVars
<1>22. CASE UNCHANGED clientVars
  BY <1>22 DEF clientVars
<1> QED
  BY <1>1, <1>2, <1>3, <1>4, <1>5, <1>6, <1>7, <1>8, <1>9, <1>10, <1>11, <1>12,
     <1>13, <1>14, <1>15, <1>16, <1>17, <1>18, <1>19, <1>20, <1>21, <1>22
     DEF ClientNext

(* Every variable of the client keeps its type.                            *)
THEOREM ClientTypeCorrect == ClientSpec => []ClientTypeOK
  BY ClientTypeInit, ClientTypeStep, PTL DEF ClientSpec
-----------------------------------------------------------------------------
(* What a connect() in progress may rely on: until it binds, the comm is   *)
(* unbound; once a descriptor is open it is d_sock, and no TLS was asked   *)
(* for on it yet.                                                          *)
InProgress ==
  /\ pc # "idle" => d_comm.fd = NoSock /\ ~upgradeFailed
  /\ pc \in {"relay", "bind"} => d_sock # NoSock /\ ~tlsAsked

(* What a failed startSSL() leaves: no descriptor, and a TLS comm that is  *)
(* still bound to the number it had.                                       *)
AfterFailedUpgrade ==
  /\ upgradeFailed => d_sock = NoSock /\ d_comm.kind # "plain"
  /\ upgradeFailed /\ StopAfterFail => d_comm.ssl # "up"

(* Everything that holds of the client whoever calls it: the inductive     *)
(* invariant.                                                              *)
ClientInv ==
  /\ ClientTypeOK
  /\ SockIsOurs
  /\ TlsReleasable
  /\ CommFollowsSock
  /\ NoCleartextAfterTls
  /\ InProgress
  /\ AfterFailedUpgrade
  /\ StopAfterFail => NoStrayUse

(* The facts about constructed comms that the steps below use.             *)
LEMMA CommFacts ==
  /\ NoComm.kind = "none" /\ NoComm.fd = NoSock /\ ~NoComm.ctx /\ NoComm.ssl = "null"
  /\ NewPlain.kind = "plain" /\ NewPlain.fd = NoSock /\ ~NewPlain.ctx /\ NewPlain.ssl = "null"
  /\ \A h, v : LET c == NewSsh(h, v)
               IN  c.kind = "ssh" /\ c.fd = NoSock /\ ~c.ctx /\ c.ssl = "null"
  BY DEF NoComm, NewPlain, NewSsh

(* SSL_shutdown never writes to a descriptor of somebody else.             *)
LEMMA ShutdownIsOurs ==
  ASSUME ClientInv, StopAfterFail
  PROVE  ~StrayShutdown(d_comm)
  BY DEF ClientInv, StrayShutdown, CommFollowsSock, SockIsOurs, AfterFailedUpgrade, TlsReleasable

(* Nor do send and read, where the caller stops after a failed upgrade.    *)
LEMMA TransferIsOurs ==
  ASSUME ClientInv, ~upgradeFailed, UsesDescriptor(d_comm)
  PROVE  fds[d_comm.fd] = "lib"
  BY DEF ClientInv, UsesDescriptor, CommFollowsSock, SockIsOurs

LEMMA ClientInvInit == ClientInit => ClientInv
  BY ClientTypeInit, CommFacts
     DEF ClientInit, ClientInv, SockIsOurs, TlsReleasable, CommFollowsSock,
         NoCleartextAfterTls, InProgress, AfterFailedUpgrade, NoStrayUse, NoSock

LEMMA ClientInvStep == ClientInv /\ [ClientNext]_clientVars => ClientInv'
<1> SUFFICES ASSUME ClientInv, [ClientNext]_clientVars PROVE ClientInv'
  OBVIOUS
<1>0. ClientTypeOK'
  BY ClientTypeStep DEF ClientInv
<1> USE <1>0 DEF ClientInv
<1>1. ASSUME NEW comm \in Comms, NEW h, BeginConnect(comm, h), comm.fd = NoSock,
             ~comm.ctx, comm.ssl = "null"
      PROVE  ClientInv'
  BY <1>1, ShutdownIsOurs
     DEF BeginConnect, ClientIdle, SockIsOurs, TlsReleasable, CommFollowsSock,
         NoCleartextAfterTls, InProgress, AfterFailedUpgrade, NoStrayUse
<1>2. ASSUME NEW h \in Names, BeginConnect(NewPlain, h) PROVE ClientInv'
  BY <1>1, <1>2, CommFacts, CommTypes DEF ClientTypeOK
<1>3. ASSUME NEW h \in Names, NEW v \in BOOLEAN, BeginConnect(NewSsh(h, v), h)
      PROVE  ClientInv'
  BY <1>1, <1>3, CommFacts, CommTypes DEF ClientTypeOK
<1>4. CASE OpenRejected
  BY <1>4 DEF OpenRejected, Returns, ghostVars, SockIsOurs, TlsReleasable, CommFollowsSock,
              NoCleartextAfterTls, InProgress, AfterFailedUpgrade, NoStrayUse
<1>5. CASE OpenZero
  BY <1>5 DEF OpenZero, Returns, ghostVars, SockIsOurs, TlsReleasable, CommFollowsSock,
              NoCleartextAfterTls, InProgress, AfterFailedUpgrade, NoStrayUse, NoSock
<1>6. CASE OpenFailed
  BY <1>6 DEF OpenFailed, Returns, ghostVars, SockIsOurs, TlsReleasable, CommFollowsSock,
              NoCleartextAfterTls, InProgress, AfterFailedUpgrade, NoStrayUse
<1>7. ASSUME NEW f \in Fds, NEW next \in {"relay", "bind"}, Opened(f, next)
      PROVE  ClientInv'
  BY <1>7 DEF Opened, ClientTypeOK, SockIsOurs, TlsReleasable, CommFollowsSock,
              NoCleartextAfterTls, InProgress, AfterFailedUpgrade, NoStrayUse, NoSock
<1>8. CASE Relayed
  BY <1>8 DEF Relayed, ghostVars, SockIsOurs, TlsReleasable, CommFollowsSock,
              NoCleartextAfterTls, InProgress, AfterFailedUpgrade, NoStrayUse
<1>9. ASSUME NEW e \in {"none", "hop"}, RelayFailed(e) PROVE ClientInv'
  BY <1>9 DEF RelayFailed, Returns, ghostVars, SockIsOurs, TlsReleasable, CommFollowsSock,
              NoCleartextAfterTls, InProgress, AfterFailedUpgrade, NoStrayUse
<1>10. CASE BindPlain
  BY <1>10 DEF BindPlain, Bound, Returns, ClientTypeOK, Comms, SockIsOurs, TlsReleasable,
               CommFollowsSock, NoCleartextAfterTls, InProgress, AfterFailedUpgrade, NoStrayUse
<1>11. ASSUME NEW hs \in HandshakeEnds, BindTls(hs) PROVE ClientInv'
  BY <1>11 DEF BindTls, BoundTls, Returns, ClientTypeOK, Comms, SockIsOurs, TlsReleasable,
               CommFollowsSock, NoCleartextAfterTls, InProgress, AfterFailedUpgrade, NoStrayUse
<1>12. CASE StartRefused
  BY <1>12 DEF StartRefused, ClientIdle, Returns, ghostVars, SockIsOurs, TlsReleasable,
               CommFollowsSock, NoCleartextAfterTls, InProgress, AfterFailedUpgrade, NoStrayUse
<1>13. ASSUME NEW h \in Names, NEW v \in BOOLEAN, NEW hs \in HandshakeEnds,
              BoundTls(NewSsh(h, v), d_sock, hs).fd = d_sock,
              BoundTls(NewSsh(h, v), d_sock, hs).kind = "ssh",
              BoundTls(NewSsh(h, v), d_sock, hs).ssl = hs.ssl
       PROVE  /\ StartTls(h, v, hs) => ClientInv'
              /\ StartTlsFailed(h, v, hs) => ClientInv'
  <2>1. StartError = "none" => d_sock # NoSock /\ ~upgradeFailed
    BY DEF StartError, AfterFailedUpgrade
  <2>2. ASSUME StartTls(h, v, hs) PROVE ClientInv'
    BY <1>13, <2>1, <2>2
       DEF StartTls, ClientIdle, Returns, SockIsOurs, TlsReleasable, CommFollowsSock,
           NoCleartextAfterTls, InProgress, AfterFailedUpgrade, NoStrayUse
  <2>3. ASSUME StartTlsFailed(h, v, hs) PROVE ClientInv'
    BY <1>13, <2>1, <2>3
       DEF StartTlsFailed, ClientIdle, Returns, SockIsOurs, TlsReleasable, CommFollowsSock,
           NoCleartextAfterTls, InProgress, AfterFailedUpgrade, NoStrayUse
  <2> QED BY <2>2, <2>3
<1>14. ASSUME NEW h \in Names, NEW v \in BOOLEAN, NEW hs \in HandshakeEnds
       PROVE  /\ BoundTls(NewSsh(h, v), d_sock, hs).fd = d_sock
              /\ BoundTls(NewSsh(h, v), d_sock, hs).kind = "ssh"
              /\ BoundTls(NewSsh(h, v), d_sock, hs).ssl = hs.ssl
  BY DEF BoundTls, NewSsh, NoComm
<1>15. CASE Transfer
  <2>1. /\ d_comm'.fd = d_comm.fd /\ d_comm'.kind = d_comm.kind /\ d_comm'.ctx = d_comm.ctx
        /\ d_comm'.ssl # d_comm.ssl => d_comm.fd # NoSock /\ d_comm.ssl # "null"
    BY <1>15 DEF Transfer, ClientTypeOK, Comms
  <2>2. upgradeFailed /\ StopAfterFail => FALSE
    BY <1>15 DEF Transfer
  <2>3. StopAfterFail => ~stray'
    BY <1>15, <2>2, TransferIsOurs DEF Transfer, NoStrayUse
  <2>4. pc' = "idle"
    BY <1>15 DEF Transfer, Returns
  <2>5. UNCHANGED <<fds, d_sock, upgradeFailed, tlsAsked>>
    BY <1>15 DEF Transfer, ghostVars
  <2> QED BY <2>1, <2>2, <2>3, <2>4, <2>5
       DEF SockIsOurs, TlsReleasable, CommFollowsSock, NoCleartextAfterTls, InProgress,
           AfterFailedUpgrade, NoStrayUse
<1>16. CASE TransferNothing \/ SendsNull
  BY <1>16 DEF TransferNothing, SendsNull, ClientIdle, Returns, ghostVars, SockIsOurs, TlsReleasable,
               CommFollowsSock, NoCleartextAfterTls, InProgress, AfterFailedUpgrade, NoStrayUse
<1>17. CASE SendsEmpty
  BY <1>17 DEF SendsEmpty, ClientIdle, Returns, ghostVars, SockIsOurs, TlsReleasable,
               CommFollowsSock, NoCleartextAfterTls, InProgress, AfterFailedUpgrade, NoStrayUse
<1>18. CASE Close
  <2>1. pc' = "idle" /\ UNCHANGED <<upgradeFailed, tlsAsked>>
    BY <1>18 DEF Close, Returns
  <2>2. StopAfterFail => ~stray'
    BY <1>18, ShutdownIsOurs DEF Close, NoStrayUse
  <2>3. CASE d_sock = NoSock
    BY <1>18, <2>1, <2>2, <2>3
       DEF Close, SockIsOurs, TlsReleasable, CommFollowsSock, NoCleartextAfterTls,
           InProgress, AfterFailedUpgrade, NoStrayUse
  <2>4. CASE d_sock # NoSock
    <3>1. d_comm' = Finished(d_comm) /\ d_sock' = NoSock
      BY <1>18, <2>4 DEF Close
    <3>2. d_comm'.fd = NoSock /\ ~d_comm'.ctx /\ d_comm'.ssl = "null"
      BY <3>1 DEF Finished, ClientTypeOK, Comms, TlsReleasable
    <3>3. ~upgradeFailed
      BY <2>4 DEF AfterFailedUpgrade
    <3> QED BY <2>1, <2>2, <3>1, <3>2, <3>3
         DEF SockIsOurs, TlsReleasable, CommFollowsSock, NoCleartextAfterTls,
             InProgress, AfterFailedUpgrade, NoStrayUse
  <2> QED BY <2>3, <2>4
<1>19. ASSUME NEW t \in Timeouts, SetCommTimeout(t) PROVE ClientInv'
  <2>1. /\ d_comm'.fd = d_comm.fd /\ d_comm'.kind = d_comm.kind
        /\ d_comm'.ctx = d_comm.ctx /\ d_comm'.ssl = d_comm.ssl
    BY <1>19 DEF SetCommTimeout, ClientTypeOK, Comms
  <2> QED BY <1>19, <2>1
       DEF SetCommTimeout, ghostVars, SockIsOurs, TlsReleasable, CommFollowsSock,
           NoCleartextAfterTls, InProgress, AfterFailedUpgrade, NoStrayUse
<1>20. CASE DestroyClient
  BY <1>20, CommFacts, ShutdownIsOurs
     DEF DestroyClient, ghostVars, ClientIdle, SockIsOurs, TlsReleasable, CommFollowsSock,
         NoCleartextAfterTls, InProgress, AfterFailedUpgrade, NoStrayUse
<1>21. ASSUME NEW f \in Fds, ProgramOpens(f) \/ ProgramCloses(f) PROVE ClientInv'
  <2>1. SockIsOurs'
    BY <1>21 DEF ProgramOpens, ProgramCloses, IsLowestFree, ClientTypeOK, SockIsOurs
  <2> QED BY <1>21, <2>1
       DEF ProgramOpens, ProgramCloses, ghostVars, TlsReleasable, CommFollowsSock,
           NoCleartextAfterTls, InProgress, AfterFailedUpgrade, NoStrayUse
<1>22. CASE UNCHANGED clientVars
  BY <1>22 DEF clientVars, SockIsOurs, TlsReleasable, CommFollowsSock,
               NoCleartextAfterTls, InProgress, AfterFailedUpgrade, NoStrayUse
<1> QED
  BY <1>2, <1>3, <1>4, <1>5, <1>6, <1>7, <1>8, <1>9, <1>10, <1>11, <1>12, <1>13, <1>14,
     <1>15, <1>16, <1>17, <1>18, <1>19, <1>20, <1>21, <1>22
     DEF ClientNext

LEMMA ClientInvariant == ClientSpec => []ClientInv
  BY ClientInvInit, ClientInvStep, PTL DEF ClientSpec

(* The Socket never closes a descriptor it does not hold: d_sock is ours   *)
(* whenever it is set, for every caller and every program around it.       *)
THEOREM NeverClosesOthers == ClientSpec => []SockIsOurs
  BY ClientInvariant, PTL DEF ClientInv

(* TLS objects are never stranded in a comm whose finish() would not       *)
(* release them.                                                           *)
THEOREM TlsAlwaysReleasable == ClientSpec => []TlsReleasable
  BY ClientInvariant, PTL DEF ClientInv

(* The comm uses the client's descriptor or, after a failed startSSL()     *)
(* only, an old one.                                                       *)
THEOREM CommUsesSock == ClientSpec => []CommFollowsSock
  BY ClientInvariant, PTL DEF ClientInv

(* No connection on which TLS was asked for is ever used in the clear.     *)
THEOREM NeverBackToCleartext == ClientSpec => []NoCleartextAfterTls
  BY ClientInvariant, PTL DEF ClientInv

(* A caller that lets a failed startSSL() be the end of the connection     *)
(* never makes the Socket touch a descriptor that is not its own.          *)
THEOREM NeverStray ==
  ASSUME StopAfterFail
  PROVE  ClientSpec => []NoStrayUse
<1>1. ClientInv => NoStrayUse
  BY DEF ClientInv
<1> QED BY <1>1, ClientInvariant, PTL
-----------------------------------------------------------------------------
(* The caller that calls close() before it connects again, in a program    *)
(* that never closes its standard input: nothing is held but d_sock, and   *)
(* nothing at all while connect() is about to open a descriptor.           *)
OnlySockHeld ==
  /\ NoDescriptorLeak
  /\ pc = "open" => d_sock = NoSock
  /\ fds[0] = "other"

LEMMA OnlySockHeldStep ==
  ASSUME CloseRule = "always", StdinHeld
  PROVE  ClientInv /\ OnlySockHeld /\ [ClientNext]_clientVars => OnlySockHeld'
<1> SUFFICES ASSUME ClientInv, OnlySockHeld, [ClientNext]_clientVars PROVE OnlySockHeld'
  OBVIOUS
<1>0. fds \in [Fds -> {"free", "lib", "other"}] /\ d_sock \in Fds /\ 0 \in Fds
  BY ClientConstants DEF ClientInv, ClientTypeOK, Fds
<1> USE <1>0
<1>1. ASSUME NEW comm, NEW h, BeginConnect(comm, h) PROVE OnlySockHeld'
  BY <1>1 DEF BeginConnect, CallerMayConnect, OnlySockHeld, NoDescriptorLeak
<1>2. CASE OpenRejected \/ Relayed \/ StartRefused \/ Transfer \/ TransferNothing \/ SendsNull
           \/ SendsEmpty
  <2>1. UNCHANGED <<fds, d_sock>>
    BY <1>2 DEF OpenRejected, Relayed, StartRefused, Transfer, TransferNothing, SendsNull,
             SendsEmpty
  <2>2. pc' \in {"idle", "bind"}
    BY <1>2 DEF OpenRejected, Relayed, StartRefused, Transfer, TransferNothing, SendsNull,
             SendsEmpty, Returns
  <2> QED BY <2>1, <2>2 DEF OnlySockHeld, NoDescriptorLeak
<1>3. CASE OpenZero
  BY <1>3 DEF OpenZero, IsLowestFree, OnlySockHeld
<1>4. CASE OpenFailed
  BY <1>4 DEF OpenFailed, Returns, OnlySockHeld, NoDescriptorLeak
<1>5. ASSUME NEW f \in Fds, NEW next \in {"relay", "bind"}, Opened(f, next)
      PROVE  OnlySockHeld'
  BY <1>5 DEF Opened, OnlySockHeld, NoDescriptorLeak, NoSock
<1>6. ASSUME NEW e, RelayFailed(e) PROVE OnlySockHeld'
  BY <1>6 DEF RelayFailed, Returns, OnlySockHeld, NoDescriptorLeak
<1>7. CASE BindPlain
  BY <1>7 DEF BindPlain, Returns, OnlySockHeld, NoDescriptorLeak
<1>8. ASSUME NEW hs, BindTls(hs) PROVE OnlySockHeld'
  BY <1>8 DEF BindTls, Returns, OnlySockHeld, NoDescriptorLeak
<1>9. ASSUME NEW h, NEW v, NEW hs, StartTls(h, v, hs) PROVE OnlySockHeld'
  BY <1>9 DEF StartTls, Returns, OnlySockHeld, NoDescriptorLeak
<1>10. ASSUME NEW h, NEW v, NEW hs, StartTlsFailed(h, v, hs) PROVE OnlySockHeld'
  <2>1. d_sock # NoSock
    BY <1>10 DEF StartTlsFailed, StartError
  <2> QED BY <1>10, <2>1 DEF StartTlsFailed, Returns, OnlySockHeld, NoDescriptorLeak, NoSock
<1>11. CASE Close
  <2>1. CASE d_sock = NoSock
    BY <1>11, <2>1 DEF Close, Returns, OnlySockHeld, NoDescriptorLeak
  <2>2. CASE d_sock # NoSock
    <3>1. fds' = [fds EXCEPT ![d_sock] = "free"] /\ d_sock' = NoSock /\ pc' = "idle"
      BY <1>11, <2>2 DEF Close, Returns
    <3> QED BY <2>2, <3>1 DEF OnlySockHeld, NoDescriptorLeak, NoSock
  <2> QED BY <2>1, <2>2
<1>12. ASSUME NEW t, SetCommTimeout(t) PROVE OnlySockHeld'
  BY <1>12 DEF SetCommTimeout, OnlySockHeld, NoDescriptorLeak
<1>13. CASE DestroyClient
  BY <1>13 DEF DestroyClient, ClientIdle, OnlySockHeld, NoDescriptorLeak, NoSock
<1>14. ASSUME NEW f \in Fds, ProgramOpens(f) PROVE OnlySockHeld'
  BY <1>14 DEF ProgramOpens, OnlySockHeld, NoDescriptorLeak
<1>15. ASSUME NEW f \in Fds, ProgramCloses(f) PROVE OnlySockHeld'
  BY <1>15 DEF ProgramCloses, OnlySockHeld, NoDescriptorLeak
<1>16. CASE UNCHANGED clientVars
  BY <1>16 DEF clientVars, OnlySockHeld, NoDescriptorLeak
<1> QED
  BY <1>1, <1>2, <1>3, <1>4, <1>5, <1>6, <1>7, <1>8, <1>9, <1>10, <1>11, <1>12, <1>13,
     <1>14, <1>15, <1>16
     DEF ClientNext

(* The same caller never leaks a descriptor, through any sequence of       *)
(* successful, refused and failed calls, and whatever the program does     *)
(* with its own descriptors meanwhile.                                     *)
THEOREM NeverLeaks ==
  ASSUME CloseRule = "always", StdinHeld
  PROVE  ClientSpec => []NoDescriptorLeak
<1>1. ClientInit => OnlySockHeld
  <2>1. 0 \in Fds
    BY ClientConstants DEF Fds
  <2> QED BY <2>1 DEF ClientInit, OnlySockHeld, NoDescriptorLeak
<1>2. OnlySockHeld => NoDescriptorLeak
  BY DEF OnlySockHeld
<1> QED BY <1>1, <1>2, OnlySockHeldStep, ClientInvariant, PTL DEF ClientSpec
=============================================================================
