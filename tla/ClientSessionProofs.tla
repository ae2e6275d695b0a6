------------------------ MODULE ClientSessionProofs ------------------------
(***************************************************************************)
(* The client implements SocketSession, for any number of descriptors, any *)
(* hosts and timeouts, and whatever the rest of the program opens and      *)
(* closes in between.                                                      *)
(***************************************************************************)
EXTENDS ClientSession, TcpClientProofs

(* What the states of a session rest on besides ClientInv and              *)
(* OnlySockHeld: a plain comm has no TLS objects, and no connect() is in   *)
(* progress on a Socket that was destroyed.                                *)
SessionFacts ==
  /\ d_comm.kind # "ssh" => d_comm.ssl = "null"
  /\ gone => pc = "idle"

SessionInv == ClientInv /\ OnlySockHeld /\ SessionFacts

LEMMA SessionFactsStep ==
  ASSUME ClientInv, SessionFacts, [ClientNext]_clientVars
  PROVE  SessionFacts'
<1> USE DEF SessionFacts
<1>0. d_comm \in Comms /\ TlsReleasable
  BY DEF ClientInv, ClientTypeOK
<1>1. ASSUME NEW comm, NEW h, BeginConnect(comm, h), comm.ssl = "null"
      PROVE  SessionFacts'
  BY <1>1 DEF BeginConnect, ClientIdle
<1>2. ASSUME NEW h \in Names, BeginConnect(NewPlain, h) PROVE SessionFacts'
  BY <1>1, <1>2, CommFacts
<1>3. ASSUME NEW h \in Names, NEW v \in BOOLEAN, BeginConnect(NewSsh(h, v), h)
      PROVE  SessionFacts'
  BY <1>1, <1>3, CommFacts
<1>4. CASE OpenRejected \/ OpenZero \/ OpenFailed \/ StartRefused \/ TransferNothing \/ SendsNull
           \/ SendsEmpty
  <2>1. UNCHANGED <<d_comm, gone>> /\ pc' = "idle"
    BY <1>4 DEF OpenRejected, OpenZero, OpenFailed, StartRefused, TransferNothing, SendsNull,
                SendsEmpty, Returns
  <2> QED BY <2>1
<1>5. ASSUME NEW f, NEW next, Opened(f, next) PROVE SessionFacts'
  BY <1>5 DEF Opened
<1>6. CASE Relayed
  BY <1>6 DEF Relayed
<1>7. ASSUME NEW e, RelayFailed(e) PROVE SessionFacts'
  BY <1>7 DEF RelayFailed, Returns
<1>8. CASE BindPlain
  BY <1>0, <1>8 DEF BindPlain, Bound, Returns, Comms
<1>9. ASSUME NEW hs, BindTls(hs) PROVE SessionFacts'
  BY <1>0, <1>9 DEF BindTls, BoundTls, Returns, Comms
<1>10. ASSUME NEW h, NEW v, NEW hs, StartTls(h, v, hs) \/ StartTlsFailed(h, v, hs)
       PROVE  SessionFacts'
  <2>1. BoundTls(NewSsh(h, v), d_sock, hs).kind = "ssh"
    BY DEF BoundTls, NewSsh, NoComm
  <2> QED BY <1>10, <2>1 DEF StartTls, StartTlsFailed, Returns
<1>11. CASE Transfer
  <2>1. d_comm'.kind = d_comm.kind /\ (d_comm'.ssl # d_comm.ssl => d_comm.ssl # "null")
    BY <1>0, <1>11 DEF Transfer, Comms
  <2>2. pc' = "idle"
    BY <1>11 DEF Transfer, Returns
  <2> QED BY <2>1, <2>2
<1>12. CASE Close
  <2>1. d_comm'.kind = d_comm.kind /\ d_comm'.ssl \in {d_comm.ssl, "null"}
    BY <1>0, <1>12 DEF Close, Finished, Comms
  <2>2. pc' = "idle"
    BY <1>12 DEF Close, Returns
  <2> QED BY <2>1, <2>2
<1>13. ASSUME NEW t, SetCommTimeout(t) PROVE SessionFacts'
  BY <1>0, <1>13 DEF SetCommTimeout, Comms
<1>14. CASE DestroyClient
  BY <1>14, CommFacts DEF DestroyClient, ClientIdle
<1>15. ASSUME NEW f, ProgramOpens(f) \/ ProgramCloses(f) PROVE SessionFacts'
  BY <1>15 DEF ProgramOpens, ProgramCloses
<1>16. CASE UNCHANGED clientVars
  BY <1>16 DEF clientVars
<1> QED
  BY <1>2, <1>3, <1>4, <1>5, <1>6, <1>7, <1>8, <1>9, <1>10, <1>11, <1>12, <1>13, <1>14,
     <1>15, <1>16
     DEF ClientNext

LEMMA SessionInvariant ==
  ASSUME CloseRule = "always", StdinHeld
  PROVE  ClientSpec => []SessionInv
<1>1. ClientInit => SessionInv
  <2>1. 0 \in Fds
    BY ClientConstants DEF Fds
  <2> QED BY <2>1, ClientInvInit, CommFacts
          DEF ClientInit, SessionInv, SessionFacts, OnlySockHeld, NoDescriptorLeak
<1>2. SessionInv /\ [ClientNext]_clientVars => SessionInv'
  BY ClientInvStep, OnlySockHeldStep, SessionFactsStep DEF SessionInv
<1> QED BY <1>1, <1>2, PTL DEF ClientSpec
-----------------------------------------------------------------------------
(* The abstract state, read off the client's: what it holds, and which of  *)
(* the six states it is in.                                                *)
SessionView ==
  /\ Held = IF d_sock = NoSock THEN {} ELSE {d_sock}
  /\ gone => SessionState = "gone"
  /\ ~gone /\ pc # "idle" => SessionState = "connecting"
  /\ ClientIdle /\ d_sock = NoSock => SessionState = "closed"
  /\ ClientIdle /\ d_sock # NoSock /\ InTheClear => SessionState = "clear"
  /\ ClientIdle /\ d_sock # NoSock /\ Secured => SessionState = "secure"
  /\ ClientIdle /\ d_sock # NoSock /\ ~InTheClear /\ ~Secured => SessionState = "broken"

LEMMA HeldIsSock ==
  SessionInv => Held = IF d_sock = NoSock THEN {} ELSE {d_sock}
<1> SUFFICES ASSUME SessionInv PROVE Held = IF d_sock = NoSock THEN {} ELSE {d_sock}
  OBVIOUS
<1>1. d_sock \in Fds /\ (d_sock # NoSock => fds[d_sock] = "lib")
  BY DEF SessionInv, ClientInv, ClientTypeOK, SockIsOurs
<1>2. \A f \in Fds : fds[f] = "lib" => f = d_sock /\ f # NoSock
  BY DEF SessionInv, OnlySockHeld, NoDescriptorLeak
<1> QED BY <1>1, <1>2 DEF Held

LEMMA SessionViewHolds == SessionInv => SessionView
<1> SUFFICES ASSUME SessionInv PROVE SessionView
  OBVIOUS
<1>1. ~(InTheClear /\ Secured)
  BY DEF SessionInv, SessionFacts, InTheClear, Secured
<1>2. gone \in BOOLEAN
  BY DEF SessionInv, ClientInv, ClientTypeOK
<1> HIDE DEF InTheClear, Secured
<1>3. /\ gone => SessionState = "gone"
      /\ ~gone /\ pc # "idle" => SessionState = "connecting"
  BY <1>2 DEF SessionState, ClientIdle
<1>4. ClientIdle /\ d_sock = NoSock => SessionState = "closed"
  BY <1>2 DEF SessionState, ClientIdle
<1>5. /\ ClientIdle /\ d_sock # NoSock /\ InTheClear => SessionState = "clear"
      /\ ClientIdle /\ d_sock # NoSock /\ Secured => SessionState = "secure"
      /\ ClientIdle /\ d_sock # NoSock /\ ~InTheClear /\ ~Secured => SessionState = "broken"
  BY <1>1, <1>2 DEF SessionState, ClientIdle
<1> QED BY <1>3, <1>4, <1>5, HeldIsSock DEF SessionView

LEMMA SessionViewNext == SessionInv' => SessionView'
  BY SessionViewHolds, PTL
-----------------------------------------------------------------------------
(* A step that leaves the client's state, as the session sees it, alone.   *)
LEMMA SessionStutters ==
  ASSUME SessionView, SessionView', SessionInv, UNCHANGED <<d_sock, gone>>,
         pc = "idle" <=> pc' = "idle",
         pc = "idle" /\ d_sock # NoSock =>
           (InTheClear' <=> InTheClear) /\ (Secured' <=> Secured)
  PROVE  UNCHANGED Session!session
<1>1. gone \in BOOLEAN
  BY DEF SessionInv, ClientInv, ClientTypeOK
<1>2. Held' = Held
  BY DEF SessionView
<1>3. SessionState' = SessionState
  <2>1. CASE gone \/ pc # "idle" \/ d_sock = NoSock
    BY <1>1, <2>1 DEF SessionView, ClientIdle
  <2>2. CASE ClientIdle /\ d_sock # NoSock
    BY <2>2 DEF SessionView, ClientIdle
  <2> QED BY <1>1, <2>1, <2>2 DEF ClientIdle
<1> QED BY <1>2, <1>3 DEF Session!session

(* Every step of the client is a step of the session or none.              *)
LEMMA SessionStep ==
  ASSUME CloseRule = "always", SessionInv, SessionInv', [ClientNext]_clientVars
  PROVE  [Session!SessionNext]_Session!session
<1>1. SessionView /\ SessionView'
  BY SessionViewHolds, SessionViewNext
<1>2. /\ gone \in BOOLEAN /\ d_comm \in Comms /\ d_sock \in Fds /\ d_sock' \in Fds
      /\ gone' \in BOOLEAN
  BY DEF SessionInv, ClientInv, ClientTypeOK
<1>3. /\ gone => pc = "idle"
      /\ pc = "open" => d_sock = NoSock
      /\ pc \in {"relay", "bind"} => d_sock # NoSock
      /\ pc # "idle" => d_comm.fd = NoSock
      /\ d_comm.kind # "ssh" => d_comm.ssl = "null"
  BY DEF SessionInv, SessionFacts, OnlySockHeld, ClientInv, InProgress
<1> USE <1>1
<1>4. ASSUME NEW comm, NEW h, BeginConnect(comm, h) PROVE Session!Connect
  BY <1>4 DEF BeginConnect, ClientIdle, CallerMayConnect, SessionView, Session!Connect
<1>5. CASE OpenRejected \/ OpenZero \/ OpenFailed
  <2>1. d_sock = NoSock /\ ~gone /\ pc = "open" /\ pc' = "idle" /\ gone' = gone /\ d_sock' = NoSock
    BY <1>2, <1>3, <1>5 DEF OpenRejected, OpenZero, OpenFailed, Returns, NoSock
  <2> QED BY <2>1 DEF SessionView, ClientIdle, Session!GiveUp, Session!SessionNext
<1>6. ASSUME NEW f \in Fds, NEW next \in {"relay", "bind"}, Opened(f, next)
      PROVE  Session!Open
  <2>1. /\ ~gone /\ ~gone' /\ pc = "open" /\ pc' # "idle" /\ d_sock = NoSock
        /\ d_sock' = f /\ f # NoSock
    BY <1>2, <1>3, <1>6 DEF Opened, NoSock
  <2> QED BY <2>1 DEF SessionView, Session!Open
<1>7. CASE Relayed
  BY <1>7, SessionStutters DEF Relayed
<1>8. ASSUME NEW e, RelayFailed(e) \/ BindPlain \/ \E hs : BindTls(hs)
      PROVE  Session!Establish
  <2>1. /\ pc \in {"relay", "bind"} /\ pc' = "idle" /\ d_sock' = d_sock
        /\ gone' = gone
    BY <1>8 DEF RelayFailed, BindPlain, BindTls, Returns
  <2>2. ~gone /\ d_sock # NoSock
    BY <1>2, <1>3, <2>1
  <2>3. SessionState' \in {"clear", "secure", "broken"}
    BY <2>1, <2>2 DEF SessionView, ClientIdle
  <2> QED BY <2>1, <2>2, <2>3 DEF SessionView, Session!Establish
<1>9. CASE StartRefused \/ TransferNothing \/ SendsNull \/ SendsEmpty
  <2>1. UNCHANGED <<d_sock, d_comm, gone>> /\ pc = "idle" /\ pc' = "idle"
    BY <1>9 DEF StartRefused, TransferNothing, SendsNull, SendsEmpty, Returns, ClientIdle
  <2> QED BY <2>1, SessionStutters DEF InTheClear, Secured
<1>10. ASSUME NEW h, NEW v, NEW hs, StartTls(h, v, hs) \/ StartTlsFailed(h, v, hs)
       PROVE  Session!Upgrade \/ Session!UpgradeFails
  <2>1. ClientIdle /\ ClientIdle' /\ d_sock # NoSock /\ InTheClear
    BY <1>2, <1>10 DEF StartTls, StartTlsFailed, StartError, Returns, ClientIdle, InTheClear,
                       Comms
  <2>2. CASE StartTls(h, v, hs)
    <3>1. d_comm'.fd = d_sock /\ d_comm'.ssl = "up" /\ d_sock' = d_sock
      BY <2>2 DEF StartTls, BoundTls, NewSsh, NoComm
    <3> QED BY <2>1, <3>1 DEF SessionView, Secured, Session!Upgrade
  <2>3. CASE StartTlsFailed(h, v, hs)
    BY <2>1, <2>3 DEF StartTlsFailed, SessionView, Session!UpgradeFails
  <2> QED BY <1>10, <2>2, <2>3
<1>11. CASE Transfer
  <2>1. ClientIdle /\ ClientIdle' /\ UNCHANGED <<d_sock, gone>>
    BY <1>11 DEF Transfer, Returns, ClientIdle
  <2>2. CASE d_comm' = d_comm
    BY <2>1, <2>2, SessionStutters DEF ClientIdle, InTheClear, Secured
  <2>3. CASE d_comm' # d_comm
    <3>1. /\ d_comm.fd # NoSock /\ d_comm.ssl \in {"init", "up"} /\ d_comm'.fd = d_comm.fd
          /\ d_comm'.kind = d_comm.kind /\ d_comm'.ssl \in {"up", "failed"}
      BY <1>2, <1>11, <2>3 DEF Transfer, Comms
    <3>2. ~InTheClear /\ ~InTheClear'
      BY <1>3, <3>1 DEF InTheClear
    <3>3. (Secured <=> d_comm.ssl = "up") /\ (Secured' <=> d_comm'.ssl = "up")
      BY <3>1 DEF Secured
    <3>4. CASE d_sock = NoSock
      BY <2>1, <3>4, SessionStutters DEF ClientIdle
    <3>5. CASE d_sock # NoSock /\ Secured /\ ~Secured'
      BY <2>1, <3>2, <3>5 DEF SessionView, Session!Break, Session!SessionNext
    <3>6. CASE d_sock # NoSock /\ ~Secured /\ Secured'
      BY <2>1, <3>2, <3>6 DEF SessionView, Session!Mend, Session!SessionNext
    <3>7. CASE Secured <=> Secured'
      BY <2>1, <3>2, <3>7, SessionStutters DEF ClientIdle
    <3> QED BY <3>3, <3>4, <3>5, <3>6, <3>7
  <2> QED BY <2>2, <2>3
<1>12. CASE Close
  <2>1. ClientIdle /\ ClientIdle' /\ d_sock' = NoSock
    BY <1>12 DEF Close, Returns, ClientIdle
  <2> QED BY <2>1 DEF SessionView, Session!Close, Session!AtRest, Session!SessionNext
<1>13. ASSUME NEW t, SetCommTimeout(t) PROVE UNCHANGED Session!session
  <2>1. /\ UNCHANGED <<d_sock, gone, pc>>
        /\ d_comm'.fd = d_comm.fd /\ d_comm'.kind = d_comm.kind /\ d_comm'.ssl = d_comm.ssl
    BY <1>2, <1>13 DEF SetCommTimeout, Comms
  <2> QED BY <2>1, SessionStutters DEF InTheClear, Secured
<1>14. CASE DestroyClient
  <2>1. ClientIdle /\ gone' /\ d_sock' = NoSock
    BY <1>14 DEF DestroyClient
  <2> QED BY <2>1 DEF SessionView, Session!Destroy, Session!AtRest, Session!SessionNext
<1>15. ASSUME NEW f, ProgramOpens(f) \/ ProgramCloses(f) PROVE UNCHANGED Session!session
  BY <1>15, SessionStutters DEF ProgramOpens, ProgramCloses, InTheClear, Secured
<1>16. CASE UNCHANGED clientVars
  BY <1>16, SessionStutters DEF clientVars, InTheClear, Secured
<1> QED
  BY <1>4, <1>5, <1>6, <1>7, <1>8, <1>9, <1>10, <1>11, <1>12, <1>13, <1>14, <1>15, <1>16
     DEF ClientNext, Session!SessionNext

(* The client of a caller that closes before it connects again, in a       *)
(* program that keeps its standard input open, lives the life that         *)
(* SocketSession promises: at most one descriptor, held until close(), a   *)
(* failed startSSL() or the destructor releases it, and no way back from   *)
(* TLS into the clear.                                                     *)
THEOREM ClientImplementsSession ==
  ASSUME CloseRule = "always", StdinHeld
  PROVE  ClientSpec => ImplementsSession
<1>1. SessionInv /\ ClientInit => Session!SessionInit
  BY SessionViewHolds
     DEF SessionView, ClientInit, ClientIdle, Session!SessionInit
<1>2. SessionInv /\ SessionInv' /\ [ClientNext]_clientVars
        => [Session!SessionNext]_Session!session
  BY SessionStep
<1> QED BY <1>1, <1>2, SessionInvariant, PTL DEF ClientSpec, ImplementsSession, Session!SessionSpec
=============================================================================
