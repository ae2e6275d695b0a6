------------------------ MODULE TlsConnectionProofs ------------------------
(***************************************************************************)
(* Proofs about one Socket with a timeout and a TLS connection: for every  *)
(* timeout, the int arithmetic included, every size of the buffers, the    *)
(* records and the messages, and every peer.                               *)
(***************************************************************************)
EXTENDS TlsConnection, TLAPS

(* What a simpleConnect() in progress has established when it gets to each *)
(* of its steps.                                                           *)
ConnectProgress ==
  /\ cpc # "idle" => outcome = "none" /\ tpc = "idle" /\ (fdOpen => sock = "fd")
  /\ cpc \in {"resolve", "mode"} => ~nonblock
  /\ cpc = "mode" => Milliseconds # 0
  /\ cpc \in {"issue", "wait"} => (nonblock <=> Milliseconds # 0)
  /\ cpc \in {"resolve", "mode", "issue", "wait", "sockopt"} => value = 0
  /\ cpc \in {"wait", "sockopt"} => fdOpen

(* What the steps that put the mode back and report rely on: nothing but   *)
(* socket() has failed before them, a success has a connection, a failure  *)
(* has its cause in errno unless the mode could not be put back.           *)
ConnectVerdict ==
  /\ cpc \in {"resolve", "mode", "issue", "wait", "sockopt"} =>
       cause = IF fdOpen THEN "none" ELSE "EMFILE"
  /\ cpc \in {"restore", "report"} =>
       /\ value = 0 => fdOpen /\ syn = "up" /\ cause = "none"
       /\ value = -1 => cause = errno \/ cause = "EMFILE" \/ errno = "EIO"
       /\ value = -2 => cause = "timeout"
  /\ cpc = "report" /\ value = 0 => ~nonblock

(* The mode of the descriptor, as long as fcntl() put it back every time:  *)
(* blocking between calls, and whatever a call in progress did to it is    *)
(* undone by what its NonBlockingScope remembers.                          *)
ModeKept ==
  ~modeLost =>
    /\ cpc = "idle" /\ tpc \in {"idle", "shutdown"} => ~nonblock
    /\ tpc \notin {"idle", "shutdown"} => ~d_oldflags /\ (~d_restore => ~nonblock)

(* A read waits in select() only when nothing is decrypted already.        *)
SelectsWithoutPending == tpc = "select" /\ op = "read" => pend = 0

(* The close_notify is the last record the peer sends.                     *)
ByeIsLast ==
  \A i \in 1..Len(inq) : inq[i] = "bye" => i = Len(inq) /\ link # "open"

CallsWhenConnected == tpc # "idle" => cpc = "idle" /\ fdOpen

ConnectInv == ConnectProgress /\ ConnectVerdict /\ ErrorNamesCause
-----------------------------------------------------------------------------
(* Types.                                                                  *)
TimerTypeOK == tmo \in TimeoutArgs /\ nonblock \in BOOLEAN /\ left \in 0..Ticks

LEMMA TicksInRange == Ticks \in 0..Ticks /\ 0 \in 0..Ticks
  BY TimerConstants

LEMMA CloseAndFailTypes ==
  ASSUME TypeOK, NEW e \in Errnos \cup {"resolve", "timeout"}, CloseAndFail(e),
         cause' \in Errnos \cup {"none", "resolve", "timeout"}
  PROVE  TimerTypeOK' /\ ConnectTypeOK'
  BY TicksInRange DEF TypeOK, CloseAndFail, TimerTypeOK, ConnectTypeOK, ConnectStatusOK

LEMMA ConnectingTypes ==
  ASSUME TypeOK, Connecting
  PROVE  TypeOK'
<1>0. TlsTypeOK'
  BY DEF TypeOK, Connecting, tlsVars, callVars, sslVars, peerVars, TlsTypeOK
<1>1. TimerTypeOK /\ ConnectTypeOK
  BY DEF TypeOK, TimerTypeOK
<1> SUFFICES TimerTypeOK' /\ ConnectTypeOK'
  BY <1>0 DEF TypeOK, TimerTypeOK
<1> USE <1>1 DEF TimerTypeOK, ConnectTypeOK, ConnectStatusOK, Errnos
<1>2. CASE OpenSocket
  <2>1. nonblock' \in BOOLEAN /\ fdOpen' \in BOOLEAN
    BY <1>2, Zenon DEF OpenSocket
  <2>2. tmo' \in TimeoutArgs /\ left' \in 0..Ticks
    BY <1>2, TicksInRange DEF OpenSocket
  <2>3. ConnectStatusOK'
    BY <1>2 DEF OpenSocket
  <2> QED BY <2>1, <2>2, <2>3
<1>3. CASE ResolveFails
  BY <1>3, CloseAndFailTypes DEF ResolveFails, Blames
<1>4. CASE Resolved
  BY <1>4 DEF Resolved, Goto
<1>5. CASE MakeNonBlocking
  <2>1. nonblock' \in BOOLEAN /\ fdOpen' \in BOOLEAN
    BY <1>5, Zenon DEF MakeNonBlocking, Goto
  <2>2. tmo' \in TimeoutArgs /\ left' \in 0..Ticks
    BY <1>5 DEF MakeNonBlocking
  <2>3. ConnectStatusOK'
    BY <1>5 DEF MakeNonBlocking, Goto, Stops, Blames
  <2> QED BY <2>1, <2>2, <2>3
<1>6. CASE IssueConnect
  <2>1. nonblock' \in BOOLEAN /\ fdOpen' \in BOOLEAN
    BY <1>6, Zenon DEF IssueConnect, Goto
  <2>2. tmo' \in TimeoutArgs /\ left' \in 0..Ticks
    BY <1>6, TicksInRange DEF IssueConnect
  <2>3. ConnectStatusOK'
    BY <1>6 DEF IssueConnect, AfterConnect, Goto, Stops, Blames
  <2> QED BY <2>1, <2>2, <2>3
<1>7. CASE ConnectReady
  BY <1>7 DEF ConnectReady, Goto
<1>8. CASE ConnectExpires
  BY <1>8 DEF ConnectExpires, Goto, Blames
<1>9. CASE ConnectRefused
  BY <1>9 DEF ConnectRefused, Goto, Stops, Blames
<1>10. CASE ReadSockError
  BY <1>10 DEF ReadSockError, Goto, Stops, Blames
<1>11. CASE RestoreBlocking
  <2>1. nonblock' \in BOOLEAN /\ fdOpen' \in BOOLEAN
    BY <1>11, Zenon DEF RestoreBlocking, Goto
  <2>2. tmo' \in TimeoutArgs /\ left' \in 0..Ticks
    BY <1>11, TicksInRange DEF RestoreBlocking
  <2>3. ConnectStatusOK'
    BY <1>11 DEF RestoreBlocking, Goto, Stops, Blames
  <2> QED BY <2>1, <2>2, <2>3
<1>12. CASE BlockingConnectEnds
  BY <1>12 DEF BlockingConnectEnds, Goto, Stops, Blames
<1>13. CASE ReportFailure
  BY <1>13, CloseAndFailTypes DEF ReportFailure
<1>14. CASE ReportSuccess
  BY <1>14, TicksInRange DEF ReportSuccess
<1>15. CASE ConnectInterrupted
  BY <1>15 DEF ConnectInterrupted, AfterConnect, Goto, Stops, Blames
<1>16. CASE NetworkAnswers
  BY <1>16 DEF NetworkAnswers
<1> QED
  BY <1>2, <1>3, <1>4, <1>5, <1>6, <1>7, <1>8, <1>9, <1>10, <1>11, <1>12, <1>13, <1>14,
     <1>15, <1>16
     DEF Connecting, ConnectStep
-----------------------------------------------------------------------------
(* What a step of a call in progress does to the call: it returns, goes on *)
(* in the loop, or leaves it alone (OpenSSL and the peer).                 *)
Results == {"ok", "data", "eof", "timeout", "fail"}

CallReturns == \E r \in Results : Leave(r)
CallGoesOn  == \E p \in {"loop", "select", "ssl", "again", "wait"},
                  w \in {"none", "read", "write"} : Goes(p, w)
CallMoves   == \/ SslMoves
               \/ tpc \notin {"idle", "shutdown"} /\ (CallReturns \/ CallGoesOn)

LEMMA StepMovesCall ==
  ASSUME TypeOK, TlsStep \/ TlsOutside
  PROVE  CallMoves
<1> USE DEF CallMoves
<1>0. want \in {"none", "read", "write"}
  BY DEF TypeOK, TlsTypeOK
<1>1. ASSUME NEW r \in Results, Leave(r) PROVE CallReturns
  BY <1>1 DEF CallReturns
<1>2. ASSUME NEW p \in {"loop", "select", "ssl", "again", "wait"},
             NEW w \in {"none", "read", "write"}, Goes(p, w)
      PROVE  CallGoesOn
  BY <1>2 DEF CallGoesOn
<1>3. CASE Loop
  BY <1>0, <1>1, <1>2, <1>3 DEF Loop, Results
<1>4. CASE SelectReady \/ SelectExpires \/ WaitEnds \/ SelectInterrupted
  BY <1>0, <1>1, <1>2, <1>4 DEF SelectReady, SelectExpires, WaitEnds, SelectInterrupted, Results
<1>5. CASE Again
  BY <1>0, <1>1, <1>2, <1>5 DEF Again, Results
<1>6. CASE BindDone \/ SslFailed \/ ReadReturns \/ WriteFails
  BY <1>1, <1>6 DEF BindDone, SslFailed, ReadReturns, WriteFails, InSsl, Results
<1>7. CASE ReadEnds
  BY <1>1, <1>7 DEF ReadEnds, InSsl, Results
<1>8. CASE WriteUnit
  BY <1>1, <1>8 DEF WriteUnit, InSsl, Results
<1>9. CASE WouldBlock \/ SslInterrupted
  BY <1>2, <1>9 DEF WouldBlock, SslInterrupted, Stuck, ComesBack, Needs
<1>10. CASE HandshakeWrites \/ HandshakeReads \/ HandshakeBroken \/ ReadRecord \/ WriteBegins
  BY <1>10 DEF HandshakeWrites, HandshakeReads, HandshakeBroken, ReadRecord, WriteBegins
<1>11. ASSUME NEW r, PeerSends(r) \/ PeerReads \/ PeerGoes PROVE SslMoves
  BY <1>11 DEF PeerSends, PeerReads, PeerGoes, SslMoves
<1> QED
  BY <1>3, <1>4, <1>5, <1>6, <1>7, <1>8, <1>9, <1>10, <1>11 DEF TlsStep, TlsOutside

CallTypeOK ==
  /\ op \in {"none", "bind", "read", "send", "finish"}
  /\ tpc \in {"idle", "loop", "select", "ssl", "again", "wait", "shutdown"}
  /\ want \in {"none", "read", "write"}
  /\ result \in {"none", "ok", "data", "eof", "timeout", "fail"}
  /\ d_restore \in BOOLEAN /\ d_oldflags \in BOOLEAN /\ modeLost \in BOOLEAN

SslTypeOK ==
  /\ hs \in {"null", "write", "read", "up", "failed"} /\ same \in BOOLEAN
  /\ pend \in 0..RecSize /\ wleft \in 0..MsgUnits /\ unacked \in -MsgUnits..MsgUnits

PeerTypeOK ==
  /\ inq \in Seq(Records) /\ Len(inq) <= InCap /\ outq \in 0..OutCap
  /\ link \in {"open", "fin", "reset"}

LEMMA TlsTypeParts ==
  TypeOK <=> TimerTypeOK /\ ConnectTypeOK /\ CallTypeOK /\ SslTypeOK /\ PeerTypeOK
  BY DEF TypeOK, TlsTypeOK, TimerTypeOK, CallTypeOK, SslTypeOK, PeerTypeOK

LEMMA CallMovesTypes ==
  ASSUME TimerTypeOK, CallTypeOK, CallMoves
  PROVE  TimerTypeOK' /\ CallTypeOK'
<1> USE DEF TimerTypeOK, CallTypeOK
<1>1. CASE SslMoves
  BY <1>1 DEF SslMoves, callVars
<1>2. ASSUME NEW r \in Results, Leave(r) PROVE TimerTypeOK' /\ CallTypeOK'
  <2>1. nonblock' \in BOOLEAN /\ modeLost' \in BOOLEAN /\ d_restore' \in BOOLEAN
    BY <1>2, Zenon DEF Leave
  <2> QED BY <1>2, <2>1, TicksInRange DEF Leave, Results
<1>3. CASE CallGoesOn
  BY <1>3 DEF CallGoesOn, Goes
<1> QED BY <1>1, <1>2, <1>3 DEF CallMoves, CallReturns

(* The steps of a call that leave OpenSSL and the kernel's buffers alone.  *)
LEMMA QuietSteps ==
  ASSUME Loop \/ SelectReady \/ SelectExpires \/ Again \/ WaitEnds \/ BindDone \/ SslFailed
           \/ ReadEnds \/ WriteFails \/ WouldBlock \/ SelectInterrupted \/ SslInterrupted
  PROVE  UNCHANGED <<sslVars, peerVars>>
<1>1. CASE Loop \/ SelectReady \/ SelectExpires \/ Again \/ WaitEnds \/ SelectInterrupted
  BY <1>1 DEF Loop, SelectReady, SelectExpires, Again, WaitEnds, SelectInterrupted
<1>2. CASE BindDone \/ SslFailed \/ ReadEnds \/ WriteFails \/ WouldBlock \/ SslInterrupted
  BY <1>2 DEF BindDone, SslFailed, ReadEnds, WriteFails, WouldBlock, SslInterrupted, ComesBack
<1> QED BY <1>1, <1>2

(* The sends are accounted for by the steps of OpenSSL.                    *)
LEMMA WritesAccounted ==
  ASSUME SslTypeOK, SendsAccounted, WriteBegins \/ WriteUnit
  PROVE  /\ wleft' \in 0..MsgUnits /\ unacked' \in -MsgUnits..MsgUnits
         /\ SendsAccounted'
<1>1. MsgUnits \in Nat /\ MsgUnits > 0 /\ wleft \in 0..MsgUnits /\ unacked \in Int
  BY TlsConstants DEF SslTypeOK
<1>2. CASE WriteBegins
  BY <1>1, <1>2 DEF WriteBegins, SendsAccounted
<1>3. CASE WriteUnit
  <2>1. wleft > 0 /\ wleft' = wleft - 1
    BY <1>3 DEF WriteUnit
  <2>2. unacked = MsgUnits - wleft
    BY <1>1, <2>1 DEF SendsAccounted
  <2>3. \/ wleft > 1 /\ unacked' = unacked + 1
        \/ wleft = 1 /\ unacked' = unacked + 1 - MsgUnits
    BY <1>3 DEF WriteUnit
  <2>4. CASE wleft > 1
    <3>1. unacked' = MsgUnits - wleft' /\ wleft' > 0
      BY <1>1, <2>1, <2>2, <2>3, <2>4
    <3> QED BY <1>1, <2>1, <2>4, <3>1 DEF SendsAccounted
  <2>5. CASE wleft = 1
    <3>1. unacked' = 0 /\ wleft' = 0
      BY <1>1, <2>1, <2>2, <2>3, <2>5
    <3> QED BY <1>1, <3>1 DEF SendsAccounted
  <2> QED BY <1>1, <2>1, <2>4, <2>5
<1> QED BY <1>2, <1>3

LEMMA SslTypes ==
  ASSUME SslTypeOK, PeerTypeOK, SendsAccounted, TlsStep \/ TlsOutside
  PROVE  SslTypeOK' /\ PeerTypeOK' /\ SendsAccounted'
<1>0. /\ RecSize \in Nat /\ RecSize > 0 /\ MsgUnits \in Nat /\ MsgUnits > 0
      /\ InCap \in Nat /\ OutCap \in Nat
  BY TlsConstants
<1>1. CASE UNCHANGED <<sslVars, peerVars>>
  BY <1>1 DEF sslVars, peerVars, SslTypeOK, PeerTypeOK, SendsAccounted
<1>2. CASE HandshakeWrites
  BY <1>0, <1>2 DEF HandshakeWrites, SslTypeOK, PeerTypeOK, SendsAccounted
<1>3. CASE HandshakeReads
  <2>1. inq' \in Seq(Records) /\ Len(inq') <= InCap
    BY <1>0, <1>3 DEF HandshakeReads, PeerTypeOK
  <2>2. hs' \in {"up", "failed"}
    BY <1>3 DEF HandshakeReads
  <2> QED BY <1>3, <2>1, <2>2 DEF HandshakeReads, SslTypeOK, PeerTypeOK, SendsAccounted
<1>4. CASE HandshakeBroken
  BY <1>4 DEF HandshakeBroken, peerVars, SslTypeOK, PeerTypeOK, SendsAccounted
<1>5. CASE ReadReturns
  <2>1. pend' \in 0..RecSize
    BY <1>0, <1>5 DEF ReadReturns, SslTypeOK
  <2> QED BY <1>5, <2>1 DEF ReadReturns, peerVars, SslTypeOK, PeerTypeOK, SendsAccounted
<1>6. CASE ReadRecord
  <2>1. inq' \in Seq(Records) /\ Len(inq') <= InCap
    BY <1>0, <1>6 DEF ReadRecord, PeerTypeOK
  <2>2. hs' \in {"write", hs} /\ pend' \in 0..RecSize
    BY <1>0, <1>6 DEF ReadRecord
  <2> QED BY <1>6, <2>1, <2>2 DEF ReadRecord, SslTypeOK, PeerTypeOK, SendsAccounted
<1>7. CASE WriteBegins \/ WriteUnit
  <2>1. /\ wleft' \in 0..MsgUnits /\ unacked' \in -MsgUnits..MsgUnits /\ SendsAccounted'
    BY <1>7, WritesAccounted
  <2>2. hs' = hs /\ pend' = pend /\ inq' = inq /\ link' = link
    BY <1>7 DEF WriteBegins, WriteUnit, peerVars
  <2>3. same' \in BOOLEAN
    BY <1>7, Zenon DEF WriteBegins, WriteUnit, SslTypeOK
  <2>4. outq' \in 0..OutCap
    <3>1. outq' = outq \/ (outq < OutCap /\ outq' = outq + 1)
      BY <1>7 DEF WriteBegins, WriteUnit, peerVars
    <3> QED BY <1>0, <3>1 DEF PeerTypeOK
  <2> QED BY <2>1, <2>2, <2>3, <2>4 DEF SslTypeOK, PeerTypeOK
<1>8. ASSUME NEW r \in Records, PeerSends(r) PROVE SslTypeOK' /\ PeerTypeOK' /\ SendsAccounted'
  <2>1. inq' \in Seq(Records) /\ Len(inq') <= InCap
    BY <1>0, <1>8 DEF PeerSends, PeerTypeOK
  <2> QED BY <1>8, <2>1 DEF PeerSends, sslVars, SslTypeOK, PeerTypeOK, SendsAccounted
<1>9. CASE PeerReads
  BY <1>0, <1>9 DEF PeerReads, sslVars, SslTypeOK, PeerTypeOK, SendsAccounted
<1>10. CASE PeerGoes
  <2>1. inq' \in Seq(Records) /\ Len(inq') <= InCap /\ outq' \in 0..OutCap
    <3>1. (inq' = inq /\ outq' = outq) \/ (inq' = <<>> /\ outq' = 0)
      BY <1>10 DEF PeerGoes
    <3>2. <<>> \in Seq(Records) /\ Len(<<>>) = 0
      OBVIOUS
    <3>3. CASE inq' = inq /\ outq' = outq
      BY <3>3 DEF PeerTypeOK
    <3>4. CASE inq' = <<>> /\ outq' = 0
      BY <1>0, <3>2, <3>4
    <3> QED BY <3>1, <3>3, <3>4
  <2> QED BY <1>10, <2>1 DEF PeerGoes, sslVars, SslTypeOK, PeerTypeOK, SendsAccounted
<1> QED
  BY <1>1, <1>2, <1>3, <1>4, <1>5, <1>6, <1>7, <1>8, <1>9, <1>10, QuietSteps
     DEF TlsStep, TlsOutside

LEMMA EnterTypes ==
  ASSUME TimerTypeOK, CallTypeOK, NEW o \in {"bind", "read", "send"},
         NEW p \in {"ssl", "loop"}, Enter(o, p)
  PROVE  TimerTypeOK' /\ CallTypeOK'
<1>1. nonblock' \in BOOLEAN /\ d_restore' \in BOOLEAN /\ d_oldflags' \in BOOLEAN
  BY Zenon DEF Enter, TimerTypeOK, CallTypeOK
<1> QED BY <1>1, TicksInRange DEF Enter, TimerTypeOK, CallTypeOK

(* Every step keeps the types, and the account of the sends with them.     *)
LEMMA TypesStep ==
  ASSUME TypeOK, SendsAccounted, [Next]_vars
  PROVE  TypeOK' /\ SendsAccounted'
<1>0. /\ TimerTypeOK /\ ConnectTypeOK /\ CallTypeOK /\ SslTypeOK /\ PeerTypeOK
      /\ MsgUnits \in Nat /\ RecSize \in Nat /\ OutCap \in Nat /\ InCap \in Nat
  BY TlsTypeParts, TlsConstants
<1> SUFFICES /\ TimerTypeOK' /\ ConnectTypeOK' /\ CallTypeOK' /\ SslTypeOK' /\ PeerTypeOK'
             /\ SendsAccounted'
  BY DEF TypeOK, TlsTypeOK, TimerTypeOK, CallTypeOK, SslTypeOK, PeerTypeOK
<1> USE <1>0
<1>1. ASSUME UNCHANGED connectVars PROVE ConnectTypeOK'
  BY <1>1 DEF connectVars, ConnectTypeOK, ConnectStatusOK
<1>2. ASSUME UNCHANGED callVars PROVE CallTypeOK'
  BY <1>2 DEF callVars, CallTypeOK
<1>3. ASSUME UNCHANGED <<sslVars, peerVars>>
      PROVE  SslTypeOK' /\ PeerTypeOK' /\ SendsAccounted'
  BY <1>3 DEF sslVars, peerVars, SslTypeOK, PeerTypeOK, SendsAccounted
<1>4. CASE SetTimeout
  BY <1>1, <1>2, <1>3, <1>4 DEF SetTimeout, tlsVars, TimerTypeOK
<1>5. CASE Connecting
  <2>1. TypeOK'
    BY <1>5, ConnectingTypes
  <2>2. UNCHANGED tlsVars
    BY <1>5 DEF Connecting
  <2> QED BY <1>2, <1>3, <2>1, <2>2 DEF TypeOK, TimerTypeOK, tlsVars
<1>6. CASE Calling
  <2>1. ConnectTypeOK'
    BY <1>1, <1>6 DEF Calling
  <2>2. CASE BindBegins
    <3>1. TimerTypeOK' /\ CallTypeOK'
      BY <2>2, EnterTypes DEF BindBegins
    <3>2. SslTypeOK' /\ PeerTypeOK' /\ SendsAccounted'
      BY <2>2 DEF BindBegins, peerVars, SslTypeOK, PeerTypeOK, SendsAccounted
    <3> QED BY <2>1, <3>1, <3>2
  <2>3. CASE BindCannotBegin \/ FinishBegins
    BY <1>3, <2>1, <2>3 DEF BindCannotBegin, FinishBegins, TimerTypeOK, CallTypeOK
  <2>4. CASE ReadBegins
    BY <1>3, <2>1, <2>4, EnterTypes DEF ReadBegins
  <2>5. CASE SendBegins
    <3>1. TimerTypeOK' /\ CallTypeOK'
      BY <2>5, EnterTypes DEF SendBegins
    <3>2. same' \in BOOLEAN
      BY <2>5, Zenon DEF SendBegins
    <3>3. SslTypeOK' /\ PeerTypeOK' /\ SendsAccounted'
      BY <2>5, <3>2 DEF SendBegins, peerVars, SslTypeOK, PeerTypeOK, SendsAccounted
    <3> QED BY <2>1, <3>1, <3>3
  <2>6. CASE TlsStep \/ TlsOutside
    BY <2>1, <2>6, StepMovesCall, CallMovesTypes, SslTypes
  <2> QED BY <1>6, <2>2, <2>3, <2>4, <2>5, <2>6 DEF Calling
<1>7. CASE CloseConnection
  <2>1. TimerTypeOK' /\ ConnectTypeOK'
    BY <1>7 DEF CloseConnection, TimerTypeOK, ConnectTypeOK, ConnectStatusOK
  <2>2. CallTypeOK'
    BY <1>7 DEF CloseConnection, CallTypeOK
  <2>3. SslTypeOK'
    BY <1>7 DEF CloseConnection, SslTypeOK
  <2>4. PeerTypeOK' /\ SendsAccounted'
    BY <1>7 DEF CloseConnection, PeerTypeOK, SendsAccounted
  <2> QED BY <2>1, <2>2, <2>3, <2>4
<1>8. CASE Tick
  <2>1. left' \in 0..Ticks
    BY <1>8, TimerConstants DEF Tick, Clock, TimerTypeOK
  <2> QED BY <1>1, <1>2, <1>3, <1>8, <2>1 DEF Tick, tlsVars, TimerTypeOK
<1>9. CASE UNCHANGED vars
  BY <1>1, <1>2, <1>3, <1>9 DEF vars, timerVars, tlsVars, TimerTypeOK
<1> QED BY <1>4, <1>5, <1>6, <1>7, <1>8, <1>9 DEF Next

LEMMA TypesInit == Init => TypeOK /\ SendsAccounted
<1> SUFFICES ASSUME Init PROVE TypeOK /\ SendsAccounted
  OBVIOUS
<1>0. MsgUnits \in Nat /\ RecSize \in Nat /\ OutCap \in Nat /\ InCap \in Nat
  BY TlsConstants
<1>1. TimerTypeOK
  BY TicksInRange DEF Init, TimerTypeOK
<1>2. ConnectTypeOK
  <2>1. fdOpen \in BOOLEAN
    BY Zenon DEF Init, ConnectInit
  <2> QED BY <2>1 DEF Init, ConnectInit, ConnectTypeOK, ConnectStatusOK, Errnos
<1>3. CallTypeOK
  BY DEF Init, TlsInit, CallTypeOK
<1>4. SslTypeOK
  BY <1>0 DEF Init, TlsInit, SslTypeOK
<1>5. PeerTypeOK
  BY <1>0 DEF Init, TlsInit, PeerTypeOK
<1>6. SendsAccounted
  BY DEF Init, TlsInit, SendsAccounted
<1> QED BY <1>1, <1>2, <1>3, <1>4, <1>5, <1>6, TlsTypeParts

(* Every variable keeps its type, and the timer its bound.                 *)
THEOREM TypeCorrect == Spec => []TypeOK
<1>1. TypeOK /\ SendsAccounted /\ [Next]_vars => TypeOK' /\ SendsAccounted'
  BY TypesStep
<1> QED BY <1>1, TypesInit, PTL DEF Spec

(* Over any sequence of sends, timed out, failed, refused or repeated,     *)
(* what left for the peer is what the sends that returned a count counted, *)
(* and the begun part of the one message OpenSSL still has.                *)
THEOREM SendsAlwaysAccounted == Spec => []SendsAccounted
<1>1. TypeOK /\ SendsAccounted /\ [Next]_vars => TypeOK' /\ SendsAccounted'
  BY TypesStep
<1> QED BY <1>1, TypesInit, PTL DEF Spec
-----------------------------------------------------------------------------
(* The connect.                                                            *)
LEMMA CloseAndFailInv ==
  ASSUME NEW e, CloseAndFail(e), e = cause' \/ cause' = "EMFILE" \/ e = "EIO"
  PROVE  ConnectInv'
  BY DEF CloseAndFail, ConnectInv, ConnectProgress, ConnectVerdict, ErrorNamesCause

LEMMA ConnectInvStep ==
  ASSUME TypeOK, ConnectInv, [Next]_vars
  PROVE  ConnectInv'
<1>0. /\ cpc \in {"idle", "resolve", "mode", "issue", "wait", "sockopt", "restore", "report"}
      /\ value \in {-2, -1, 0} /\ fdOpen \in BOOLEAN /\ nonblock \in BOOLEAN
  BY DEF TypeOK, ConnectTypeOK, ConnectStatusOK
<1>1. tmo' = tmo => Milliseconds' = Milliseconds
  BY DEF Milliseconds, Wrap
<1> USE DEF ConnectInv, ConnectProgress, ConnectVerdict, ErrorNamesCause
<1>2. CASE Connecting
  <2>0. UNCHANGED tpc
    BY <1>2 DEF Connecting, tlsVars, callVars
  <2>1. CASE AtRest /\ OpenSocket
    BY <2>0, <2>1 DEF AtRest, OpenSocket
  <2>2. CASE ResolveFails
    <3>1. cause' = "resolve" \/ cause' = "EMFILE"
      BY <2>2 DEF ResolveFails, Blames
    <3> QED BY <2>2, <3>1, CloseAndFailInv DEF ResolveFails
  <2>3. CASE Resolved
    BY <1>1, <2>0, <2>3 DEF Resolved, Goto
  <2>4. CASE MakeNonBlocking
    BY <1>0, <1>1, <2>0, <2>4 DEF MakeNonBlocking, Goto, Stops, Blames
  <2>5. CASE IssueConnect
    BY <1>0, <1>1, <2>0, <2>5 DEF IssueConnect, AfterConnect, Goto, Stops, Blames
  <2>6. CASE ConnectReady
    BY <1>1, <2>0, <2>6 DEF ConnectReady, SelectsConnect, Goto
  <2>7. CASE ConnectExpires
    BY <2>0, <2>7 DEF ConnectExpires, SelectsConnect, Goto, Blames
  <2>8. CASE ConnectRefused
    BY <2>0, <2>8 DEF ConnectRefused, SelectsConnect, Goto, Stops, Blames
  <2>9. CASE ConnectInterrupted
    BY <2>0, <2>9 DEF ConnectInterrupted, AfterConnect, Goto, Stops, Blames
  <2>10. CASE ReadSockError
    BY <2>0, <2>10 DEF ReadSockError, Goto, Stops, Blames
  <2>11. CASE RestoreBlocking
    BY <2>0, <2>11 DEF RestoreBlocking, Goto, Stops, Blames
  <2>12. CASE BlockingConnectEnds
    BY <2>0, <2>12 DEF BlockingConnectEnds, Goto, Stops, Blames
  <2>13. CASE ReportFailure
    <3> DEFINE e == IF value = -2 THEN "timeout" ELSE errno
    <3>1. e = cause' \/ cause' = "EMFILE" \/ e = "EIO"
      BY <1>0, <2>13 DEF ReportFailure
    <3>2. CloseAndFail(e)
      BY <2>13 DEF ReportFailure
    <3> QED BY <3>1, <3>2, CloseAndFailInv
  <2>14. CASE ReportSuccess
    BY <2>14 DEF ReportSuccess
  <2>15. CASE NetworkAnswers
    BY <1>1, <2>0, <2>15 DEF NetworkAnswers
  <2> QED
    BY <1>2, <2>1, <2>2, <2>3, <2>4, <2>5, <2>6, <2>7, <2>8, <2>9, <2>10, <2>11, <2>12,
       <2>13, <2>14, <2>15
       DEF Connecting, ConnectStep
<1>3. CASE SetTimeout \/ Calling
  <2>1. cpc = "idle" /\ UNCHANGED connectVars
    BY <1>3 DEF SetTimeout, AtRest, Calling, Connected
  <2> QED BY <2>1 DEF connectVars
<1>4. CASE CloseConnection
  BY <1>4 DEF CloseConnection, Connected
<1>5. CASE Tick \/ UNCHANGED vars
  <2>1. UNCHANGED <<connectVars, tmo, nonblock, tpc>>
    BY <1>5 DEF Tick, vars, timerVars, tlsVars, callVars
  <2> QED BY <1>1, <2>1 DEF connectVars
<1> QED BY <1>2, <1>3, <1>4, <1>5 DEF Next

LEMMA ConnectInvariant == Spec => []ConnectInv
<1>1. Init => ConnectInv
  BY DEF Init, ConnectInit, ConnectInv, ConnectProgress, ConnectVerdict, ErrorNamesCause
<1>2. TypeOK /\ ConnectInv /\ [Next]_vars => ConnectInv'
  BY ConnectInvStep
<1> QED BY <1>1, <1>2, TypeCorrect, PTL DEF Spec

(* getError() names the first call that failed, whatever the calls after   *)
(* it did to errno, unless that call was socket() or the mode could not be *)
(* put back.                                                               *)
THEOREM ErrorAlwaysNamesCause == Spec => []ErrorNamesCause
<1>1. ConnectInv => ErrorNamesCause
  BY DEF ConnectInv
<1> QED BY <1>1, ConnectInvariant, PTL

(* However simpleConnect() ends, it hands back a connected descriptor in   *)
(* blocking mode or none.                                                  *)
THEOREM AlwaysHandsOver == Spec => HandsOver
<1> DEFINE Over == /\ outcome # "ok" /\ outcome' = "ok"
                        => sock' = "fd" /\ fdOpen' /\ syn' = "up" /\ ~nonblock'
                   /\ outcome # "fail" /\ outcome' = "fail" => sock' = "0" /\ ~fdOpen'
<1>1. ASSUME ConnectInv, [Next]_vars PROVE [Over]_vars
  <2>1. CASE UNCHANGED outcome
    BY <2>1
  <2>2. CASE OpenSocket
    BY <2>2 DEF OpenSocket
  <2>3. CASE ResolveFails \/ ReportFailure
    BY <2>3 DEF ResolveFails, ReportFailure, CloseAndFail
  <2>4. CASE ReportSuccess
    BY <1>1, <2>4 DEF ReportSuccess, ConnectInv, ConnectProgress, ConnectVerdict
  <2>5. CASE ConnectStep /\ ~ResolveFails /\ ~ReportFailure /\ ~ReportSuccess
    <3>1. UNCHANGED outcome
      BY <2>5 DEF ConnectStep, Resolved, MakeNonBlocking, IssueConnect, ConnectReady,
                  ConnectExpires, ConnectRefused, ReadSockError, RestoreBlocking,
                  BlockingConnectEnds, Goto
    <3> QED BY <2>1, <3>1
  <2>6. CASE ConnectInterrupted \/ NetworkAnswers
    BY <2>1, <2>6 DEF ConnectInterrupted, NetworkAnswers, Goto
  <2>7. CASE SetTimeout \/ Calling \/ CloseConnection \/ Tick
    BY <2>1, <2>7 DEF SetTimeout, Calling, CloseConnection, Tick, connectVars
  <2>8. CASE UNCHANGED vars
    BY <2>8
  <2> QED BY <1>1, <2>2, <2>3, <2>4, <2>5, <2>6, <2>7, <2>8 DEF Next, Connecting
<1>2. ConnectInv /\ [Next]_vars => [Over]_vars
  BY <1>1
<1> QED BY <1>2, ConnectInvariant, PTL DEF Spec, HandsOver
-----------------------------------------------------------------------------
(* The mode of the descriptor.                                             *)
LEMMA ConnectingKeepsMode ==
  ASSUME TypeOK, ConnectInv, Connecting
  PROVE  /\ UNCHANGED tlsVars
         /\ \/ UNCHANGED <<cpc, fdOpen, nonblock>>
            \/ tpc = "idle" /\ (cpc' = "idle" => ~nonblock')
<1>1. UNCHANGED tlsVars
  BY DEF Connecting
<1>2. CASE AtRest /\ OpenSocket
  BY <1>1, <1>2 DEF AtRest, OpenSocket
<1>3. CASE ConnectInterrupted
  <2>1. cpc # "idle" /\ cpc' # "idle"
    BY <1>3 DEF ConnectInterrupted, AfterConnect, Goto
  <2> QED BY <1>1, <2>1 DEF ConnectInv, ConnectProgress
<1>4. CASE NetworkAnswers
  BY <1>1, <1>4 DEF NetworkAnswers
<1>5. CASE ResolveFails \/ ReportFailure
  BY <1>1, <1>5 DEF ResolveFails, ReportFailure, CloseAndFail, ConnectInv, ConnectProgress
<1>6. CASE ReportSuccess
  BY <1>1, <1>6 DEF ReportSuccess, ConnectInv, ConnectProgress, ConnectVerdict
<1>7. CASE ConnectStep /\ ~ResolveFails /\ ~ReportFailure /\ ~ReportSuccess
  <2>1. cpc # "idle" /\ cpc' # "idle"
    BY <1>7 DEF ConnectStep, Resolved, MakeNonBlocking, IssueConnect, AfterConnect,
                ConnectReady, ConnectExpires, ConnectRefused, SelectsConnect, ReadSockError,
                RestoreBlocking, BlockingConnectEnds, Goto
  <2> QED BY <1>1, <2>1 DEF ConnectInv, ConnectProgress
<1> QED BY <1>2, <1>3, <1>4, <1>5, <1>6, <1>7 DEF Connecting

LEMMA ModeStep ==
  ASSUME TypeOK, ConnectInv, CallsWhenConnected, ModeKept, [Next]_vars
  PROVE  CallsWhenConnected' /\ ModeKept'
<1>0. /\ nonblock \in BOOLEAN /\ d_restore \in BOOLEAN /\ d_oldflags \in BOOLEAN
      /\ modeLost \in BOOLEAN
  BY DEF TypeOK, TlsTypeOK
<1> USE DEF CallsWhenConnected, ModeKept
<1>1. CASE Connecting
  BY <1>1, ConnectingKeepsMode DEF tlsVars, callVars
<1>2. CASE Calling
  <2>1. CallsWhenConnected'
    BY <1>2 DEF Calling, Connected, connectVars
  <2> SUFFICES ModeKept'
    BY <2>1
  <2>2. cpc = "idle" /\ cpc' = "idle"
    BY <1>2 DEF Calling, Connected, connectVars
  <2>3. ASSUME NEW o, NEW p \in {"ssl", "loop"}, Enter(o, p) PROVE ModeKept'
    BY <1>0, <2>2, <2>3 DEF Enter
  <2>4. CASE BindBegins \/ ReadBegins \/ SendBegins
    BY <2>3, <2>4 DEF BindBegins, ReadBegins, SendBegins
  <2>5. CASE BindCannotBegin \/ FinishBegins
    BY <2>2, <2>5 DEF BindCannotBegin, FinishBegins
  <2>6. CASE SslMoves
    BY <2>2, <2>6 DEF SslMoves, callVars
  <2>7. ASSUME NEW r, Leave(r), tpc \notin {"idle", "shutdown"} PROVE ModeKept'
    BY <1>0, <2>2, <2>7 DEF Leave
  <2>8. CASE CallGoesOn /\ tpc \notin {"idle", "shutdown"}
    BY <2>2, <2>8 DEF CallGoesOn, Goes
  <2>9. CASE TlsStep \/ TlsOutside
    BY <2>6, <2>7, <2>8, <2>9, StepMovesCall DEF CallMoves, CallReturns
  <2> QED BY <1>2, <2>4, <2>5, <2>9 DEF Calling
<1>3. CASE CloseConnection
  BY <1>3 DEF CloseConnection, Connected
<1>4. CASE SetTimeout \/ Tick \/ UNCHANGED vars
  <2>1. UNCHANGED <<cpc, fdOpen, nonblock, tpc, d_restore, d_oldflags, modeLost>>
    BY <1>4 DEF SetTimeout, Tick, vars, timerVars, connectVars, tlsVars, callVars
  <2> QED BY <2>1
<1> QED BY <1>1, <1>2, <1>3, <1>4 DEF Next

(* Between calls the descriptor is in blocking mode, after a timeout, a    *)
(* failed handshake or a signal too, unless fcntl() refused to put it back.*)
THEOREM ModeAlwaysRestored == Spec => []ModeRestored
<1>1. Init => CallsWhenConnected /\ ModeKept
  BY DEF Init, ConnectInit, TlsInit, CallsWhenConnected, ModeKept
<1>2. TypeOK /\ ConnectInv /\ CallsWhenConnected /\ ModeKept /\ [Next]_vars
        => CallsWhenConnected' /\ ModeKept'
  BY ModeStep
<1>3. ModeKept => ModeRestored
  BY DEF ModeKept, ModeRestored, AtRest
<1> QED BY <1>1, <1>2, <1>3, TypeCorrect, ConnectInvariant, PTL DEF Spec
-----------------------------------------------------------------------------
(* The reads.                                                              *)
ReadInv == SelectsWithoutPending /\ NoTimeoutOverPending /\ ByeIsLast /\ EofIsReal

LEMMA ReadInvQuiet ==
  ASSUME ReadInv, UNCHANGED <<sslVars, peerVars>>,
         tpc' # "select" \/ op' # "read" \/ pend = 0,
         tpc' # "idle" \/ op' # "read" \/ result' \notin {"timeout", "eof"}
           \/ UNCHANGED <<tpc, op, result>>
  PROVE  ReadInv'
<1>1. pend' = pend /\ inq' = inq /\ link' = link
  BY DEF sslVars, peerVars
<1>2. SelectsWithoutPending' /\ NoTimeoutOverPending'
  BY <1>1 DEF ReadInv, SelectsWithoutPending, NoTimeoutOverPending
<1>3. ByeIsLast' /\ EofIsReal'
  BY <1>1 DEF ReadInv, ByeIsLast, EofIsReal, Arrived
<1> QED BY <1>2, <1>3 DEF ReadInv

(* Taking a record from the front, or adding one at the end while the peer *)
(* has not closed, leaves the close_notify last.                           *)
LEMMA ByeStaysLast ==
  ASSUME PeerTypeOK, ByeIsLast, link' = link,
         inq' = inq \/ (inq # <<>> /\ inq' = Tail(inq))
  PROVE  ByeIsLast'
<1>1. inq \in Seq(Records)
  BY DEF PeerTypeOK
<1>2. CASE inq' = inq
  BY <1>2 DEF ByeIsLast
<1>3. CASE inq # <<>> /\ inq' = Tail(inq)
  <2>1. Len(inq') = Len(inq) - 1 /\ \A i \in 1..Len(inq') : inq'[i] = inq[i + 1]
    BY <1>1, <1>3
  <2>2. Len(inq) \in Nat /\ Len(inq') \in Nat
    BY <1>1, <1>3
  <2>3. ASSUME NEW i \in 1..Len(inq'), inq'[i] = "bye"
        PROVE  i = Len(inq') /\ link' # "open"
    <3>1. i + 1 \in 1..Len(inq) /\ inq[i + 1] = "bye"
      BY <2>1, <2>2, <2>3
    <3>2. i + 1 = Len(inq) /\ link # "open"
      BY <3>1 DEF ByeIsLast
    <3> QED BY <2>1, <2>2, <3>2
  <2> QED BY <2>3 DEF ByeIsLast
<1> QED BY <1>2, <1>3

(* A step of OpenSSL, inside a call, on the buffers.                       *)
LEMMA ReadInvInSsl ==
  ASSUME PeerTypeOK, ReadInv, tpc = "ssl", UNCHANGED <<tpc, link>>,
         inq' = inq \/ (inq # <<>> /\ inq' = Tail(inq))
  PROVE  ReadInv'
<1>1. ByeIsLast'
  BY ByeStaysLast DEF ReadInv
<1> QED BY <1>1 DEF ReadInv, SelectsWithoutPending, NoTimeoutOverPending, EofIsReal

(* The end of the data: no record is behind the close_notify.              *)
LEMMA EndIsReal ==
  ASSUME PeerTypeOK, ByeIsLast, inq # <<>>, Head(inq) = "bye"
  PROVE  link # "open" /\ ~Arrived("data")
<1>1. inq \in Seq(Records) /\ Len(inq) \in Nat /\ Len(inq) > 0 /\ DOMAIN inq = 1..Len(inq)
  BY DEF PeerTypeOK
<1>2. inq[1] = "bye"
  BY <1>1
<1>3. Len(inq) = 1 /\ link # "open"
  <2>1. 1 \in 1..Len(inq)
    BY <1>1
  <2> QED BY <1>2, <2>1 DEF ByeIsLast
<1>4. \A i \in DOMAIN inq : inq[i] = "bye"
  BY <1>1, <1>2, <1>3
<1> QED BY <1>3, <1>4 DEF Arrived

LEMMA ReadInvStep ==
  ASSUME TypeOK, ReadInv, [Next]_vars
  PROVE  ReadInv'
<1>0. PeerTypeOK /\ pend \in 0..RecSize /\ RecSize \in Nat
  BY TlsTypeParts, TlsConstants DEF SslTypeOK
<1>1. ASSUME UNCHANGED tlsVars PROVE ReadInv'
  <2>1. UNCHANGED <<sslVars, peerVars, tpc, op, result, pend>>
    BY <1>1 DEF tlsVars, callVars, sslVars
  <2> QED BY <2>1, ReadInvQuiet DEF ReadInv, SelectsWithoutPending
<1>2. CASE SetTimeout \/ Connecting \/ Tick \/ UNCHANGED vars
  BY <1>1, <1>2 DEF SetTimeout, Connecting, Tick, vars
<1>3. CASE CloseConnection
  <2>1. op' = "none" /\ inq' = <<>>
    BY <1>3 DEF CloseConnection
  <2>2. ByeIsLast'
    BY <2>1 DEF ByeIsLast
  <2> QED BY <2>1, <2>2 DEF ReadInv, SelectsWithoutPending, NoTimeoutOverPending, EofIsReal
<1>4. CASE BindBegins \/ ReadBegins \/ SendBegins
  <2>1. tpc' \notin {"idle", "select"} /\ inq' = inq /\ link' = link
    BY <1>4 DEF BindBegins, ReadBegins, SendBegins, Enter, peerVars
  <2>2. ByeIsLast'
    BY <2>1 DEF ReadInv, ByeIsLast
  <2> QED BY <2>1, <2>2 DEF ReadInv, SelectsWithoutPending, NoTimeoutOverPending, EofIsReal
<1>5. CASE BindCannotBegin \/ FinishBegins
  BY <1>5, ReadInvQuiet DEF BindCannotBegin, FinishBegins
<1>6. CASE Loop
  <2>1. UNCHANGED <<sslVars, peerVars>> /\ pend' = pend
    BY <1>6 DEF Loop, sslVars
  <2>2. CASE Goes("ssl", want)
    BY <2>1, <2>2, ReadInvQuiet DEF Goes
  <2>3. CASE ~SkipsSelect /\ Goes("select", want)
    BY <1>0, <2>1, <2>3, ReadInvQuiet DEF Goes, SkipsSelect
  <2>4. CASE ~SkipsSelect /\ Leave("timeout")
    <3>1. op' = "read" => pend = 0
      BY <1>0, <2>4 DEF Leave, SkipsSelect
    <3>2. tpc' = "idle" /\ result' = "timeout" /\ inq' = inq /\ link' = link
      BY <2>1, <2>4 DEF Leave, peerVars
    <3>3. ByeIsLast'
      BY <3>2 DEF ReadInv, ByeIsLast
    <3> QED BY <2>1, <3>1, <3>2, <3>3
         DEF ReadInv, SelectsWithoutPending, NoTimeoutOverPending, EofIsReal
  <2> QED BY <1>6, <2>2, <2>3, <2>4 DEF Loop
<1>7. CASE SelectReady \/ WaitEnds \/ WouldBlock \/ SslInterrupted
  <2>1. tpc' \in {"ssl", "loop", "again"}
    BY <1>7 DEF SelectReady, WaitEnds, WouldBlock, SslInterrupted, ComesBack, Goes
  <2> QED BY <1>7, <2>1, QuietSteps, ReadInvQuiet
<1>8. CASE SelectExpires
  <2>1. op' = op /\ tpc = "select" /\ tpc' = "idle" /\ result' = "timeout"
    BY <1>8 DEF SelectExpires, Leave
  <2>2. pend' = pend /\ inq' = inq /\ link' = link
    BY <1>8 DEF SelectExpires, sslVars, peerVars
  <2>3. ByeIsLast'
    BY <2>2 DEF ReadInv, ByeIsLast
  <2> QED BY <2>1, <2>2, <2>3
       DEF ReadInv, SelectsWithoutPending, NoTimeoutOverPending, EofIsReal
<1>9. CASE Again
  <2>1. CASE op = "bind" /\ (Leave("fail") \/ Leave("timeout"))
    <3>1. op' = "bind"
      BY <2>1 DEF Leave
    <3> QED BY <1>9, <3>1, QuietSteps, ReadInvQuiet
  <2>2. CASE op = "bind" /\ Goes("select", want)
    <3>1. op' = "bind"
      BY <2>2 DEF Goes
    <3> QED BY <1>9, <3>1, QuietSteps, ReadInvQuiet
  <2>3. CASE Goes("loop", want) \/ Goes("wait", want)
    <3>1. tpc' \in {"loop", "wait"}
      BY <2>3 DEF Goes
    <3> QED BY <1>9, <3>1, QuietSteps, ReadInvQuiet
  <2> QED BY <1>9, <2>1, <2>2, <2>3 DEF Again
<1>10. CASE BindDone \/ SslFailed \/ WriteFails \/ SelectInterrupted
  <2>1. tpc' = "idle" /\ result' \in {"ok", "fail"}
    BY <1>10 DEF BindDone, SslFailed, WriteFails, SelectInterrupted, Leave
  <2> QED BY <1>10, <2>1, QuietSteps, ReadInvQuiet
<1>11. CASE HandshakeWrites \/ HandshakeReads \/ HandshakeBroken \/ ReadRecord \/ WriteBegins
  <2>1. tpc = "ssl" /\ UNCHANGED <<tpc, link>>
    BY <1>11 DEF HandshakeWrites, HandshakeReads, HandshakeBroken, ReadRecord, WriteBegins,
                 InSsl, SslMoves, callVars, peerVars
  <2>2. inq' = inq \/ (inq # <<>> /\ inq' = Tail(inq))
    BY <1>11 DEF HandshakeWrites, HandshakeReads, HandshakeBroken, ReadRecord, WriteBegins,
                 peerVars
  <2> QED BY <1>0, <2>1, <2>2, ReadInvInSsl
<1>12. CASE ReadReturns
  <2>1. tpc' = "idle" /\ result' = "data" /\ inq' = inq /\ link' = link
    BY <1>12 DEF ReadReturns, Leave, peerVars
  <2>2. ByeIsLast'
    BY <2>1 DEF ReadInv, ByeIsLast
  <2> QED BY <2>1, <2>2 DEF ReadInv, SelectsWithoutPending, NoTimeoutOverPending, EofIsReal
<1>13. CASE WriteUnit
  <2>1. inq' = inq /\ link' = link
    BY <1>13 DEF WriteUnit
  <2>2. CASE SslMoves
    <3>1. tpc = "ssl" /\ tpc' = tpc
      BY <1>13, <2>2 DEF WriteUnit, InSsl, SslMoves, callVars
    <3> QED BY <1>0, <2>1, <3>1, ReadInvInSsl
  <2>3. CASE Leave("ok")
    <3>1. tpc' = "idle" /\ result' = "ok"
      BY <2>3 DEF Leave
    <3>2. ByeIsLast'
      BY <2>1 DEF ReadInv, ByeIsLast
    <3> QED BY <3>1, <3>2 DEF ReadInv, SelectsWithoutPending, NoTimeoutOverPending, EofIsReal
  <2> QED BY <1>13, <2>2, <2>3 DEF WriteUnit
<1>14. CASE ReadEnds
  <2>1. op = "read" /\ pend = 0 /\ pend' = pend /\ inq' = inq /\ link' = link /\ tpc' = "idle"
    BY <1>14 DEF ReadEnds, InSsl, Leave, sslVars, peerVars
  <2>2. ByeIsLast' /\ SelectsWithoutPending' /\ NoTimeoutOverPending'
    BY <2>1 DEF ReadInv, ByeIsLast, SelectsWithoutPending, NoTimeoutOverPending
  <2>3. CASE inq # <<>> /\ Head(inq) = "bye"
    <3>1. link # "open" /\ ~Arrived("data")
      BY <1>0, <2>3, EndIsReal DEF ReadInv
    <3> QED BY <2>1, <2>2, <3>1 DEF ReadInv, EofIsReal, Arrived
  <2>4. CASE inq = <<>> /\ link # "open"
    <3>1. ~Arrived("data")
      BY <2>4 DEF Arrived
    <3> QED BY <2>1, <2>2, <2>4, <3>1 DEF ReadInv, EofIsReal, Arrived
  <2> QED BY <1>14, <2>3, <2>4 DEF ReadEnds
<1>15. ASSUME NEW r \in Records, PeerSends(r) PROVE ReadInv'
  <2>1. /\ link = "open" /\ inq' = Append(inq, r) /\ (r = "bye" => link' = "fin")
        /\ UNCHANGED <<tpc, op, result, pend>>
    BY <1>15 DEF PeerSends, callVars, sslVars
  <2>2. /\ inq \in Seq(Records) /\ Len(inq) \in Nat /\ Len(inq') = Len(inq) + 1
        /\ inq'[Len(inq) + 1] = r /\ \A i \in 1..Len(inq) : inq'[i] = inq[i]
    BY <1>0, <2>1 DEF PeerTypeOK
  <2>3. ASSUME NEW i \in 1..Len(inq'), inq'[i] = "bye"
        PROVE  i = Len(inq') /\ link' # "open"
    <3>1. i \notin 1..Len(inq)
      BY <2>1, <2>2, <2>3 DEF ReadInv, ByeIsLast
    <3>2. i = Len(inq) + 1
      BY <2>2, <3>1
    <3> QED BY <2>1, <2>2, <2>3, <3>2
  <2> QED BY <2>1, <2>3
       DEF ReadInv, ByeIsLast, SelectsWithoutPending, NoTimeoutOverPending, EofIsReal
<1>16. CASE PeerReads
  <2>1. UNCHANGED <<inq, link, tpc, op, result, pend>>
    BY <1>16 DEF PeerReads, callVars, sslVars
  <2> QED BY <2>1 DEF ReadInv, ByeIsLast, SelectsWithoutPending, NoTimeoutOverPending,
                      EofIsReal, Arrived
<1>17. CASE PeerGoes
  <2>1. UNCHANGED <<tpc, op, result, pend>> /\ link' # "open" /\ (inq' = inq \/ inq' = <<>>)
    BY <1>17 DEF PeerGoes, callVars, sslVars
  <2>2. ByeIsLast'
    BY <2>1 DEF ReadInv, ByeIsLast
  <2>3. EofIsReal'
    <3>1. Arrived("data")' => Arrived("data")
      BY <2>1 DEF Arrived
    <3> QED BY <2>1, <3>1 DEF ReadInv, EofIsReal
  <2> QED BY <2>1, <2>2, <2>3 DEF ReadInv, SelectsWithoutPending, NoTimeoutOverPending
<1> QED
  BY <1>2, <1>3, <1>4, <1>5, <1>6, <1>7, <1>8, <1>9, <1>10, <1>11, <1>12, <1>13, <1>14,
     <1>15, <1>16, <1>17
     DEF Next, Calling, TlsStep, TlsOutside

LEMMA ReadInvariant == Spec => []ReadInv
<1>1. Init => ReadInv
  BY DEF Init, TlsInit, ReadInv, ByeIsLast, SelectsWithoutPending, NoTimeoutOverPending, EofIsReal
<1>2. TypeOK /\ ReadInv /\ [Next]_vars => ReadInv'
  BY ReadInvStep
<1> QED BY <1>1, <1>2, TypeCorrect, PTL DEF Spec

(* No read times out while OpenSSL holds decrypted bytes for it.           *)
THEOREM NeverTimesOutOverPending == Spec => []NoTimeoutOverPending
<1>1. ReadInv => NoTimeoutOverPending
  BY DEF ReadInv
<1> QED BY <1>1, ReadInvariant, PTL

(* A read that returns 0 is the end of the data, for every order in which  *)
(* the peer sends, closes and resets.                                      *)
THEOREM EofAlwaysReal == Spec => []EofIsReal
<1>1. ReadInv => EofIsReal
  BY DEF ReadInv
<1> QED BY <1>1, ReadInvariant, PTL
=============================================================================
