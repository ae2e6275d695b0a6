----------------------------- MODULE TlsStream -----------------------------
(***************************************************************************)
(* Socket_Comm_SSH: virtualbind, virtualread, virtualsend and              *)
(* virtualfinish over a connected descriptor, against OpenSSL, the kernel  *)
(* and a peer that sends, reads, closes or resets between any two steps.   *)
(*                                                                         *)
(* inq holds TLS records: "data" (RecSize bytes of it), "ticket" (a record *)
(* without data), "hreq" (a request to renegotiate), "hs" and "bad" (the   *)
(* peer's part of a handshake), "bye" (close_notify).  A message to send   *)
(* takes MsgUnits units of the send buffer, which holds OutCap.  The       *)
(* program ignores SIGPIPE.                                                *)
(***************************************************************************)
EXTENDS TimedDescriptor, Sequences

CONSTANTS RecSize, InCap, OutCap, MsgUnits

ASSUME TlsConstants == {RecSize, InCap, OutCap, MsgUnits} \subseteq Nat \ {0}

VARIABLES
  op,          \* the call in progress, or the last one
  tpc,         \* where it is
  want,        \* wantread or wantwrite of the loop
  result,      \* what the last call returned
  d_restore,   \* NonBlockingScope::d_restore
  d_oldflags,  \* NonBlockingScope::d_oldflags
  hs,          \* the SSL object: null, what the handshake needs next, up, failed
  pend,        \* SSL_pending(): bytes decrypted and not read
  wleft,       \* what is left of the message OpenSSL has begun to send
  same,        \* the send in progress passes the buffer and length of that message
  unacked,     \* units sent beyond those of the sends that returned a count
  inq, outq,   \* the kernel's buffers
  link,        \* "open", "fin" or "reset" by the peer
  modeLost     \* the mode of the descriptor could not be put back

callVars == <<op, tpc, want, result, d_restore, d_oldflags, modeLost>>
sslVars  == <<hs, pend, wleft, same, unacked>>
peerVars == <<inq, outq, link>>
tlsVars  == <<callVars, sslVars, peerVars>>

Records == {"data", "ticket", "hreq", "hs", "bad", "bye"}
Arrived(r) == \E i \in DOMAIN inq : inq[i] = r

TlsInit ==
  /\ op = "none" /\ tpc = "idle" /\ want = "none" /\ result = "none"
  /\ d_restore = FALSE /\ d_oldflags = FALSE /\ modeLost = FALSE
  /\ hs = "null" /\ pend = 0 /\ wleft = 0 /\ same = TRUE /\ unacked = 0
  /\ inq = <<>> /\ outq = 0 /\ link = "open"
-----------------------------------------------------------------------------
(* Mutant of Enter: the timeout is added twice.                            *)
EnterLate(o, p) ==
  /\ tpc = "idle"
  /\ op' = o /\ tpc' = p /\ want' = "none" /\ result' = "none"
  /\ left' = (IF HasTimeout THEN 2 * Ticks ELSE 0)
  /\ d_oldflags' = nonblock
  /\ \/ HasTimeout /\ d_restore' = TRUE /\ nonblock' = TRUE
     \/ d_restore' = FALSE /\ UNCHANGED nonblock
  /\ UNCHANGED <<modeLost, tmo>>

(* A call begins: NonBlockingScope changes the mode if there is a timeout  *)
(* and fcntl() lets it, and the deadline of the whole call is set.         *)
Enter(o, p) ==
  /\ tpc = "idle"
  /\ op' = o /\ tpc' = p /\ want' = "none" /\ result' = "none"
  /\ left' = (IF HasTimeout THEN Ticks ELSE 0)
  /\ d_oldflags' = nonblock
  /\ \/ HasTimeout /\ d_restore' = TRUE /\ nonblock' = TRUE
     \/ d_restore' = FALSE /\ UNCHANGED nonblock
  /\ UNCHANGED <<modeLost, tmo>>

(* Mutant of Leave: a call that timed out does not put the mode back.      *)
LeaveEarly(r) ==
  /\ tpc' = "idle" /\ result' = r /\ left' = 0 /\ d_restore' = FALSE /\ want' = "none"
  /\ \/ d_restore /\ r # "timeout" /\ nonblock' = d_oldflags /\ UNCHANGED modeLost
     \/ d_restore /\ r = "timeout" /\ UNCHANGED <<nonblock, modeLost>>
     \/ d_restore /\ modeLost' = TRUE /\ UNCHANGED nonblock
     \/ ~d_restore /\ UNCHANGED <<nonblock, modeLost>>
  /\ UNCHANGED <<op, d_oldflags, tmo>>

(* It returns r: ~NonBlockingScope puts the mode back, unnoticed if that   *)
(* fails.                                                                  *)
Leave(r) ==
  /\ tpc' = "idle" /\ result' = r /\ left' = 0 /\ d_restore' = FALSE /\ want' = "none"
  /\ \/ d_restore /\ nonblock' = d_oldflags /\ UNCHANGED modeLost
     \/ d_restore /\ modeLost' = TRUE /\ UNCHANGED nonblock
     \/ ~d_restore /\ UNCHANGED <<nonblock, modeLost>>
  /\ UNCHANGED <<op, d_oldflags, tmo>>

Goes(p, w) ==
  /\ tpc' = p /\ want' = w
  /\ UNCHANGED <<op, result, d_restore, d_oldflags, modeLost, tmo, nonblock, left>>

(* virtualbind: the SSL objects are made, or not, and SSL_connect begins.  *)
BindBegins == hs = "null" /\ Enter("bind", "ssl") /\ hs' = "write"
              /\ UNCHANGED <<pend, wleft, same, unacked, peerVars>>

BindCannotBegin ==
  /\ hs = "null" /\ tpc = "idle"
  /\ op' = "bind" /\ result' = "fail"
  /\ UNCHANGED <<tpc, want, d_restore, d_oldflags, modeLost, sslVars, peerVars, tmo, nonblock, left>>

(* virtualread and virtualsend; a send may repeat the one that timed out.  *)
ReadBegins == hs # "null" /\ Enter("read", "loop") /\ UNCHANGED <<sslVars, peerVars>>

SendBegins ==
  /\ hs # "null" /\ Enter("send", "loop")
  /\ same' \in {wleft = 0, TRUE}
  /\ UNCHANGED <<hs, pend, wleft, unacked, peerVars>>
-----------------------------------------------------------------------------
(* The loops.                                                              *)
Readable == inq # <<>> \/ link # "open"
Writable == outq < OutCap \/ link = "reset"

(* Mutant of SkipsSelect: SSL_pending() is not asked.                      *)
SkipsSelectNever == ~HasTimeout

(* select() is for a call with a timeout, unless a read finds bytes that   *)
(* are decrypted already.                                                  *)
SkipsSelect == ~HasTimeout \/ (op = "read" /\ pend > 0)

Loop ==
  /\ tpc = "loop"
  /\ \/ SkipsSelect /\ Goes("ssl", want)
     \/ ~SkipsSelect /\ left > 0 /\ Goes("select", want)
     \/ ~SkipsSelect /\ left = 0 /\ Leave("timeout")
  /\ UNCHANGED <<sslVars, peerVars>>

(* A read waits to read, a send to write, and both for what OpenSSL asked  *)
(* for; the handshake waits for that only.                                 *)
SelectSays ==
  \/ (op = "read" \/ want = "read") /\ Readable
  \/ (op = "send" \/ want = "write") /\ Writable

SelectReady ==
  /\ tpc = "select" /\ SelectSays
  /\ Goes("ssl", want)
  /\ UNCHANGED <<sslVars, peerVars>>

SelectExpires ==
  /\ tpc = "select" /\ ~SelectSays /\ left = 0
  /\ Leave("timeout")
  /\ UNCHANGED <<sslVars, peerVars>>

(* Mutant of Again: every turn of the loop gets a new deadline.            *)
AgainRearms ==
  /\ tpc = "again"
  /\ \/ op = "bind" /\ ~HasTimeout /\ Leave("fail")
     \/ op # "bind" /\ ~HasTimeout /\ Goes("wait", want)
     \/ /\ HasTimeout /\ left' = Ticks
        /\ tpc' = (IF op = "bind" THEN "select" ELSE "loop")
        /\ UNCHANGED <<op, want, result, d_restore, d_oldflags, modeLost, tmo, nonblock>>
  /\ UNCHANGED <<sslVars, peerVars>>

(* Mutant of Again: a read that found no data takes that for the end.      *)
AgainIsEof ==
  /\ tpc = "again"
  /\ \/ op = "bind" /\ Leave("fail")
     \/ op # "bind" /\ HasTimeout /\ Leave("eof")
     \/ op # "bind" /\ ~HasTimeout /\ Goes("wait", want)
  /\ UNCHANGED <<sslVars, peerVars>>

(* Mutant of Again: a send that the full buffer stopped counts as done.    *)
AgainCountsAsSent ==
  /\ tpc = "again"
  /\ \/ op = "send" /\ want = "write" /\ Leave("ok") /\ unacked' = unacked - MsgUnits
        /\ UNCHANGED <<hs, pend, wleft, same, peerVars>>
     \/ /\ op = "bind" \/ op = "read" \/ want = "read"
        /\ \/ op = "bind" /\ ~HasTimeout /\ Leave("fail")
           \/ op # "bind" /\ ~HasTimeout /\ Goes("wait", want)
           \/ HasTimeout /\ Goes("loop", want)
        /\ UNCHANGED <<sslVars, peerVars>>

(* OpenSSL wants to be called again.  Without a timeout the handshake      *)
(* gives up, and a read or send waits for the descriptor without a limit.  *)
Again ==
  /\ tpc = "again"
  /\ \/ op = "bind" /\ ~HasTimeout /\ Leave("fail")
     \/ op = "bind" /\ HasTimeout /\ left = 0 /\ Leave("timeout")
     \/ op = "bind" /\ HasTimeout /\ left > 0 /\ Goes("select", want)
     \/ op # "bind" /\ HasTimeout /\ Goes("loop", want)
     \/ op # "bind" /\ ~HasTimeout /\ Goes("wait", want)
  /\ UNCHANGED <<sslVars, peerVars>>

WaitEnds ==
  /\ tpc = "wait" /\ (IF op = "read" THEN Readable ELSE Writable)
  /\ Goes("loop", want)
  /\ UNCHANGED <<sslVars, peerVars>>

(* A signal interrupts select().                                           *)
SelectInterrupted ==
  /\ tpc \in {"select", "wait"}
  /\ Leave("fail")
  /\ UNCHANGED <<sslVars, peerVars>>
-----------------------------------------------------------------------------
(* OpenSSL: what SSL_connect, SSL_read and SSL_write do, one record at a   *)
(* time.  All three carry on a handshake that is not finished.             *)
InSsl(h) == tpc = "ssl" /\ hs = h

SslMoves == UNCHANGED <<callVars, tmo, nonblock, left>>

HandshakeWrites ==
  /\ InSsl("write")
  /\ \/ link # "reset" /\ outq < OutCap /\ outq' = outq + 1 /\ hs' = "read"
     \/ link = "reset" /\ hs' = "failed" /\ UNCHANGED outq
  /\ SslMoves /\ UNCHANGED <<pend, wleft, same, unacked, inq, link>>

HandshakeReads ==
  /\ InSsl("read") /\ inq # <<>>
  /\ hs' \in IF Head(inq) = "hs" THEN {"up", "failed"} ELSE {"failed"}
  /\ inq' = (IF Head(inq) = "bye" THEN inq ELSE Tail(inq))
  /\ SslMoves /\ UNCHANGED <<pend, wleft, same, unacked, outq, link>>

HandshakeBroken ==
  /\ InSsl("read") /\ inq = <<>> /\ link # "open"
  /\ hs' = "failed"
  /\ SslMoves /\ UNCHANGED <<pend, wleft, same, unacked, peerVars>>

(* SSL_connect returns 1; each of the three fails on a failed handshake.   *)
BindDone   == InSsl("up") /\ op = "bind" /\ Leave("ok") /\ UNCHANGED <<sslVars, peerVars>>
SslFailed  == InSsl("failed") /\ Leave("fail") /\ UNCHANGED <<sslVars, peerVars>>

(* SSL_read returns some of what is decrypted; otherwise it takes the next *)
(* record.                                                                 *)
ReadReturns ==
  /\ InSsl("up") /\ op = "read" /\ pend > 0
  /\ \E n \in 1..pend : pend' = pend - n
  /\ Leave("data")
  /\ UNCHANGED <<hs, wleft, same, unacked, peerVars>>

ReadRecord ==
  /\ InSsl("up") /\ op = "read" /\ pend = 0
  /\ inq # <<>> /\ Head(inq) # "bye"
  /\ inq' = Tail(inq)
  /\ pend' = (IF Head(inq) = "data" THEN RecSize ELSE 0)
  /\ hs' = (IF Head(inq) = "hreq" THEN "write" ELSE hs)
  /\ SslMoves /\ UNCHANGED <<wleft, same, unacked, outq, link>>

(* The end: announced by the peer, which is final, or found by recv(),     *)
(* which newer versions of OpenSSL report as an error of the protocol.     *)
ReadEnds ==
  /\ InSsl("up") /\ op = "read" /\ pend = 0
  /\ \/ inq # <<>> /\ Head(inq) = "bye" /\ Leave("eof")
     \/ inq = <<>> /\ link = "fin" /\ (Leave("eof") \/ Leave("fail"))
     \/ inq = <<>> /\ link = "reset" /\ Leave("fail")
  /\ UNCHANGED <<sslVars, peerVars>>

(* SSL_write begins a message, or goes on with the one it had begun.  A    *)
(* retry it tells by the address and the length of the buffer: it refuses  *)
(* any other before the message is out, and cannot see that the same       *)
(* buffer holds another message by now, which then passes for the rest of  *)
(* the first.  Units are counted here, not which message they belong to.   *)
WriteBegins ==
  /\ InSsl("up") /\ op = "send" /\ wleft = 0
  /\ wleft' = MsgUnits /\ same' = TRUE
  /\ SslMoves /\ UNCHANGED <<hs, pend, unacked, peerVars>>

WriteUnit ==
  /\ InSsl("up") /\ op = "send" /\ wleft > 0 /\ same
  /\ link # "reset" /\ outq < OutCap
  /\ wleft' = wleft - 1 /\ outq' = outq + 1
  /\ \/ wleft > 1 /\ unacked' = unacked + 1 /\ SslMoves
     \/ wleft = 1 /\ unacked' = unacked + 1 - MsgUnits /\ Leave("ok")
  /\ UNCHANGED <<hs, pend, same, inq, link>>

WriteFails ==
  /\ InSsl("up") /\ op = "send" /\ wleft > 0
  /\ ~same \/ link = "reset"
  /\ Leave("fail")
  /\ UNCHANGED <<sslVars, peerVars>>

(* What OpenSSL needs of the kernel now, and does not get.                 *)
Needs == IF hs = "write" \/ (hs = "up" /\ op = "send") THEN "write" ELSE "read"

Stuck ==
  /\ tpc = "ssl" /\ hs # "failed"
  /\ \/ Needs = "read" /\ inq = <<>> /\ link = "open" /\ (hs = "up" => op = "read" /\ pend = 0)
     \/ Needs = "write" /\ ~Writable /\ (hs = "up" => wleft > 0 /\ same)

(* On a non-blocking descriptor the call comes back and says what it       *)
(* wants; on a blocking one it waits in the kernel, until a signal.        *)
ComesBack      == Goes("again", Needs) /\ UNCHANGED <<sslVars, peerVars>>
WouldBlock     == Stuck /\ nonblock /\ ComesBack
SslInterrupted == Stuck /\ ~nonblock /\ ComesBack
-----------------------------------------------------------------------------
(* virtualfinish: SSL_shutdown writes its close_notify where a session is  *)
(* up, outside any NonBlockingScope, and everything is released.           *)
FinishBegins ==
  /\ tpc = "idle" /\ hs # "null"
  /\ op' = "finish" /\ tpc' = "shutdown" /\ result' = "none"
  /\ UNCHANGED <<want, d_restore, d_oldflags, modeLost, sslVars, peerVars, tmo, nonblock, left>>

ShutdownReturns == tpc = "shutdown" /\ (hs = "up" => Writable \/ nonblock)

(* The peer.  What arrives during a call of OpenSSL that does not wait in  *)
(* the kernel counts as arriving after it.                                 *)
PeerTurn == hs # "null" /\ (tpc = "ssl" => Stuck /\ ~nonblock)

PeerSends(r) ==
  /\ PeerTurn /\ link = "open" /\ Len(inq) < InCap
  /\ \/ r \in {"hs", "bad"} /\ hs = "read" /\ outq = 0 /\ ~Arrived("hs") /\ ~Arrived("bad")
     \/ r \in {"data", "ticket", "hreq"} /\ (hs = "up" \/ Arrived("hs")) /\ ~Arrived("hreq")
     \/ r = "bye"
  /\ inq' = Append(inq, r)
  /\ link' = (IF r = "bye" THEN "fin" ELSE link)
  /\ UNCHANGED <<callVars, sslVars, outq, tmo, nonblock, left>>

PeerReads ==
  /\ PeerTurn /\ outq > 0
  /\ outq' = outq - 1
  /\ UNCHANGED <<callVars, sslVars, inq, link, tmo, nonblock, left>>

PeerGoes ==
  /\ PeerTurn
  /\ \/ link = "open" /\ link' = "fin" /\ UNCHANGED <<inq, outq>>
     \/ link # "reset" /\ link' = "reset" /\ inq' = <<>> /\ outq' = 0
  /\ UNCHANGED <<callVars, sslVars, tmo, nonblock, left>>

(* The steps of a call in progress that need nobody else.                  *)
TlsStep ==
  \/ Loop
  \/ SelectReady
  \/ SelectExpires
  \/ Again
  \/ WaitEnds
  \/ HandshakeWrites
  \/ HandshakeReads
  \/ HandshakeBroken
  \/ BindDone
  \/ SslFailed
  \/ ReadReturns
  \/ ReadRecord
  \/ ReadEnds
  \/ WriteBegins
  \/ WriteUnit
  \/ WriteFails
  \/ WouldBlock

(* What happens to it from outside.                                        *)
TlsOutside ==
  \/ SelectInterrupted
  \/ SslInterrupted
  \/ \E r \in Records : PeerSends(r)
  \/ PeerReads
  \/ PeerGoes
-----------------------------------------------------------------------------
TlsTypeOK ==
  /\ op \in {"none", "bind", "read", "send", "finish"}
  /\ tpc \in {"idle", "loop", "select", "ssl", "again", "wait", "shutdown"}
  /\ want \in {"none", "read", "write"}
  /\ result \in {"none", "ok", "data", "eof", "timeout", "fail"}
  /\ {d_restore, d_oldflags, modeLost, same} \subseteq BOOLEAN
  /\ hs \in {"null", "write", "read", "up", "failed"}
  /\ pend \in 0..RecSize /\ wleft \in 0..MsgUnits /\ unacked \in -MsgUnits..MsgUnits
  /\ inq \in Seq(Records) /\ Len(inq) <= InCap /\ outq \in 0..OutCap
  /\ link \in {"open", "fin", "reset"}
=============================================================================
