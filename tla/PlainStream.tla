---------------------------- MODULE PlainStream ----------------------------
(***************************************************************************)
(* The data calls of a connected plain Socket: Socket_Comm_Normal's byte   *)
(* loops and the loops of Socket_TCPClient on top of them (read, reads,    *)
(* readline, send, sends), against a peer and a kernel that run            *)
(* concurrently: every recv, send and select is a step of its own.         *)
(*                                                                         *)
(* Time is abstract: a select() with a timeout may expire whenever it has  *)
(* nothing to report.  The timeout is armed anew for every byte.           *)
(***************************************************************************)
EXTENDS Integers, Sequences

CONSTANTS
  Bytes,     \* the bytes the peer sends; "CR", "LF" and "NUL" are special
  MaxIn,     \* bound on the bytes the peer sends in a behaviour
  MaxLen,    \* bound on the length argument of read, send and sends
  SendBuf    \* bytes the kernel takes before a send has to wait

ASSUME StreamConstants ==
  /\ MaxIn \in Nat /\ MaxLen \in Nat /\ SendBuf \in Nat

VARIABLES
  timed,    \* a timeout is set
  inq,      \* bytes that arrived and were not received yet
  sent,     \* how many bytes the peer sent
  link,     \* "open"; "closed" by the peer in order; "reset", which the next
            \* recv or send reports; "dead" once one did
  outq,     \* how many bytes the kernel holds for the peer
  op,       \* the call in progress, or "none"
  length,   \* its length argument, or the length of its string
  x,        \* the loop counter of virtualread or virtualsend
  text,     \* the buffer, or d_readbuffer
  lastc,    \* readline's lastc
  taken,    \* what the call took from the kernel, in order
  value,    \* what the last call returned; NULL is 0, a string is 1
  why,      \* why it returned
  lastOp    \* which call that was

netVars    == <<inq, sent, link, outq>>
loopVars   == <<length, x, text, lastc, taken>>
resultVars == <<value, why, lastOp>>
streamVars == <<timed, inq, sent, link, outq, op, length, x, text, lastc, taken,
                value, why, lastOp>>

ReadOps == {"read", "reads", "readline"}
SendOps == {"send", "sends"}

StreamInit ==
  /\ timed \in BOOLEAN
  /\ inq = <<>> /\ sent = 0 /\ link = "open" /\ outq = 0
  /\ op = "none" /\ length = 0 /\ x = 0 /\ text = <<>> /\ lastc = "NUL" /\ taken = <<>>
  /\ value = 0 /\ why = "none" /\ lastOp = "none"

(* The caller starts a call, with its locals and d_readbuffer reset.       *)
Call(o, n) ==
  /\ op = "none"
  /\ op' = o /\ length' = n /\ x' = 0
  /\ text' = <<>> /\ lastc' = "NUL" /\ taken' = <<>>
  /\ UNCHANGED <<timed, netVars, resultVars>>

Return(v, w) ==
  /\ value' = v /\ why' = w /\ lastOp' = op
  /\ op' = "none"
-----------------------------------------------------------------------------
(* Reading.                                                                *)

(* Mutant of ReadDone: the loop counter is returned one too early.         *)
ReadDoneEarly ==
  /\ op = "read" /\ x + 1 >= length
  /\ Return(length, "ok")
  /\ UNCHANGED <<timed, netVars, loopVars>>

(* virtualread's loop is over: the buffer is full.                         *)
ReadDone ==
  /\ op = "read" /\ x = length
  /\ Return(x, "ok")
  /\ UNCHANGED <<timed, netVars, loopVars>>

(* recv() has nothing more to give: the peer closed, or a reset was        *)
(* reported already.                                                       *)
AtEnd == inq = <<>> /\ link \in {"closed", "dead"}

Receiving == op \in {"reads", "readline"} \/ (op = "read" /\ x < length)

(* recv() gives virtualread one more byte.                                 *)
RecvIntoBuffer ==
  /\ op = "read" /\ x < length /\ inq # <<>>
  /\ inq' = Tail(inq) /\ taken' = Append(taken, Head(inq))
  /\ text' = Append(text, Head(inq))
  /\ x' = x + 1
  /\ UNCHANGED <<timed, sent, link, outq, op, length, lastc, resultVars>>

(* reads: keep every byte, stop after a NUL.                               *)
RecvIntoReads ==
  /\ op = "reads" /\ inq # <<>>
  /\ inq' = Tail(inq) /\ taken' = Append(taken, Head(inq))
  /\ text' = Append(text, Head(inq))
  /\ IF Head(inq) = "NUL" THEN Return(1, "ok") ELSE UNCHANGED <<op, resultVars>>
  /\ UNCHANGED <<timed, sent, link, outq, length, x, lastc>>

(* readline: keep every byte but CR and LF, stop after a NUL or a CR LF.   *)
EndsLineAtLF(last, c) == c = "NUL" \/ c = "LF"   \* mutant of EndsLine

EndsLine(last, c) == c = "NUL" \/ (c = "LF" /\ last = "CR")
KeepsByte(c)      == c # "LF" /\ c # "CR"

RecvIntoLine ==
  /\ op = "readline" /\ inq # <<>>
  /\ inq' = Tail(inq) /\ taken' = Append(taken, Head(inq))
  /\ text' = IF KeepsByte(Head(inq)) THEN Append(text, Head(inq)) ELSE text
  /\ IF EndsLine(lastc, Head(inq)) THEN Return(1, "ok") /\ UNCHANGED lastc
                                   ELSE lastc' = Head(inq) /\ UNCHANGED <<op, resultVars>>
  /\ UNCHANGED <<timed, sent, link, outq, length, x>>

(* Mutant of RecvEof: an empty string, not NULL, at the end of the stream. *)
RecvEofEmptyString ==
  /\ Receiving /\ AtEnd
  /\ Return(IF op # "read" THEN 1 ELSE 0, "eof")
  /\ UNCHANGED <<timed, netVars, loopVars>>

(* Mutant of RecvEof: the unterminated last line is dropped.               *)
RecvEofDrops ==
  /\ Receiving /\ AtEnd
  /\ Return(0, "eof")
  /\ text' = <<>>
  /\ UNCHANGED <<timed, netVars, length, x, lastc, taken>>

(* recv() returns 0: virtualread returns 0 whatever it has, reads and      *)
(* readline return what they have, or NULL if that is nothing.             *)
RecvEof ==
  /\ Receiving /\ AtEnd
  /\ Return(IF op # "read" /\ text # <<>> THEN 1 ELSE 0, "eof")
  /\ UNCHANGED <<timed, netVars, loopVars>>

(* Mutant of RecvFails: no select() before recv().                         *)
RecvFailsUntimed(w) ==
  /\ Receiving /\ inq = <<>>
  /\ w = "error" /\ link = "reset"
  /\ Return(IF op = "read" THEN -1 ELSE 0, w)
  /\ UNCHANGED <<timed, netVars, loopVars>>

(* select() expires, a signal interrupts the wait, or recv() reports a     *)
(* reset: -1 from read, NULL from reads and readline, which empty          *)
(* d_readbuffer.                                                           *)
RecvFails(w) ==
  /\ Receiving /\ inq = <<>>
  /\ \/ w = "timeout" /\ timed /\ link = "open"
     \/ w = "signal" /\ link = "open"
     \/ w = "error" /\ link = "reset"
  /\ link' = IF w = "error" THEN "dead" ELSE link
  /\ Return(IF op = "read" THEN -1 ELSE 0, w)
  /\ text' = IF op = "read" THEN text ELSE <<>>
  /\ UNCHANGED <<timed, inq, sent, outq, length, x, lastc, taken>>
-----------------------------------------------------------------------------
(* Sending.  x counts the bytes the kernel took.                           *)

(* The connection takes data: the peer may have closed its side only.      *)
Writable == link \in {"open", "closed"}

(* sends() returns bool: whether virtualsend returned more than 0.         *)
SendReturns(v, w) == Return(IF op = "sends" THEN (IF v > 0 THEN 1 ELSE 0) ELSE v, w)

(* Mutant of SendByte: the loop runs once too often.                       *)
SendByteOnePast ==
  /\ op \in SendOps /\ x <= length /\ Writable /\ outq < SendBuf
  /\ outq' = outq + 1
  /\ x' = x + 1
  /\ UNCHANGED <<timed, inq, sent, link, op, length, text, lastc, taken, resultVars>>

(* The kernel takes one more byte of the call's data.                      *)
SendByte ==
  /\ op \in SendOps /\ x < length /\ Writable /\ outq < SendBuf
  /\ outq' = outq + 1
  /\ x' = x + 1
  /\ UNCHANGED <<timed, inq, sent, link, op, length, text, lastc, taken, resultVars>>

SendDone ==
  /\ op \in SendOps /\ x = length
  /\ SendReturns(x, "ok")
  /\ UNCHANGED <<timed, netVars, loopVars>>

(* select() expires: the number of bytes sent so far is returned.          *)
SendTimesOut ==
  /\ op \in SendOps /\ x < length /\ timed /\ Writable /\ outq = SendBuf
  /\ SendReturns(x, "timeout")
  /\ UNCHANGED <<timed, netVars, loopVars>>

(* Mutant of SendFails: what the kernel took before the failure is lost.   *)
SendFailsShort(w) ==
  /\ op \in SendOps /\ x < length
  /\ w = "error" /\ ~Writable
  /\ SendReturns(-1, w)
  /\ UNCHANGED <<timed, netVars, loopVars>>

(* send() reports a reset, or a signal interrupts the wait.  The untimed   *)
(* loop is one send(), which reports what the kernel took before that, and *)
(* which fails on a dead connection even with nothing to send.             *)
SendFails(w) ==
  /\ op \in SendOps
  /\ x < length \/ (length = 0 /\ ~timed)
  /\ \/ w = "error" /\ ~Writable
     \/ w = "signal" /\ Writable /\ outq = SendBuf /\ x < length
  /\ link' = IF w = "error" THEN "dead" ELSE link
  /\ SendReturns(IF ~timed /\ x > 0 THEN x ELSE -1, w)
  /\ UNCHANGED <<timed, inq, sent, outq, loopVars>>
-----------------------------------------------------------------------------
(* The peer, and the caller's setTimeout between calls.                    *)
PeerSends(b) ==
  /\ link = "open" /\ sent < MaxIn
  /\ inq' = Append(inq, b) /\ sent' = sent + 1
  /\ UNCHANGED <<timed, link, outq, op, loopVars, resultVars>>

PeerReads ==
  /\ Writable /\ outq > 0
  /\ outq' = outq - 1
  /\ UNCHANGED <<timed, inq, sent, link, op, loopVars, resultVars>>

PeerCloses ==
  /\ link = "open"
  /\ link' = "closed"
  /\ UNCHANGED <<timed, inq, sent, outq, op, loopVars, resultVars>>

(* A reset drops what we sent, and may drop what we did not receive yet.   *)
PeerResets ==
  /\ Writable
  /\ link' = "reset"
  /\ inq' \in {inq, <<>>}
  /\ outq' = 0
  /\ UNCHANGED <<timed, sent, op, loopVars, resultVars>>

SetTimed(b) ==
  /\ op = "none" /\ timed' = b
  /\ UNCHANGED <<netVars, op, loopVars, resultVars>>

CallStep ==
  \/ ReadDone
  \/ RecvIntoBuffer
  \/ RecvIntoReads
  \/ RecvIntoLine
  \/ RecvEof
  \/ \E w \in {"timeout", "error"} : RecvFails(w)
  \/ SendByte
  \/ SendDone
  \/ SendTimesOut
  \/ SendFails("error")

(* A signal interrupts the wait of a call.  It may, and never has to.      *)
Interrupted == RecvFails("signal") \/ SendFails("signal")

CallerStep ==
  \/ \E n \in 0..MaxLen : Call("read", n)
  \/ Call("reads", 0)
  \/ Call("readline", 0)
  \/ \E n \in 0..MaxLen : Call("send", n)
  \/ \E n \in 1..MaxLen : Call("sends", n)

StreamNext ==
  \/ CallStep
  \/ Interrupted
  \/ CallerStep
  \/ \E b \in Bytes : PeerSends(b)
  \/ PeerReads
  \/ PeerCloses
  \/ PeerResets
  \/ \E b \in BOOLEAN : SetTimed(b)

(* A call that can take its next step takes it; the peer owes nothing, and *)
(* no signal has to come, so that an untimed call may wait for ever.       *)
StreamSpec == StreamInit /\ [][StreamNext]_streamVars /\ WF_streamVars(CallStep)
-----------------------------------------------------------------------------
StreamTypeOK ==
  /\ timed \in BOOLEAN
  /\ inq \in Seq(Bytes) /\ taken \in Seq(Bytes) /\ text \in Seq(Bytes)
  /\ sent \in 0..MaxIn
  /\ link \in {"open", "closed", "reset", "dead"}
  /\ outq \in 0..SendBuf
  /\ op \in ReadOps \cup SendOps \cup {"none"}
  /\ length \in 0..MaxLen
  /\ x \in 0..length
  /\ lastc \in Bytes \cup {"NUL"}
  /\ value \in -1..MaxLen \cup {1}
  /\ why \in {"none", "ok", "eof", "timeout", "signal", "error"}
  /\ lastOp \in ReadOps \cup SendOps \cup {"none"}

Finished(o) == op = "none" /\ lastOp = o

(* A read that returns a positive count filled the whole buffer, with the  *)
(* bytes that arrived, in their order.                                     *)
ReadIsExact ==
  Finished("read") /\ value > 0 => value = length /\ text = taken /\ Len(taken) = length

(* A line ends at the first CR LF or NUL that arrives after the call, and  *)
(* at nothing else: no byte of the next line is taken with it.             *)
Terminates(s, i) == s[i] = "NUL" \/ (i > 1 /\ s[i] = "LF" /\ s[i - 1] = "CR")
LineFraming ==
  Finished("readline") /\ why = "ok" =>
    \A i \in DOMAIN taken : Terminates(taken, i) <=> i = Len(taken)

EndsInCRLF(s) == Len(s) > 1 /\ s[Len(s) - 1] = "CR" /\ s[Len(s)] = "LF"

(* t is made of bytes of s, in their order: of all that are no CR or LF,   *)
(* and not of the CR LF that ends s.  f says where in s the bytes of t are.*)
(* Whether a CR or LF elsewhere in s belongs to t is left open.            *)
IsLineOf(t, s) ==
  \E f \in [1..Len(t) -> 1..Len(s)] :
    /\ \A j, k \in 1..Len(t) : j < k => f[j] < f[k]
    /\ \A j \in 1..Len(t) : t[j] = s[f[j]]
    /\ \A i \in 1..Len(s) : s[i] \notin {"CR", "LF"} => \E j \in 1..Len(t) : f[j] = i
    /\ EndsInCRLF(s) => \A j \in 1..Len(t) : f[j] < Len(s) - 1

(* Unless the call failed, readline hands over the bytes that arrived, in  *)
(* order and without the CR LF that ended them, the unterminated last line *)
(* included; NULL means that there were none.  The code also leaves out a  *)
(* CR or an LF inside a line, which "without the terminator" does not ask  *)
(* for and this does not promise.                                          *)
LineKeepsData ==
  Finished("readline") /\ why \in {"ok", "eof"} =>
    IsLineOf(text, taken) /\ (value = 0 => text = <<>>)

(* An untimed sends() that returned false sent nothing of the string, so   *)
(* that the caller may send it again.                                      *)
RetrySafeUntimed ==
  [][ op = "sends" /\ op' = "none" /\ ~timed /\ value' = 0 => x = 0 ]_streamVars

(* With a timeout set, read, send and sends return, whatever the peer does *)
(* or fails to do.                                                         *)
TimedCallsReturn == (timed /\ op \in {"read", "send", "sends"}) ~> (op = "none")

(* The loop that the comment in reads() and readline() is about,           *)
(*     while((line = socket.readline()) != NULL)                           *)
(* ends: a caller that keeps calling readline after the peer went away is  *)
(* given NULL.                                                             *)
LoopEnds ==
  <>[](link # "open") /\ []<>(op = "readline")
    => []<>(Finished("readline") /\ value = 0)

(* What socket.h says: sends() "Returns false and sets the error message   *)
(* if it fails to send the line".                                          *)
SendsMeansSent == Finished("sends") /\ value = 1 => x = length
=============================================================================
