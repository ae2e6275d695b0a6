------------------------- MODULE PlainStreamProofs -------------------------
(***************************************************************************)
(* Proofs about the data calls of a plain Socket, for every set of bytes,  *)
(* every length and every size of the send buffer, and every peer.         *)
(***************************************************************************)
EXTENDS PlainStream, TLAPS

(* What a read in progress has done: its buffer is what it took, as long   *)
(* as its counter says.                                                    *)
ReadSoFar == op = "read" => text = taken /\ Len(taken) = x

(* What a readline in progress has done: it has not met an end of line,    *)
(* lastc is the byte it took last, and it kept what it has to keep.        *)
NoEndOfLineYet ==
  op = "readline" =>
    /\ \A i \in 1..Len(taken) : ~Terminates(taken, i)
    /\ lastc = IF taken = <<>> THEN "NUL" ELSE taken[Len(taken)]

(* More than LineKeepsData asks: t is s without any of its CRs and LFs.    *)
IsWithoutLineEnds(t, s) ==
  \E f \in [1..Len(t) -> 1..Len(s)] :
    /\ \A j, k \in 1..Len(t) : j < k => f[j] < f[k]
    /\ \A j \in 1..Len(t) : t[j] = s[f[j]]
    /\ \A i \in 1..Len(s) : s[i] \notin {"CR", "LF"} <=> \E j \in 1..Len(t) : f[j] = i

LineSoFar == op = "readline" => IsWithoutLineEnds(text, taken)
LineTaken ==
  Finished("readline") /\ why \in {"ok", "eof"} =>
    IsWithoutLineEnds(text, taken) /\ (value = 0 => text = <<>>)

CallInv ==
  /\ ReadSoFar /\ ReadIsExact
  /\ NoEndOfLineYet /\ LineFraming
  /\ LineSoFar /\ LineTaken
-----------------------------------------------------------------------------
(* Types.                                                                  *)
LEMMA LengthFacts ==
  ASSUME StreamTypeOK
  PROVE  /\ MaxIn \in Nat /\ MaxLen \in Nat /\ SendBuf \in Nat
         /\ length \in Nat /\ x \in Nat /\ x <= length /\ length <= MaxLen
  BY StreamConstants DEF StreamTypeOK

LEMMA CallTypes ==
  ASSUME StreamTypeOK, NEW o \in ReadOps \cup SendOps, NEW n \in 0..MaxLen, Call(o, n)
  PROVE  StreamTypeOK'
<1>1. x' \in 0..length' /\ length' \in 0..MaxLen
  BY StreamConstants DEF Call
<1>2. text' \in Seq(Bytes) /\ taken' \in Seq(Bytes) /\ lastc' \in Bytes \cup {"NUL"}
  BY DEF Call
<1> QED BY <1>1, <1>2 DEF StreamTypeOK, Call, netVars, resultVars

(* Taking a byte from the kernel.                                          *)
LEMMA TakeTypes ==
  ASSUME StreamTypeOK, inq # <<>>
  PROVE  /\ Head(inq) \in Bytes /\ Tail(inq) \in Seq(Bytes)
         /\ Append(taken, Head(inq)) \in Seq(Bytes)
         /\ Append(text, Head(inq)) \in Seq(Bytes)
<1>1. inq \in Seq(Bytes) /\ taken \in Seq(Bytes) /\ text \in Seq(Bytes)
  BY DEF StreamTypeOK
<1>2. Head(inq) \in Bytes /\ Tail(inq) \in Seq(Bytes)
  BY <1>1
<1> QED BY <1>1, <1>2

(* A call returns: the result has its type.                                *)
LEMMA ReturnTypes ==
  ASSUME StreamTypeOK, NEW v \in -1..MaxLen \cup {1},
         NEW w \in {"ok", "eof", "timeout", "signal", "error"}, Return(v, w)
  PROVE  /\ value' \in -1..MaxLen \cup {1} /\ op' = "none"
         /\ why' \in {"none", "ok", "eof", "timeout", "signal", "error"}
         /\ lastOp' \in ReadOps \cup SendOps \cup {"none"}
  BY DEF StreamTypeOK, Return

LEMMA StreamTypeStep ==
  ASSUME StreamTypeOK, [StreamNext]_streamVars
  PROVE  StreamTypeOK'
<1>0. /\ MaxIn \in Nat /\ MaxLen \in Nat /\ SendBuf \in Nat
      /\ length \in Nat /\ x \in Nat /\ x <= length /\ length <= MaxLen
  BY LengthFacts
<1>1. x \in -1..MaxLen \cup {1} /\ {-1, 0, 1} \subseteq -1..MaxLen \cup {1}
  BY <1>0
<1>2. CASE ReadDone
  BY <1>0, <1>1, <1>2, ReturnTypes DEF ReadDone, StreamTypeOK, netVars, loopVars
<1>3. CASE RecvIntoBuffer
  <2>1. x' \in 0..length'
    BY <1>0, <1>3 DEF RecvIntoBuffer
  <2> QED BY <1>3, <2>1, TakeTypes DEF RecvIntoBuffer, StreamTypeOK, resultVars
<1>4. CASE RecvIntoReads
  <2>1. /\ value' \in -1..MaxLen \cup {1} /\ op' \in {op, "none"}
        /\ why' \in {"none", "ok", "eof", "timeout", "signal", "error"}
        /\ lastOp' \in ReadOps \cup SendOps \cup {"none"}
    BY <1>1, <1>4, ReturnTypes DEF RecvIntoReads, StreamTypeOK, resultVars
  <2> QED BY <1>4, <2>1, TakeTypes DEF RecvIntoReads, StreamTypeOK
<1>5. CASE RecvIntoLine
  <2>1. /\ value' \in -1..MaxLen \cup {1} /\ op' \in {op, "none"}
        /\ why' \in {"none", "ok", "eof", "timeout", "signal", "error"}
        /\ lastOp' \in ReadOps \cup SendOps \cup {"none"}
    BY <1>1, <1>5, ReturnTypes DEF RecvIntoLine, StreamTypeOK, resultVars
  <2>2. lastc' \in Bytes \cup {"NUL"} /\ text' \in Seq(Bytes)
    BY <1>5, TakeTypes DEF RecvIntoLine, StreamTypeOK
  <2> QED BY <1>5, <2>1, <2>2, TakeTypes DEF RecvIntoLine, StreamTypeOK
<1>6. CASE RecvEof
  BY <1>1, <1>6, ReturnTypes DEF RecvEof, StreamTypeOK, netVars, loopVars
<1>7. ASSUME NEW w \in {"timeout", "signal", "error"}, RecvFails(w) PROVE StreamTypeOK'
  <2>1. text' \in Seq(Bytes) /\ link' \in {"open", "closed", "reset", "dead"}
    BY <1>7 DEF RecvFails, StreamTypeOK
  <2> QED BY <1>1, <1>7, <2>1, ReturnTypes DEF RecvFails, StreamTypeOK
<1>8. CASE SendByte
  BY <1>0, <1>8 DEF SendByte, StreamTypeOK, resultVars
<1>9. CASE SendDone \/ SendTimesOut
  BY <1>1, <1>9, ReturnTypes DEF SendDone, SendTimesOut, SendReturns, StreamTypeOK, netVars, loopVars
<1>10. ASSUME NEW w \in {"signal", "error"}, SendFails(w) PROVE StreamTypeOK'
  BY <1>1, <1>10, ReturnTypes DEF SendFails, SendReturns, StreamTypeOK, loopVars
<1>11. CASE CallerStep
  BY <1>0, <1>11, CallTypes DEF CallerStep, ReadOps, SendOps
<1>12. ASSUME NEW b \in Bytes, PeerSends(b) PROVE StreamTypeOK'
  BY <1>0, <1>12 DEF PeerSends, StreamTypeOK, loopVars, resultVars
<1>13. CASE PeerReads \/ PeerCloses
  BY <1>0, <1>13 DEF PeerReads, PeerCloses, StreamTypeOK, loopVars, resultVars
<1>14. CASE PeerResets
  <2>1. inq' \in Seq(Bytes)
    <3>1. <<>> \in Seq(Bytes)
      OBVIOUS
    <3> QED BY <1>14, <3>1 DEF PeerResets, StreamTypeOK
  <2> QED BY <1>0, <1>14, <2>1 DEF PeerResets, StreamTypeOK, loopVars, resultVars
<1>15. ASSUME NEW b \in BOOLEAN, SetTimed(b) PROVE StreamTypeOK'
  BY <1>15 DEF SetTimed, StreamTypeOK, netVars, loopVars, resultVars
<1>16. CASE UNCHANGED streamVars
  BY <1>16 DEF streamVars, StreamTypeOK
<1> QED
  BY <1>2, <1>3, <1>4, <1>5, <1>6, <1>7, <1>8, <1>9, <1>10, <1>11, <1>12, <1>13, <1>14,
     <1>15, <1>16
     DEF StreamNext, CallStep, Interrupted

LEMMA StreamTypeInit == StreamInit => StreamTypeOK
<1>1. <<>> \in Seq(Bytes) /\ 0 \in 0..MaxIn /\ 0 \in 0..MaxLen /\ 0 \in 0..SendBuf
      /\ 0 \in 0..0 /\ 0 \in -1..MaxLen
  BY StreamConstants
<1> QED BY <1>1 DEF StreamInit, StreamTypeOK

(* Every variable keeps its type; no loop counter passes its length.       *)
THEOREM StreamTypeCorrect == StreamSpec => []StreamTypeOK
<1>1. StreamTypeOK /\ [StreamNext]_streamVars => StreamTypeOK'
  BY StreamTypeStep
<1> QED BY <1>1, StreamTypeInit, PTL DEF StreamSpec
-----------------------------------------------------------------------------
(* Lemmas about the bytes a line is made of.                               *)

LEMMA EmptyLine == IsWithoutLineEnds(<<>>, <<>>)
<1>1. Len(<<>>) = 0 /\ 1..0 = {}
  OBVIOUS
<1> DEFINE f == [j \in 1..0 |-> 0]
<1>2. f \in [1..Len(<<>>) -> 1..Len(<<>>)]
  BY <1>1
<1> QED BY <1>1, <1>2 DEF IsWithoutLineEnds

(* One more byte: dropped if it is a CR or an LF, kept at the end if not.  *)
LEMMA LineDrops ==
  ASSUME NEW t \in Seq(Bytes), NEW s \in Seq(Bytes), NEW c \in Bytes,
         IsWithoutLineEnds(t, s), c \in {"CR", "LF"}
  PROVE  IsWithoutLineEnds(t, Append(s, c))
<1>1. PICK f \in [1..Len(t) -> 1..Len(s)] :
        /\ \A j, k \in 1..Len(t) : j < k => f[j] < f[k]
        /\ \A j \in 1..Len(t) : t[j] = s[f[j]]
        /\ \A i \in 1..Len(s) : s[i] \notin {"CR", "LF"} <=> \E j \in 1..Len(t) : f[j] = i
  BY DEF IsWithoutLineEnds
<1> DEFINE r == Append(s, c)
<1>2. /\ Len(t) \in Nat /\ Len(s) \in Nat /\ Len(r) = Len(s) + 1
      /\ r[Len(s) + 1] = c /\ \A i \in 1..Len(s) : r[i] = s[i]
  OBVIOUS
<1> HIDE DEF r
<1>3. f \in [1..Len(t) -> 1..Len(r)] /\ \A j \in 1..Len(t) : f[j] \in 1..Len(s)
  BY <1>1, <1>2
<1>4. \A j \in 1..Len(t) : t[j] = r[f[j]]
  BY <1>1, <1>2, <1>3
<1>5. ASSUME NEW i \in 1..Len(r)
      PROVE  r[i] \notin {"CR", "LF"} <=> \E j \in 1..Len(t) : f[j] = i
  <2>1. CASE i \in 1..Len(s)
    BY <1>1, <1>2, <2>1
  <2>2. CASE i = Len(s) + 1
    BY <1>2, <1>3, <2>2
  <2> QED BY <1>2, <2>1, <2>2
<1>6. IsWithoutLineEnds(t, r)
  BY <1>1, <1>3, <1>4, <1>5 DEF IsWithoutLineEnds
<1> QED BY <1>6 DEF r

LEMMA LineKeeps ==
  ASSUME NEW t \in Seq(Bytes), NEW s \in Seq(Bytes), NEW c \in Bytes,
         IsWithoutLineEnds(t, s), c \notin {"CR", "LF"}
  PROVE  IsWithoutLineEnds(Append(t, c), Append(s, c))
<1>1. PICK f \in [1..Len(t) -> 1..Len(s)] :
        /\ \A j, k \in 1..Len(t) : j < k => f[j] < f[k]
        /\ \A j \in 1..Len(t) : t[j] = s[f[j]]
        /\ \A i \in 1..Len(s) : s[i] \notin {"CR", "LF"} <=> \E j \in 1..Len(t) : f[j] = i
  BY DEF IsWithoutLineEnds
<1> DEFINE r == Append(s, c)
           u == Append(t, c)
           g == [j \in 1..(Len(t) + 1) |-> IF j = Len(t) + 1 THEN Len(s) + 1 ELSE f[j]]
<1>2. /\ Len(s) \in Nat /\ Len(r) = Len(s) + 1
      /\ r[Len(s) + 1] = c /\ \A i \in 1..Len(s) : r[i] = s[i]
  OBVIOUS
<1>3. /\ Len(t) \in Nat /\ Len(u) = Len(t) + 1
      /\ u[Len(t) + 1] = c /\ \A i \in 1..Len(t) : u[i] = t[i]
  OBVIOUS
<1> HIDE DEF r, u
<1>4. /\ g[Len(t) + 1] = Len(s) + 1
      /\ \A j \in 1..Len(t) : g[j] = f[j] /\ f[j] \in 1..Len(s)
  <2>1. Len(t) + 1 \in 1..(Len(t) + 1)
    BY <1>3
  <2>2. \A j \in 1..Len(t) : j \in 1..(Len(t) + 1) /\ j # Len(t) + 1
    BY <1>3
  <2> QED BY <2>1, <2>2
<1>5. g \in [1..Len(u) -> 1..Len(r)]
  BY <1>1, <1>2, <1>3
<1> HIDE DEF g
<1>6. \A j \in 1..Len(u) : j \in 1..Len(t) \/ j = Len(t) + 1
  BY <1>3
<1>7. ASSUME NEW j \in 1..Len(u), NEW k \in 1..Len(u), j < k PROVE g[j] < g[k]
  <2>1. j \in 1..Len(t)
    BY <1>3, <1>7
  <2>2. CASE k \in 1..Len(t)
    BY <1>1, <1>4, <1>7, <2>1, <2>2
  <2>3. CASE k = Len(t) + 1
    BY <1>2, <1>4, <2>1, <2>3
  <2> QED BY <1>6, <2>2, <2>3
<1>8. ASSUME NEW j \in 1..Len(u) PROVE u[j] = r[g[j]]
  <2>1. CASE j \in 1..Len(t)
    BY <1>1, <1>2, <1>3, <1>4, <2>1
  <2>2. CASE j = Len(t) + 1
    BY <1>2, <1>3, <1>4, <2>2
  <2> QED BY <1>6, <2>1, <2>2
<1>9. ASSUME NEW i \in 1..Len(r)
      PROVE  r[i] \notin {"CR", "LF"} <=> \E j \in 1..Len(u) : g[j] = i
  <2>1. CASE i \in 1..Len(s)
    <3>1. r[i] \notin {"CR", "LF"} <=> \E j \in 1..Len(t) : f[j] = i
      BY <1>1, <1>2, <2>1
    <3>2. (\E j \in 1..Len(t) : f[j] = i) <=> \E j \in 1..Len(u) : g[j] = i
      <4>1. ASSUME NEW j \in 1..Len(t), f[j] = i PROVE \E k \in 1..Len(u) : g[k] = i
        <5>1. j \in 1..Len(u)
          BY <1>3
        <5> QED BY <1>4, <4>1, <5>1
      <4>2. ASSUME NEW j \in 1..Len(u), g[j] = i PROVE \E k \in 1..Len(t) : f[k] = i
        <5>1. j # Len(t) + 1
          BY <1>2, <1>4, <2>1, <4>2
        <5> QED BY <1>4, <1>6, <4>2, <5>1
      <4> QED BY <4>1, <4>2
    <3> QED BY <3>1, <3>2
  <2>2. CASE i = Len(s) + 1
    <3>1. Len(t) + 1 \in 1..Len(u)
      BY <1>3
    <3> QED BY <1>2, <1>4, <2>2, <3>1
  <2> QED BY <1>2, <2>1, <2>2
<1>10. IsWithoutLineEnds(u, r)
  BY <1>5, <1>7, <1>8, <1>9 DEF IsWithoutLineEnds
<1> QED BY <1>10 DEF u, r

(* Nothing of the final CR LF is left where all CRs and LFs are left out.  *)
LEMMA LineWithoutTerminator ==
  ASSUME NEW t \in Seq(Bytes), NEW s \in Seq(Bytes), IsWithoutLineEnds(t, s)
  PROVE  IsLineOf(t, s)
<1>1. PICK f \in [1..Len(t) -> 1..Len(s)] :
        /\ \A j, k \in 1..Len(t) : j < k => f[j] < f[k]
        /\ \A j \in 1..Len(t) : t[j] = s[f[j]]
        /\ \A i \in 1..Len(s) : s[i] \notin {"CR", "LF"} <=> \E j \in 1..Len(t) : f[j] = i
  BY DEF IsWithoutLineEnds
<1>2. ASSUME EndsInCRLF(s), NEW j \in 1..Len(t) PROVE f[j] < Len(s) - 1
  <2>1. Len(s) \in Nat /\ f[j] \in 1..Len(s)
    OBVIOUS
  <2>2. s[f[j]] \notin {"CR", "LF"}
    BY <1>1, <2>1
  <2>3. f[j] # Len(s) /\ f[j] # Len(s) - 1
    BY <1>2, <2>2 DEF EndsInCRLF
  <2> QED BY <2>1, <2>3
<1> QED BY <1>1, <1>2 DEF IsLineOf
-----------------------------------------------------------------------------
(* The calls.                                                              *)

(* What says nothing about a call that is not of its kind.                 *)
LEMMA OtherCall ==
  ASSUME op' \notin {"read", "readline"},
         op' = "none" => lastOp' \notin {"read", "readline"}
  PROVE  CallInv'
  BY DEF CallInv, ReadSoFar, ReadIsExact, NoEndOfLineYet, LineFraming, LineSoFar, LineTaken,
         Finished

LEMMA CallInvIdle ==
  ASSUME CallInv, UNCHANGED <<op, loopVars, resultVars>>
  PROVE  CallInv'
<1>1. UNCHANGED <<op, length, x, text, lastc, taken, value, why, lastOp>>
  BY DEF loopVars, resultVars
<1>2. ReadSoFar' /\ ReadIsExact'
  BY <1>1 DEF CallInv, ReadSoFar, ReadIsExact, Finished
<1>3. NoEndOfLineYet' /\ LineFraming'
  BY <1>1 DEF CallInv, NoEndOfLineYet, LineFraming, Finished, Terminates
<1>4. LineSoFar' /\ LineTaken'
  BY <1>1 DEF CallInv, LineSoFar, LineTaken, Finished, IsWithoutLineEnds
<1> QED BY <1>2, <1>3, <1>4 DEF CallInv

LEMMA CallInvBegins ==
  ASSUME NEW o \in ReadOps \cup SendOps, NEW n, Call(o, n)
  PROVE  CallInv'
<1>1. op' # "none" /\ x' = 0 /\ text' = <<>> /\ taken' = <<>> /\ lastc' = "NUL"
  BY DEF Call, ReadOps, SendOps
<1>2. Len(taken') = 0 /\ 1..0 = {}
  BY <1>1
<1>3. ReadSoFar' /\ NoEndOfLineYet'
  BY <1>1, <1>2 DEF ReadSoFar, NoEndOfLineYet
<1>4. LineSoFar'
  BY <1>1, EmptyLine DEF LineSoFar
<1> QED BY <1>1, <1>3, <1>4 DEF CallInv, ReadIsExact, LineFraming, LineTaken, Finished

(* readline takes a byte: the line ends there, or it goes on.              *)
LEMMA CallInvLine ==
  ASSUME StreamTypeOK, CallInv, RecvIntoLine
  PROVE  CallInv'
<1> DEFINE c == Head(inq)
<1>1. /\ op = "readline" /\ c \in Bytes /\ taken' = Append(taken, c)
      /\ text' = IF KeepsByte(c) THEN Append(text, c) ELSE text
      /\ taken \in Seq(Bytes) /\ text \in Seq(Bytes)
  BY TakeTypes DEF RecvIntoLine, StreamTypeOK
<1>2. \/ EndsLine(lastc, c) /\ op' = "none" /\ lastOp' = "readline" /\ value' = 1 /\ why' = "ok"
      \/ ~EndsLine(lastc, c) /\ op' = "readline" /\ lastc' = c
  BY <1>1 DEF RecvIntoLine, Return
<1> HIDE DEF c
<1>3. /\ Len(taken) \in Nat /\ Len(taken') = Len(taken) + 1 /\ taken'[Len(taken) + 1] = c
      /\ \A i \in 1..Len(taken) : taken'[i] = taken[i]
      /\ DOMAIN taken' = 1..(Len(taken) + 1) /\ taken' # <<>>
  BY <1>1
<1>4. /\ \A i \in 1..Len(taken) : ~Terminates(taken, i)
      /\ lastc = IF taken = <<>> THEN "NUL" ELSE taken[Len(taken)]
  BY <1>1 DEF CallInv, NoEndOfLineYet
<1>5. \A i \in 1..Len(taken) : ~Terminates(taken', i)
  <2>1. ASSUME NEW i \in 1..Len(taken) PROVE Terminates(taken', i) => Terminates(taken, i)
    <3>1. taken'[i] = taken[i] /\ (i > 1 => taken'[i - 1] = taken[i - 1])
      BY <1>3
    <3> QED BY <3>1 DEF Terminates
  <2> QED BY <1>4, <2>1
<1>6. Terminates(taken', Len(taken) + 1) <=> EndsLine(lastc, c)
  <2>1. CASE taken = <<>>
    <3>1. Len(taken) = 0
      BY <2>1
    <3> QED BY <1>3, <1>4, <2>1, <3>1 DEF Terminates, EndsLine
  <2>2. CASE taken # <<>>
    <3>1. Len(taken) > 0
      BY <1>1, <2>2
    <3>2. taken'[Len(taken) + 1 - 1] = lastc
      BY <1>3, <1>4, <2>2, <3>1
    <3> QED BY <1>3, <3>1, <3>2 DEF Terminates, EndsLine
  <2> QED BY <2>1, <2>2
<1>7. NoEndOfLineYet' /\ LineFraming'
  <2>1. CASE EndsLine(lastc, c)
    <3>1. \A i \in DOMAIN taken' : Terminates(taken', i) <=> i = Len(taken')
      BY <1>3, <1>5, <1>6, <2>1
    <3> QED BY <1>2, <2>1, <3>1 DEF NoEndOfLineYet, LineFraming, Terminates
  <2>2. CASE ~EndsLine(lastc, c)
    <3>1. \A i \in 1..Len(taken') : ~Terminates(taken', i)
      BY <1>3, <1>5, <1>6, <2>2
    <3>2. lastc' = taken'[Len(taken')]
      BY <1>2, <1>3, <2>2
    <3> QED BY <1>2, <1>3, <2>2, <3>1, <3>2
         DEF NoEndOfLineYet, LineFraming, Finished, Terminates
  <2> QED BY <2>1, <2>2
<1>8. IsWithoutLineEnds(text', taken')
  <2>1. IsWithoutLineEnds(text, taken)
    BY <1>1 DEF CallInv, LineSoFar
  <2>2. CASE c \in {"CR", "LF"}
    BY <1>1, <2>1, <2>2, LineDrops DEF KeepsByte
  <2>3. CASE c \notin {"CR", "LF"}
    BY <1>1, <2>1, <2>3, LineKeeps DEF KeepsByte
  <2> QED BY <2>2, <2>3
<1>9. LineSoFar' /\ LineTaken'
  BY <1>2, <1>8 DEF LineSoFar, LineTaken, Finished
<1>10. ReadSoFar' /\ ReadIsExact'
  BY <1>2 DEF ReadSoFar, ReadIsExact, Finished
<1> QED BY <1>7, <1>9, <1>10 DEF CallInv

LEMMA CallInvStep ==
  ASSUME StreamTypeOK, CallInv, [StreamNext]_streamVars
  PROVE  CallInv'
<1>0. length \in Nat /\ x \in Nat /\ x <= length
  BY LengthFacts
<1>1. CASE ReadDone
  <2>1. op = "read" /\ op' = "none" /\ lastOp' = "read" /\ value' = x /\ x = length
    BY <1>1 DEF ReadDone, Return
  <2>2. UNCHANGED <<length, x, text, taken>>
    BY <1>1 DEF ReadDone, loopVars
  <2> QED BY <2>1, <2>2 DEF CallInv, ReadSoFar, ReadIsExact, NoEndOfLineYet, LineFraming,
                            LineSoFar, LineTaken, Finished
<1>2. CASE RecvIntoBuffer
  <2>1. /\ op = "read" /\ op' = "read" /\ x' = x + 1
        /\ taken' = Append(taken, Head(inq)) /\ text' = Append(text, Head(inq))
    BY <1>2 DEF RecvIntoBuffer
  <2>2. Len(Append(taken, Head(inq))) = Len(taken) + 1
    BY DEF StreamTypeOK
  <2> QED BY <2>1, <2>2 DEF CallInv, ReadSoFar, ReadIsExact, NoEndOfLineYet, LineFraming,
                            LineSoFar, LineTaken, Finished
<1>3. CASE RecvIntoReads
  <2>1. op = "reads" /\ op' \in {"reads", "none"} /\ (op' = "none" => lastOp' = "reads")
    BY <1>3 DEF RecvIntoReads, Return
  <2> QED BY <2>1, OtherCall
<1>4. CASE RecvIntoLine
  BY <1>4, CallInvLine
<1>5. CASE RecvEof
  <2>1. /\ op \in ReadOps /\ op' = "none" /\ lastOp' = op /\ why' = "eof"
        /\ UNCHANGED <<length, x, text, lastc, taken>>
        /\ value' = IF op # "read" /\ text # <<>> THEN 1 ELSE 0
    BY <1>5 DEF RecvEof, Receiving, ReadOps, Return, loopVars
  <2>2. ReadSoFar' /\ NoEndOfLineYet' /\ LineSoFar' /\ LineFraming'
    BY <2>1 DEF ReadSoFar, NoEndOfLineYet, LineSoFar, LineFraming
  <2>3. ReadIsExact'
    BY <2>1 DEF ReadIsExact, Finished
  <2>4. LineTaken'
    BY <2>1 DEF CallInv, LineSoFar, LineTaken, Finished, IsWithoutLineEnds
  <2> QED BY <2>2, <2>3, <2>4 DEF CallInv
<1>6. ASSUME NEW w \in {"timeout", "signal", "error"}, RecvFails(w) PROVE CallInv'
  <2>1. op' = "none" /\ lastOp' = op /\ why' = w /\ value' \in {-1, 0}
    BY <1>6 DEF RecvFails, Return
  <2> QED BY <1>6, <2>1 DEF CallInv, ReadSoFar, ReadIsExact, NoEndOfLineYet, LineFraming,
                            LineSoFar, LineTaken, Finished
<1>7. CASE SendByte
  <2>1. op' \in SendOps
    BY <1>7 DEF SendByte
  <2> QED BY <2>1, OtherCall DEF SendOps
<1>8. ASSUME NEW w, SendDone \/ SendTimesOut \/ SendFails(w) PROVE CallInv'
  <2>1. op \in SendOps /\ lastOp' = op /\ op' = "none"
    BY <1>8 DEF SendDone, SendTimesOut, SendFails, SendReturns, Return
  <2> QED BY <2>1, OtherCall DEF SendOps
<1>9. CASE CallerStep
  BY <1>9, CallInvBegins DEF CallerStep, ReadOps, SendOps
<1>10. ASSUME NEW b, PeerSends(b) \/ PeerReads \/ PeerCloses \/ PeerResets \/ SetTimed(b)
       PROVE  CallInv'
  BY <1>10, CallInvIdle DEF PeerSends, PeerReads, PeerCloses, PeerResets, SetTimed
<1>11. CASE UNCHANGED streamVars
  BY <1>11, CallInvIdle DEF streamVars, loopVars, resultVars
<1> QED
  BY <1>1, <1>2, <1>3, <1>4, <1>5, <1>6, <1>7, <1>8, <1>9, <1>10, <1>11
     DEF StreamNext, CallStep, Interrupted

LEMMA CallInvariant == StreamSpec => []CallInv
<1>1. StreamInit => CallInv
  BY DEF StreamInit, CallInv, ReadSoFar, ReadIsExact, NoEndOfLineYet, LineFraming, LineSoFar,
         LineTaken, Finished
<1>2. StreamTypeOK /\ CallInv /\ [StreamNext]_streamVars => CallInv'
  BY CallInvStep
<1> QED BY <1>1, <1>2, StreamTypeCorrect, PTL DEF StreamSpec

(* A read that returns a positive count filled the whole buffer with the   *)
(* bytes that arrived, in their order.                                     *)
THEOREM ReadAlwaysExact == StreamSpec => []ReadIsExact
<1>1. CallInv => ReadIsExact
  BY DEF CallInv
<1> QED BY <1>1, CallInvariant, PTL

(* readline stops at the first CR LF or NUL and takes nothing after it,    *)
(* however the bytes are spread over time.                                 *)
THEOREM LinesAlwaysFramed == StreamSpec => []LineFraming
<1>1. CallInv => LineFraming
  BY DEF CallInv
<1> QED BY <1>1, CallInvariant, PTL

(* readline hands over the line without the CR LF that ended it, and loses *)
(* none of its data, at the end of the stream either.                      *)
THEOREM LinesKeepData == StreamSpec => []LineKeepsData
<1>1. StreamTypeOK /\ CallInv => LineKeepsData
  BY LineWithoutTerminator DEF StreamTypeOK, CallInv, LineTaken, LineKeepsData
<1> QED BY <1>1, CallInvariant, StreamTypeCorrect, PTL

(* An untimed sends() that returned false sent nothing.                    *)
THEOREM UntimedRetryIsSafe == StreamSpec => RetrySafeUntimed
<1> DEFINE Safe == op = "sends" /\ op' = "none" /\ ~timed /\ value' = 0 => x = 0
<1>1. ASSUME StreamTypeOK, [StreamNext]_streamVars PROVE [Safe]_streamVars
  <2>0. length \in Nat /\ x \in Nat
    BY <1>1, LengthFacts
  <2>1. CASE SendDone
    BY <2>0, <2>1 DEF SendDone, SendReturns, Return
  <2>2. CASE SendTimesOut
    BY <2>2 DEF SendTimesOut
  <2>3. ASSUME NEW w, SendFails(w) PROVE Safe
    BY <2>0, <2>3 DEF SendFails, SendReturns, Return
  <2>4. CASE op = "sends" /\ op' = "none" /\ (CallStep \/ Interrupted)
    BY <2>1, <2>2, <2>3, <2>4
       DEF CallStep, Interrupted, ReadDone, RecvIntoBuffer, RecvIntoReads, RecvIntoLine, RecvEof,
           RecvFails,
           Receiving, SendByte
  <2>5. ASSUME NEW b, CallerStep \/ PeerSends(b) \/ PeerReads \/ PeerCloses \/ PeerResets
                        \/ SetTimed(b)
        PROVE  Safe
    BY <2>5 DEF CallerStep, Call, PeerSends, PeerReads, PeerCloses, PeerResets, SetTimed
  <2> QED BY <1>1, <2>4, <2>5 DEF StreamNext
<1>2. StreamTypeOK /\ [StreamNext]_streamVars => [Safe]_streamVars
  BY <1>1
<1> QED BY <1>2, StreamTypeCorrect, PTL DEF StreamSpec, RetrySafeUntimed
=============================================================================
