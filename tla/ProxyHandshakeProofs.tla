------------------------ MODULE ProxyHandshakeProofs ------------------------
(***************************************************************************)
(* Proofs about the exchange of a hop with its proxy, for every length of  *)
(* a name, every destination, and however the bytes of the two are split,  *)
(* delayed and cut off.                                                    *)
(*                                                                         *)
(* The argument is one of counting: the hop has taken the first k bytes of *)
(* one answer a, has kept the last of them in buf, the rest of a is on its *)
(* way to it, and what the read in progress still waits for is part of a.  *)
(***************************************************************************)
EXTENDS ProxyHandshake, SequenceTheorems, TLAPS

(* The bytes on their way to the hop, in the order in which they come.     *)
Left     == Len(inq) + Len(owed)
Ahead(i) == IF i <= Len(inq) THEN inq[i] ELSE owed[i - Len(inq)]

(* The hop took k bytes of a and buf is the last of them; the rest of a is *)
(* ahead, as far as it has not been lost with the connection, and then the *)
(* destination's data.                                                     *)
Follows(a, k) ==
  /\ Len(buf) <= k
  /\ \A j \in 1..Len(buf) : buf[j] = a[k - Len(buf) + j]
  /\ \A i \in 1..Left : Ahead(i) = IF k + i <= Len(a) THEN a[k + i] ELSE Data
  /\ ~granted => k + Left <= Len(a)
  /\ link = "open" => k + Left >= Len(a)

(* The request that the answer being read is an answer to.                 *)
Question == IF step \in {"readType", "readLen", "readRest"} THEN "readHead"
            ELSE IF step = "readHeaders" THEN "readStatus"
            ELSE step

RequestReads == {"readMethod", "readAuth", "readHead", "readReply", "readStatus"}
Reads        == RequestReads \cup {"readType", "readLen", "readRest", "readHeaders"}
Quiet        == {"start", "method", "auth", "connect", "socks4", "http"}
Asks(s)      == IF s = "readReply" THEN 8 ELSE IF s = "readStatus" THEN 12 ELSE 2

NamesShort == \A n \in NameLens : n < SignBit

(* Which bytes of the answer each read is about.                           *)
Place(a, k) ==
  /\ step \in RequestReads => k = Len(buf) /\ k + want = Asks(step)
  /\ step = "readType" => k = Len(buf) + 2 /\ Len(buf) + want = 2
  /\ step = "readLen" => k = Len(buf) + 4 /\ Len(buf) + want = 1 /\ a[4] = 3
  /\ step \in {"readType", "readLen", "readRest"} => code = a[2]
  /\ step = "readRest" /\ NamesShort /\ ~cut => k + want = Len(a)
  /\ step = "readHeaders" => k = Len(buf) + 12 /\ a[10] = Two /\ (want = 0 => Len(buf) > 0)

Answered(a, k) ==
  /\ granted = Grants(Question, a)
  /\ Follows(a, k)
  /\ k + want <= Len(a)
  /\ Place(a, k)

NothingAhead == inq = <<>> /\ owed = <<>>

Unanswered == NothingAhead /\ buf = <<>> /\ ~granted /\ step \in RequestReads /\ want = Asks(step)

Answering  == ~heard /\ \E a \in Answers[Question] : \E k \in 0..Len(a) : Answered(a, k)

OnlyDataAhead == \A i \in 1..Left : Ahead(i) = Data

Streams ==
  /\ hop \in {"socks5", "socks4", "proxy"}
  /\ step \in Quiet \cup Reads \cup {"done"}
  /\ want \in Nat
  /\ buf \in Seq(0..Data) /\ inq \in Seq(0..Data) /\ owed \in Seq(0..Data)

HandshakeInv ==
  /\ Streams
  /\ step \in Quiet => NothingAhead /\ ~granted /\ ~heard /\ want = 0
  /\ step \in Reads => Unanswered \/ Answering
  /\ step = "done" => want = 0
  /\ outcome = "ok" => step = "done" /\ granted /\ (NamesShort /\ ~cut => OnlyDataAhead)
  /\ ~overread
-----------------------------------------------------------------------------
(* The answers.                                                            *)
Octets == 0..255

LEMMA DataIsNoOctet == \A b \in Octets : b # Data /\ b \in 0..Data
  BY DEF Octets, Data

LEMMA OctetStrings ==
  ASSUME NEW s \in Seq(Octets)
  PROVE  s \in Seq(0..Data)
<1>1. Octets \subseteq 0..Data
  BY DataIsNoOctet
<1> QED BY <1>1, SeqMonotonic, Zenon

LEMMA PadsFacts ==
  ASSUME NEW n \in Nat
  PROVE  Pads(n) \in Seq(Octets) /\ Len(Pads(n)) = n
  BY DEF Pads, Pad, Octets

LEMMA Joined ==
  ASSUME NEW s \in Seq(Octets), NEW t \in Seq(Octets)
  PROVE  /\ s \o t \in Seq(Octets)
         /\ Len(s \o t) = Len(s) + Len(t)
         /\ \A i \in 1..Len(s) : (s \o t)[i] = s[i]
         /\ \A i \in 1..Len(t) : (s \o t)[Len(s) + i] = t[i]
  OBVIOUS

LEMMA MethodAnswerFacts ==
  ASSUME NEW a \in MethodAnswers
  PROVE  a \in Seq(Octets) /\ Len(a) = 2
<1>1. CASE a = <<5, 0>>
  BY <1>1 DEF Octets
<1>2. CASE a = <<5, 2>>
  BY <1>2 DEF Octets
<1>3. CASE a = <<5, 255>>
  BY <1>3 DEF Octets
<1>4. CASE a = <<4, 0>>
  BY <1>4 DEF Octets
<1> QED BY <1>1, <1>2, <1>3, <1>4 DEF MethodAnswers

LEMMA AuthAnswerFacts ==
  ASSUME NEW a \in AuthAnswers
  PROVE  a \in Seq(Octets) /\ Len(a) = 2
<1>1. a = <<1, 0>> \/ a = <<1, 1>>
  BY DEF AuthAnswers
<1>2. \A b, c \in Octets : <<b, c>> \in Seq(Octets) /\ Len(<<b, c>>) = 2
  OBVIOUS
<1>3. {0, 1} \subseteq Octets
  BY DEF Octets
<1> QED BY <1>1, <1>2, <1>3

LEMMA ReplyAnswerFacts ==
  ASSUME NEW a \in ReplyAnswers
  PROVE  a \in Seq(Octets) /\ Len(a) = 8
<1>1. PICK v \in {0, 4}, c \in {90, 91} : a = <<v, c>> \o Pads(6)
  BY DEF ReplyAnswers
<1>2. <<v, c>> \in Seq(Octets) /\ Len(<<v, c>>) = 2
  BY DEF Octets
<1> QED BY <1>1, <1>2, PadsFacts, Joined

(* A SOCKS5 address says how long it is.                                   *)
IsAddress(d) ==
  /\ d \in Seq(Octets) /\ Len(d) > 1 /\ d[1] \in {1, 3, 4}
  /\ d[1] = 1 => Len(d) = 7
  /\ d[1] = 4 => Len(d) = 19
  /\ d[1] = 3 => d[2] \in NameLens /\ d[2] \in Nat /\ Len(d) = d[2] + 4

LEMMA Addresses ==
  ASSUME NEW d \in Socks5Address
  PROVE  IsAddress(d)
<1>1. CASE d = <<1>> \o Pads(6)
  <2>1. <<1>> \in Seq(Octets) /\ Len(<<1>>) = 1
    BY DEF Octets
  <2>2. d \in Seq(Octets) /\ Len(d) = 7 /\ d[1] = 1
    BY <1>1, <2>1, PadsFacts, Joined
  <2> QED BY <2>2 DEF IsAddress
<1>2. CASE d = <<4>> \o Pads(18)
  <2>1. <<4>> \in Seq(Octets) /\ Len(<<4>>) = 1
    BY DEF Octets
  <2>2. d \in Seq(Octets) /\ Len(d) = 19 /\ d[1] = 4
    BY <1>2, <2>1, PadsFacts, Joined
  <2> QED BY <2>2 DEF IsAddress
<1>3. ASSUME NEW n \in NameLens, d = <<3, n>> \o Pads(n + 2)
      PROVE  /\ d \in Seq(Octets) /\ Len(d) = n + 4 /\ d[1] = 3 /\ d[2] = n
             /\ n \in Nat
  <2>1. n \in Octets /\ n + 2 \in Nat
    BY HandshakeConstants DEF Octets
  <2>2. <<3, n>> \in Seq(Octets) /\ Len(<<3, n>>) = 2
    BY <2>1 DEF Octets
  <2> QED BY <1>3, <2>1, <2>2, PadsFacts, Joined DEF Octets
<1>4. CASE \E n \in NameLens : d = <<3, n>> \o Pads(n + 2)
  <2>1. PICK n \in NameLens : d = <<3, n>> \o Pads(n + 2)
    BY <1>4
  <2>2. d \in Seq(Octets) /\ Len(d) = n + 4 /\ d[1] = 3 /\ d[2] = n /\ n \in Nat
    BY <1>3, <2>1
  <2> HIDE <2>1
  <2> QED BY <2>2 DEF IsAddress
<1>5. \/ d = <<1>> \o Pads(6)
      \/ d = <<4>> \o Pads(18)
      \/ \E n \in NameLens : d = <<3, n>> \o Pads(n + 2)
  BY DEF Socks5Address
<1> QED BY <1>1, <1>2, <1>4, <1>5

LEMMA HeadAnswerFacts ==
  ASSUME NEW a \in HeadAnswers
  PROVE  /\ a \in Seq(Octets) /\ Len(a) >= 7 /\ a[4] \in {1, 3, 4}
         /\ a[4] = 1 => Len(a) = 10
         /\ a[4] = 4 => Len(a) = 22
         /\ a[4] = 3 => a[5] \in NameLens /\ a[5] \in Nat /\ Len(a) = a[5] + 7
<1>1. PICK c \in {0, 5}, d \in Socks5Address : a = <<5, c, 0>> \o d
  <2> DEFINE Answer(c, d) == <<5, c, 0>> \o d
  <2>1. HeadAnswers = {Answer(c, d) : c \in {0, 5}, d \in Socks5Address}
    BY DEF HeadAnswers
  <2> HIDE DEF Answer
  <2>2. \E c \in {0, 5}, d \in Socks5Address : a = Answer(c, d)
    BY <2>1
  <2> QED BY <2>2 DEF Answer
<1>2. <<5, c, 0>> \in Seq(Octets) /\ Len(<<5, c, 0>>) = 3
  BY DEF Octets
<1>3. IsAddress(d)
  BY Addresses
<1>4. d \in Seq(Octets) /\ Len(d) > 1
  BY <1>3 DEF IsAddress
<1>5. /\ a \in Seq(Octets) /\ Len(a) = 3 + Len(d)
      /\ \A i \in 1..Len(d) : a[3 + i] = d[i]
  BY <1>1, <1>2, <1>4, Joined
<1> HIDE <1>1
<1>6. a[4] = d[1] /\ a[5] = d[2]
  <2>1. Len(d) \in Nat /\ 1 \in 1..Len(d) /\ 2 \in 1..Len(d)
    BY <1>4
  <2> QED BY <1>5, <2>1
<1>7. Len(a) >= 7
  BY <1>3, <1>4, <1>5 DEF IsAddress
<1>8. CASE d[1] = 3
  BY <1>3, <1>5, <1>6, <1>7, <1>8 DEF IsAddress
<1>9. CASE d[1] = 1
  <2>1. Len(d) = 7
    BY <1>3, <1>9 DEF IsAddress
  <2>2. a[4] = 1 /\ Len(a) = 10
    BY <1>5, <1>6, <1>9, <2>1
  <2>3. a[4] # 3 /\ a[4] # 4
    BY <2>2
  <2>4. a[4] \in {1, 3, 4}
    BY <2>2
  <2> QED BY <1>5, <1>7, <2>2, <2>3, <2>4
<1>10. CASE d[1] = 4
  <2>1. Len(d) = 19
    BY <1>3, <1>10 DEF IsAddress
  <2>2. a[4] = 4 /\ Len(a) = 22
    BY <1>5, <1>6, <1>10, <2>1
  <2>3. a[4] # 3 /\ a[4] # 1
    BY <2>2
  <2>4. a[4] \in {1, 3, 4}
    BY <2>2
  <2> QED BY <1>5, <1>7, <2>2, <2>3, <2>4
<1>11. d[1] \in {1, 3, 4}
  BY <1>3 DEF IsAddress
<1> QED BY <1>8, <1>9, <1>10, <1>11

LEMMA JoinedPads ==
  ASSUME NEW s \in Seq(Octets), NEW n \in Nat
  PROVE  /\ s \o Pads(n) \in Seq(Octets) /\ Len(s \o Pads(n)) = Len(s) + n
         /\ \A i \in 1..Len(s) : (s \o Pads(n))[i] = s[i]
  BY PadsFacts, Joined

LEMMA StatusLineFacts ==
  ASSUME NEW c \in Octets
  PROVE  StatusLine(c) \in Seq(Octets) /\ Len(StatusLine(c)) = 12
<1>1. <<c>> \in Seq(Octets) /\ Len(<<c>>) = 1
  OBVIOUS
<1>2. Pads(9) \o <<c>> \in Seq(Octets) /\ Len(Pads(9) \o <<c>>) = 10
  BY <1>1, PadsFacts, Joined
<1>3. Len(Pads(9) \o <<c>>) + 2 = 12
  BY <1>2
<1> QED BY <1>2, <1>3, JoinedPads DEF StatusLine

(* The headers end where a reader of HTTP looks for their end, and nowhere *)
(* before.                                                                 *)
LEMMA StatusAnswerFacts ==
  ASSUME NEW a \in StatusAnswers
  PROVE  /\ a \in Seq(Octets) /\ Len(a) >= 16
         /\ \A m \in 13..Len(a) : (a[m] = LF /\ m > 14 /\ a[m - 2] = LF) <=> m = Len(a)
<1>1. PICK c \in {Two, Pad}, h \in Headers : a = StatusLine(c) \o h
  BY DEF StatusAnswers
<1>2. h \in Seq(Octets) /\ Len(h) \in Nat /\ Len(h) >= 4
  <2>1. CASE h = <<CR, LF, CR, LF>>
    BY <2>1 DEF Octets, CR, LF
  <2>2. CASE h = <<Pad, CR, LF, Pad, Pad, CR, LF, CR, LF>>
    BY <2>2 DEF Octets, CR, LF, Pad
  <2> QED BY <2>1, <2>2 DEF Headers
<1>3. StatusLine(c) \in Seq(Octets) /\ Len(StatusLine(c)) = 12
  <2>1. c \in Octets
    BY DEF Octets, Two, Pad
  <2> QED BY <2>1, StatusLineFacts
<1>4. /\ a \in Seq(Octets) /\ Len(a) = 12 + Len(h)
      /\ \A i \in 1..Len(h) : a[12 + i] = h[i]
  <2>1. h \in Seq(Octets) /\ StatusLine(c) \in Seq(Octets)
    BY <1>2, <1>3
  <2>2. /\ a \in Seq(Octets) /\ Len(a) = Len(StatusLine(c)) + Len(h)
        /\ \A i \in 1..Len(h) : a[Len(StatusLine(c)) + i] = h[i]
    BY <1>1, <2>1, Joined
  <2> QED BY <1>3, <2>2
<1> HIDE <1>1
<1>5. \A j \in 1..Len(h) : (h[j] = LF /\ j > 2 /\ h[j - 2] = LF) <=> j = Len(h)
  <2>1. CASE h = <<CR, LF, CR, LF>>
    BY <2>1 DEF CR, LF
  <2>2. CASE h = <<Pad, CR, LF, Pad, Pad, CR, LF, CR, LF>>
    BY <2>2 DEF CR, LF, Pad
  <2> QED BY <2>1, <2>2 DEF Headers
<1>6. ASSUME NEW m \in 13..Len(a)
      PROVE  (a[m] = LF /\ m > 14 /\ a[m - 2] = LF) <=> m = Len(a)
  <2> DEFINE j == m - 12
  <2>1. j \in 1..Len(h) /\ m = 12 + j
    BY <1>2, <1>4
  <2>2. a[m] = h[j]
    BY <1>4, <2>1
  <2>3. j > 2 => a[m - 2] = h[j - 2]
    <3>1. j > 2 => j - 2 \in 1..Len(h) /\ m - 2 = 12 + (j - 2)
      BY <1>2, <2>1
    <3> QED BY <1>4, <3>1
  <2> HIDE DEF j
  <2> QED BY <1>2, <1>4, <1>5, <2>1, <2>2, <2>3
<1>7. Len(a) >= 16
  BY <1>2, <1>4
<1> QED BY <1>4, <1>6, <1>7
(* Every answer is long enough for the read that waits for it.             *)
LEMMA AnswerFacts ==
  ASSUME NEW q \in RequestReads, NEW a \in Answers[q]
  PROVE  a \in Seq(Octets) /\ Len(a) \in Nat /\ Asks(q) <= Len(a)
<1>1. CASE q = "readMethod"
  <2>1. a \in MethodAnswers
    BY <1>1 DEF Answers
  <2>2. a \in Seq(Octets) /\ Len(a) = 2
    BY <2>1, MethodAnswerFacts
  <2> QED BY <1>1, <2>2 DEF Asks
<1>2. CASE q = "readAuth"
  <2>1. a \in AuthAnswers
    BY <1>2 DEF Answers
  <2> QED BY <1>2, <2>1, AuthAnswerFacts DEF Asks
<1>3. CASE q = "readHead"
  <2>1. a \in HeadAnswers
    BY <1>3 DEF Answers
  <2>2. a \in Seq(Octets) /\ Len(a) >= 7
    BY <2>1, HeadAnswerFacts
  <2> QED BY <1>3, <2>2 DEF Asks
<1>4. CASE q = "readReply"
  <2>1. a \in ReplyAnswers
    BY <1>4 DEF Answers
  <2>2. a \in Seq(Octets) /\ Len(a) = 8
    BY <2>1, ReplyAnswerFacts
  <2> QED BY <1>4, <2>2 DEF Asks
<1>5. CASE q = "readStatus"
  <2>1. a \in StatusAnswers
    BY <1>5 DEF Answers
  <2>2. a \in Seq(Octets) /\ Len(a) >= 16
    BY <2>1, StatusAnswerFacts
  <2> QED BY <1>5, <2>2 DEF Asks
<1> QED BY <1>1, <1>2, <1>3, <1>4, <1>5 DEF RequestReads
-----------------------------------------------------------------------------
(* What is ahead of the hop, when a byte is taken, when one arrives, when  *)
(* the destination sends, when the rest is lost, and when the proxy        *)
(* answers.                                                                *)
LEMMA AheadTypes ==
  ASSUME Streams
  PROVE  Len(inq) \in Nat /\ Len(owed) \in Nat /\ Left \in Nat /\ Len(buf) \in Nat
  BY DEF Streams, Left

LEMMA AheadTake ==
  ASSUME Streams, inq # <<>>, inq' = Tail(inq), UNCHANGED owed
  PROVE  /\ Left > 0 /\ Left' = Left - 1 /\ Ahead(1) = Head(inq)
         /\ \A i \in 1..Left' : Ahead(i)' = Ahead(i + 1)
<1>1. Len(inq) \in Nat /\ Len(inq) > 0 /\ Len(owed) \in Nat
  BY DEF Streams
<1>2. Len(inq') = Len(inq) - 1 /\ \A i \in 1..(Len(inq) - 1) : inq'[i] = inq[i + 1]
  BY DEF Streams
<1>3. Left > 0 /\ Left' = Left - 1 /\ Ahead(1) = Head(inq)
  BY <1>1, <1>2 DEF Left, Ahead
<1>4. ASSUME NEW i \in 1..Left' PROVE Ahead(i)' = Ahead(i + 1)
  <2>1. CASE i <= Len(inq) - 1
    BY <1>1, <1>2, <2>1 DEF Ahead, Left
  <2>2. CASE i > Len(inq) - 1
    <3>1. /\ ~(i <= Len(inq')) /\ ~(i + 1 <= Len(inq))
          /\ i - Len(inq') = (i + 1) - Len(inq)
      BY <1>1, <1>2, <2>2 DEF Left
    <3> QED BY <3>1 DEF Ahead
  <2> QED BY <1>1, <2>1, <2>2 DEF Left
<1> QED BY <1>3, <1>4

LEMMA AheadArrives ==
  ASSUME Streams, owed # <<>>, inq' = Append(inq, Head(owed)), owed' = Tail(owed)
  PROVE  /\ Left' = Left
         /\ \A i \in 1..Left : Ahead(i)' = Ahead(i)
<1>1. Len(inq) \in Nat /\ Len(owed) \in Nat /\ Len(owed) > 0
  BY DEF Streams
<1>2. /\ Len(inq') = Len(inq) + 1 /\ inq'[Len(inq) + 1] = owed[1]
      /\ \A i \in 1..Len(inq) : inq'[i] = inq[i]
  BY DEF Streams
<1>3. Len(owed') = Len(owed) - 1 /\ \A i \in 1..(Len(owed) - 1) : owed'[i] = owed[i + 1]
  BY DEF Streams
<1>4. Left' = Left
  BY <1>1, <1>2, <1>3 DEF Left
<1>5. ASSUME NEW i \in 1..Left PROVE Ahead(i)' = Ahead(i)
  <2>1. CASE i <= Len(inq)
    BY <1>1, <1>2, <2>1 DEF Ahead, Left
  <2>2. CASE i = Len(inq) + 1
    BY <1>1, <1>2, <2>2 DEF Ahead, Left
  <2>3. CASE i > Len(inq) + 1
    <3>1. /\ i - Len(inq') \in 1..(Len(owed) - 1) /\ (i - Len(inq')) + 1 = i - Len(inq)
          /\ ~(i <= Len(inq')) /\ ~(i <= Len(inq))
      BY <1>1, <1>2, <2>3 DEF Left
    <3> QED BY <1>3, <3>1 DEF Ahead
  <2> QED BY <1>1, <2>1, <2>2, <2>3 DEF Left
<1> QED BY <1>4, <1>5

LEMMA AheadData ==
  ASSUME Streams, owed' = Append(owed, Data), UNCHANGED inq
  PROVE  /\ Left' = Left + 1
         /\ \A i \in 1..Left' : i > Left => Ahead(i)' = Data
         /\ \A i \in 1..Left : Ahead(i)' = Ahead(i)
<1>1. Len(inq) \in Nat /\ Len(owed) \in Nat
  BY DEF Streams
<1>2. /\ Len(owed') = Len(owed) + 1 /\ owed'[Len(owed) + 1] = Data
      /\ \A i \in 1..Len(owed) : owed'[i] = owed[i]
  BY DEF Streams, Data
<1>3. \A i \in 1..Left : Ahead(i)' = Ahead(i)
  BY <1>1, <1>2 DEF Left, Ahead
<1>4. Left' = Left + 1 /\ Left \in Nat
  BY <1>1, <1>2 DEF Left
<1>5. ASSUME NEW i \in 1..Left', i > Left PROVE Ahead(i)' = Data
  <2>1. i = Left + 1
    BY <1>4, <1>5
  <2>2. ~(i <= Len(inq)) /\ i - Len(inq) = Len(owed) + 1
    BY <1>1, <2>1 DEF Left
  <2>3. ~(i <= Len(inq')) /\ i - Len(inq') = Len(owed) + 1
    BY <2>2
  <2> QED BY <1>2, <2>3 DEF Ahead
<1> QED BY <1>3, <1>4, <1>5

LEMMA AheadLost ==
  ASSUME Streams, owed' = <<>>, UNCHANGED inq
  PROVE  /\ Left' \in Nat /\ Left' <= Left
         /\ \A i \in 1..Left' : Ahead(i)' = Ahead(i)
<1>1. Len(inq) \in Nat /\ Len(owed) \in Nat /\ Len(owed') = 0
  BY DEF Streams
<1> QED BY <1>1 DEF Left, Ahead

LEMMA AheadNew ==
  ASSUME NEW a \in Seq(Octets), NothingAhead, owed' = a, UNCHANGED inq
  PROVE  /\ Left' = Len(a)
         /\ \A i \in 1..Left' : Ahead(i)' = a[i]
<1>1. Len(inq') = 0 /\ Len(a) \in Nat
  BY DEF NothingAhead
<1> QED BY <1>1 DEF Left, Ahead

LEMMA NothingLeft ==
  ASSUME Streams
  PROVE  Left = 0 <=> NothingAhead
  BY DEF Streams, Left, NothingAhead
-----------------------------------------------------------------------------
(* The hop takes the next byte of the answer, which is not the             *)
(* destination's.                                                          *)
LEMMA FollowsTake ==
  ASSUME Streams, NEW a \in Seq(Octets), NEW k \in Nat, k < Len(a), Follows(a, k), TakeByte
  PROVE  Follows(a, k + 1)' /\ Len(buf') = Len(buf) + 1 /\ Head(inq) = a[k + 1]
<1>1. /\ Left > 0 /\ Left' = Left - 1 /\ Ahead(1) = Head(inq)
      /\ \A i \in 1..Left' : Ahead(i)' = Ahead(i + 1)
  BY AheadTake DEF TakeByte
<1>2. Left \in Nat /\ Len(buf) \in Nat /\ Len(a) \in Nat
  BY AheadTypes
<1>3. Head(inq) = a[k + 1]
  BY <1>1, <1>2 DEF Follows
<1>4. /\ Len(buf') = Len(buf) + 1 /\ buf'[Len(buf) + 1] = Head(inq)
      /\ \A j \in 1..Len(buf) : buf'[j] = buf[j]
  BY DEF Streams, TakeByte
<1>5. \A j \in 1..Len(buf') : buf'[j] = a[k + 1 - Len(buf') + j]
  <2>1. ASSUME NEW j \in 1..Len(buf) PROVE buf'[j] = a[k + 1 - Len(buf') + j]
    <3>1. k + 1 - Len(buf') + j = k - Len(buf) + j
      BY <1>2, <1>4
    <3> QED BY <1>4, <3>1 DEF Follows
  <2>2. k + 1 - Len(buf') + (Len(buf) + 1) = k + 1
    BY <1>2, <1>4
  <2> QED BY <1>2, <1>3, <1>4, <2>1, <2>2
<1>6. ASSUME NEW i \in 1..Left'
      PROVE  Ahead(i)' = IF (k + 1) + i <= Len(a) THEN a[(k + 1) + i] ELSE Data
  <2>1. i + 1 \in 1..Left /\ k + (i + 1) = (k + 1) + i
    BY <1>1, <1>2
  <2>2. Ahead(i)' = Ahead(i + 1)
    BY <1>1
  <2> QED BY <2>1, <2>2 DEF Follows
<1>7. /\ ~granted' => (k + 1) + Left' <= Len(a)
      /\ link' = "open" => (k + 1) + Left' >= Len(a)
  BY <1>1, <1>2 DEF Follows, TakeByte
<1>8. Len(buf') <= k + 1
  BY <1>2, <1>4 DEF Follows
<1> QED BY <1>3, <1>4, <1>5, <1>6, <1>7, <1>8 DEF Follows

(* A read that begins finds what the one before it left.                   *)
LEMMA FollowsRead ==
  ASSUME NEW a, NEW k \in Nat, Follows(a, k), buf' = <<>>, UNCHANGED <<inq, owed, granted, link>>
  PROVE  Follows(a, k)' /\ Len(buf') = 0
<1>1. Len(buf') = 0 /\ 1..0 = {} /\ 0 <= k
  OBVIOUS
<1>2. Left' = Left /\ \A i : Ahead(i)' = Ahead(i)
  BY DEF Left, Ahead
<1> QED BY <1>1, <1>2 DEF Follows

(* What the proxy, the network and the destination do meanwhile.           *)
Elsewhere == Arrives \/ DestinationSends \/ ProxyCloses

LEMMA AheadElsewhere ==
  ASSUME Streams, Elsewhere
  PROVE  /\ Left' \in Nat /\ (~granted => Left' <= Left) /\ UNCHANGED granted
         /\ Left' > Left => link = "open"
         /\ link' = "open" => link = "open" /\ Left' >= Left
         /\ \A i \in 1..Left' : IF i <= Left THEN Ahead(i)' = Ahead(i) ELSE Ahead(i)' = Data
<1>0. Left \in Nat
  BY AheadTypes
<1>1. CASE Arrives
  BY <1>0, <1>1, AheadArrives DEF Arrives
<1>2. CASE DestinationSends
  BY <1>0, <1>2, AheadData DEF DestinationSends
<1>3. CASE ProxyCloses
  BY <1>0, <1>3, AheadLost DEF ProxyCloses
<1> QED BY <1>1, <1>2, <1>3 DEF Elsewhere

LEMMA FollowsElsewhere ==
  ASSUME Streams, NEW a \in Seq(Octets), NEW k \in 0..Len(a), Follows(a, k), Elsewhere
  PROVE  Follows(a, k)'
<1>0. Left \in Nat /\ Len(a) \in Nat
  BY AheadTypes
<1>1. UNCHANGED <<buf, granted>>
  BY DEF Elsewhere, Arrives, DestinationSends, ProxyCloses, hopVars
<1>2. /\ Left' \in Nat /\ (~granted => Left' <= Left)
      /\ Left' > Left => link = "open"
      /\ link' = "open" => link = "open" /\ Left' >= Left
      /\ \A i \in 1..Left' : IF i <= Left THEN Ahead(i)' = Ahead(i) ELSE Ahead(i)' = Data
  BY AheadElsewhere
<1>3. ASSUME NEW i \in 1..Left'
      PROVE  Ahead(i)' = IF k + i <= Len(a) THEN a[k + i] ELSE Data
  <2>1. CASE i <= Left
    BY <1>0, <1>2, <2>1 DEF Follows
  <2>2. CASE ~(i <= Left)
    BY <1>0, <1>2, <2>2 DEF Follows
  <2> QED BY <2>1, <2>2
<1>4. /\ ~granted' => k + Left' <= Len(a)
      /\ link' = "open" => k + Left' >= Len(a)
  BY <1>0, <1>1, <1>2 DEF Follows
<1> QED BY <1>1, <1>3, <1>4 DEF Follows
-----------------------------------------------------------------------------
(* The steps of the hop.                                                   *)
LEMMA InvInit == HandshakeInit => HandshakeInv
<1> SUFFICES ASSUME HandshakeInit PROVE HandshakeInv
  OBVIOUS
<1>1. hop \in {"socks5", "socks4", "proxy"}
  BY DEF HandshakeInit, FirstRequest
<1>2. <<>> \in Seq(0..Data)
  OBVIOUS
<1> QED BY <1>1, <1>2
     DEF HandshakeInit, HandshakeInv, Streams, Quiet, Reads, RequestReads, NothingAhead

LEMMA QuestionAsked == step \in Reads => Question \in RequestReads
  BY DEF Reads, RequestReads, Question

IsAnswer(a) == a \in Seq(Octets) /\ Len(a) \in Nat

(* A read that is over, or that has a byte to take, reads an answer.       *)
LEMMA AnswerAt ==
  ASSUME HandshakeInv, step \in Reads, want = 0 \/ inq # <<>> \/ step \notin RequestReads
  PROVE  /\ ~heard
         /\ \E a \in Answers[Question] : \E k \in 0..Len(a) : IsAnswer(a) /\ Answered(a, k)
<1>1. ~Unanswered
  BY DEF Unanswered, NothingAhead, Asks
<1>2. Answering
  BY <1>1 DEF HandshakeInv
<1> QED BY <1>2, QuestionAsked, AnswerFacts DEF Answering, IsAnswer

(* simpleConnect returns.                                                  *)
LEMMA InvEnds ==
  ASSUME HandshakeInv, NEW o, End(o), UNCHANGED <<inputVars, proxyVars, overread>>,
         o = "ok" => granted /\ UNCHANGED cut /\ (NamesShort /\ ~cut => OnlyDataAhead)
  PROVE  HandshakeInv'
<1>1. /\ step' = "done" /\ want' = 0 /\ outcome' = o
      /\ UNCHANGED <<hop, buf, inq, owed, granted, overread>>
  BY DEF End, inputVars, proxyVars
<1>2. Streams'
  BY <1>1 DEF HandshakeInv, Streams
<1>3. OnlyDataAhead' = OnlyDataAhead
  BY <1>1 DEF OnlyDataAhead, Left, Ahead
<1>4. step' \notin Quiet /\ step' \notin Reads
  BY <1>1 DEF Quiet, Reads, RequestReads
<1> QED BY <1>1, <1>2, <1>3, <1>4 DEF HandshakeInv

(* It goes on to read more of the same answer, into an empty buffer.       *)
LEMMA InvReads ==
  ASSUME HandshakeInv, step \in Reads, ~heard,
         NEW a \in Answers[Question], NEW k \in 0..Len(a), a \in Seq(Octets),
         Follows(a, k), granted = Grants(Question, a),
         NEW s \in Reads, NEW n \in Nat, step' = s, want' = n, buf' = <<>>,
         Question' = Question, k + n <= Len(a), Place(a, k)',
         UNCHANGED <<inputVars, proxyVars, outcome, overread>>
  PROVE  HandshakeInv'
<1>1. UNCHANGED <<hop, heard, granted, owed, inq, link>>
  BY DEF inputVars, proxyVars
<1>2. Streams'
  BY <1>1 DEF HandshakeInv, Streams
<1>3. Follows(a, k)'
  BY <1>1, FollowsRead
<1>4. Answered(a, k)'
  BY <1>1, <1>3 DEF Answered
<1>5. Answering'
  BY <1>1, <1>4 DEF Answering
<1>6. step' \notin Quiet /\ step' # "done" /\ step # "done"
  BY DEF Quiet, Reads, RequestReads
<1>7. outcome' # "ok"
  BY <1>6 DEF HandshakeInv
<1> QED BY <1>2, <1>5, <1>6, <1>7 DEF HandshakeInv

LEMMA InvQuiet ==
  ASSUME HandshakeInv, NEW s \in Quiet, GoOn(s), HopOnly, NothingAhead, ~granted, ~heard,
         step # "done"
  PROVE  HandshakeInv'
<1>1. /\ step' = s /\ want' = 0
      /\ UNCHANGED <<hop, buf, inq, owed, heard, granted, outcome, overread>>
  BY DEF GoOn, HopOnly, inputVars, proxyVars
<1>2. Streams'
  BY <1>1 DEF HandshakeInv, Streams
<1>3. step' \notin Reads /\ step' # "done"
  BY <1>1 DEF Quiet, Reads, RequestReads
<1> QED BY <1>1, <1>2, <1>3 DEF HandshakeInv, NothingAhead

LEMMA InvSends ==
  ASSUME HandshakeInv, SendRequest
  PROVE  HandshakeInv'
<1>1. step \in Quiet /\ step # "done"
  BY DEF SendRequest, Request, Quiet
<1>2. step' \in RequestReads /\ want' = Asks(step') /\ want' \in Nat
  BY DEF SendRequest, Request, Read, RequestReads, Asks
<1>3. UNCHANGED <<hop, inq, owed, granted, outcome, overread>> /\ buf' = <<>>
  BY DEF SendRequest, Read, inputVars
<1>4. Streams'
  BY <1>2, <1>3 DEF HandshakeInv, Streams, Reads
<1>5. Unanswered'
  BY <1>1, <1>2, <1>3 DEF HandshakeInv, Unanswered, NothingAhead
<1>6. step' \notin Quiet /\ step' # "done" /\ outcome # "ok"
  BY <1>1, <1>2 DEF HandshakeInv, Quiet, RequestReads
<1> QED BY <1>3, <1>4, <1>5, <1>6 DEF HandshakeInv

LEMMA InvTakes ==
  ASSUME HandshakeInv, TakeByte
  PROVE  HandshakeInv'
<1>1. step \in Reads /\ inq # <<>> /\ want > 0
  BY DEF HandshakeInv, Streams, TakeByte
<1>2. PICK a \in Answers[Question] : \E k \in 0..Len(a) : IsAnswer(a) /\ Answered(a, k)
  BY <1>1, AnswerAt
<1>0. PICK k \in 0..Len(a) : a \in Seq(Octets) /\ Len(a) \in Nat /\ Answered(a, k)
  BY <1>2 DEF IsAnswer
<1>3. ~heard
  BY <1>1, AnswerAt
<1>4. /\ UNCHANGED <<hop, step, heard, granted, owed, link, outcome, code, cut>>
      /\ want' = want - 1 /\ buf' = Append(buf, Head(inq)) /\ inq' = Tail(inq)
      /\ overread' = (overread \/ Head(inq) = Data)
  BY DEF TakeByte, inputVars
<1>5. want \in Nat /\ k \in Nat /\ k < Len(a) /\ Len(buf) \in Nat
  BY <1>1, <1>0, AheadTypes DEF HandshakeInv, Streams, Answered
<1>6. Follows(a, k + 1)' /\ Len(buf') = Len(buf) + 1 /\ Head(inq) = a[k + 1]
  BY <1>0, <1>5, FollowsTake DEF HandshakeInv, Answered
<1>7. ~overread'
  <2>1. a[k + 1] \in Octets
    BY <1>0, <1>5
  <2>2. a[k + 1] # Data
    BY <2>1, DataIsNoOctet
  <2> QED BY <1>4, <1>6, <2>2 DEF HandshakeInv
<1>8. Streams'
  <2>0. inq \in Seq(0..Data)
    BY DEF HandshakeInv, Streams
  <2>1. Head(inq) \in 0..Data /\ Tail(inq) \in Seq(0..Data)
    BY <1>1, <2>0, HeadTailProperties
  <2>2. buf' \in Seq(0..Data)
    BY <1>4, <2>1 DEF HandshakeInv, Streams
  <2> QED BY <1>1, <1>4, <1>5, <2>1, <2>2 DEF HandshakeInv, Streams
<1>9. Place(a, k + 1)'
  BY <1>1, <1>0, <1>4, <1>5, <1>6 DEF Answered, Place
<1>10. Question' = Question
  BY <1>4 DEF Question
<1>11. (k + 1) + want' <= Len(a)
  BY <1>0, <1>4, <1>5 DEF Answered
<1>12. Answered(a, k + 1)'
  BY <1>0, <1>4, <1>6, <1>9, <1>10, <1>11 DEF Answered
<1>13. Answering'
  <2>1. k + 1 \in 0..Len(a)
    BY <1>0, <1>5
  <2> QED BY <1>3, <1>4, <1>10, <1>12, <2>1 DEF Answering
<1>14. step' \notin Quiet /\ step' # "done"
  BY <1>1, <1>4 DEF Quiet, Reads, RequestReads
<1>15. outcome' # "ok"
  BY <1>4, <1>14 DEF HandshakeInv
<1> QED BY <1>7, <1>8, <1>13, <1>14, <1>15 DEF HandshakeInv
(* An answer that does not connect the destination is all there is.        *)
LEMMA AllTaken ==
  ASSUME HandshakeInv, step \in {"readMethod", "readAuth"}, want = 0
  PROVE  NothingAhead /\ ~granted /\ ~heard
<1>1. step \in Reads /\ Question = step /\ step \in RequestReads /\ Asks(step) = 2
  BY DEF Reads, RequestReads, Question, Asks
<1>2. ~heard
  BY <1>1, AnswerAt
<1>3. PICK a \in Answers[step] : \E k \in 0..Len(a) : IsAnswer(a) /\ Answered(a, k)
  BY <1>1, AnswerAt
<1>4. PICK k \in 0..Len(a) : Answered(a, k)
  BY <1>3
<1>5. Len(a) = 2
  <2>1. a \in MethodAnswers \/ a \in AuthAnswers
    BY DEF Answers
  <2> QED BY <2>1, MethodAnswerFacts, AuthAnswerFacts
<1>6. ~granted
  BY <1>1, <1>4 DEF Answered, Grants
<1>7. k = 2
  BY <1>1, <1>4, <1>5 DEF Answered, Place
<1>8. Left \in Nat /\ k + Left <= Len(a)
  BY <1>4, <1>6, AheadTypes DEF HandshakeInv, Answered, Follows
<1>9. Left = 0
  BY <1>5, <1>7, <1>8
<1> QED BY <1>2, <1>6, <1>9, NothingLeft DEF HandshakeInv

LEMMA InvMethod ==
  ASSUME HandshakeInv, MethodRead \/ AuthRead
  PROVE  HandshakeInv'
<1>1. step \in {"readMethod", "readAuth"} /\ want = 0 /\ HopOnly
  BY DEF MethodRead, AuthRead, ReadDone
<1>2. NothingAhead /\ ~granted /\ ~heard /\ step # "done"
  BY <1>1, AllTaken
<1>3. CASE End("fail")
  BY <1>1, <1>3, InvEnds DEF HopOnly
<1>4. ASSUME NEW s \in {"auth", "connect"}, GoOn(s) PROVE HandshakeInv'
  <2>1. s \in Quiet
    BY DEF Quiet
  <2> QED BY <1>1, <1>2, <1>4, <2>1, InvQuiet
<1>5. End("fail") \/ GoOn("auth") \/ GoOn("connect")
  BY DEF MethodRead, AuthRead
<1> QED BY <1>3, <1>4, <1>5

(* The reads of the SOCKS5 reply, one after the other.                     *)
Socks5Reads == {"readHead", "readType", "readLen", "readRest"}

LEMMA Socks5At ==
  ASSUME HandshakeInv, step \in Socks5Reads, want = 0 \/ step # "readHead"
  PROVE  /\ ~heard /\ step \in Reads /\ Question = "readHead"
         /\ \E a \in HeadAnswers : \E k \in 0..Len(a) : IsAnswer(a) /\ Answered(a, k)
<1>1. step \in Reads /\ Question = "readHead" /\ (want = 0 \/ step \notin RequestReads)
  BY DEF Socks5Reads, Reads, RequestReads, Question
<1>2. Answers[Question] = HeadAnswers
  BY <1>1 DEF Answers
<1> QED BY <1>1, <1>2, AnswerAt

LEMMA InvHead ==
  ASSUME HandshakeInv, HeadRead
  PROVE  HandshakeInv'
<1>1. step = "readHead" /\ want = 0 /\ HopOnly /\ UNCHANGED outcome
  BY DEF HeadRead, ReadDone
<1>2. ~heard /\ step \in Reads /\ Question = "readHead"
  BY <1>1, Socks5At DEF Socks5Reads
<1>3. PICK a \in HeadAnswers : \E k \in 0..Len(a) : IsAnswer(a) /\ Answered(a, k)
  BY <1>1, Socks5At DEF Socks5Reads
<1>4. PICK k \in 0..Len(a) : IsAnswer(a) /\ Answered(a, k)
  BY <1>3
<1>5. k = 2 /\ Len(buf) = 2 /\ Len(a) \in Nat /\ Len(a) >= 7 /\ a \in Seq(Octets)
  BY <1>1, <1>4, HeadAnswerFacts, AheadTypes
     DEF Answered, Place, IsAnswer, RequestReads, Asks, HandshakeInv
<1>6. buf[2] = a[2]
  BY <1>4, <1>5 DEF Answered, Follows
<1>7. code' = a[2] /\ step' = "readType" /\ want' = 2 /\ buf' = <<>> /\ Len(buf') = 0
  BY <1>6 DEF HeadRead
<1>8. Place(a, k)'
  BY <1>5, <1>7 DEF Place, RequestReads
<1>9. Question' = Question /\ step' \in Reads /\ a \in Answers[Question]
  BY <1>2, <1>7 DEF Question, Reads, Answers
<1> QED BY <1>1, <1>2, <1>4, <1>5, <1>7, <1>8, <1>9, InvReads DEF Answered, HopOnly

LEMMA InvType ==
  ASSUME HandshakeInv, TypeRead
  PROVE  HandshakeInv'
<1>1. step = "readType" /\ want = 0 /\ HopOnly
  BY DEF TypeRead, ReadDone
<1>2. ~heard /\ step \in Reads /\ Question = "readHead"
  BY <1>1, Socks5At DEF Socks5Reads
<1>3. PICK a \in HeadAnswers : \E k \in 0..Len(a) : IsAnswer(a) /\ Answered(a, k)
  BY <1>1, Socks5At DEF Socks5Reads
<1>4. PICK k \in 0..Len(a) : IsAnswer(a) /\ Answered(a, k)
  BY <1>3
<1>5. k = 4 /\ Len(buf) = 2 /\ Len(a) \in Nat /\ Len(a) >= 7 /\ a \in Seq(Octets)
  <2>1. Len(a) \in Nat /\ Len(a) >= 7 /\ a \in Seq(Octets)
    BY <1>4, HeadAnswerFacts DEF IsAnswer
  <2>2. k = Len(buf) + 2 /\ Len(buf) + want = 2 /\ Len(buf) \in Nat
    BY <1>1, <1>4, AheadTypes DEF Answered, Place, HandshakeInv
  <2>3. Len(buf) = 2
    BY <1>1, <2>2
  <2>4. k = 4
    BY <2>2, <2>3
  <2> QED BY <2>1, <2>3, <2>4
<1>6. buf[2] = a[4] /\ code = a[2]
  BY <1>1, <1>4, <1>5 DEF Answered, Follows, Place
<1>7. ASSUME NEW s \in {"readLen", "readRest"}, NEW n \in Nat, Read(s, n), k + n <= Len(a),
             s = "readLen" => n = 1 /\ a[4] = 3,
             s = "readRest" => k + n = Len(a)
      PROVE  HandshakeInv'
  <2>1. step' = s /\ want' = n /\ buf' = <<>> /\ Len(buf') = 0 /\ UNCHANGED <<code, outcome>>
    BY <1>7 DEF Read
  <2>2. Place(a, k)'
    BY <1>5, <1>6, <1>7, <2>1 DEF Place, RequestReads
  <2>3. Question' = Question /\ step' \in Reads /\ a \in Answers[Question]
    BY <1>2, <2>1 DEF Question, Reads, Answers
  <2> QED BY <1>1, <1>2, <1>4, <1>5, <1>7, <2>1, <2>2, <2>3, InvReads DEF Answered, HopOnly
<1>8. CASE a[4] = 3
  <2>1. Read("readLen", 1)
    BY <1>6, <1>8 DEF TypeRead
  <2> QED BY <1>5, <1>7, <1>8, <2>1
<1>9. CASE a[4] = 1
  <2>1. Read("readRest", 6) /\ Len(a) = 10
    BY <1>6, <1>9, HeadAnswerFacts DEF TypeRead, AddressSize
  <2> QED BY <1>5, <1>7, <2>1
<1>10. CASE a[4] = 4
  <2>1. Read("readRest", 18) /\ Len(a) = 22
    BY <1>6, <1>10, HeadAnswerFacts DEF TypeRead, AddressSize
  <2> QED BY <1>5, <1>7, <2>1
<1>11. a[4] \in {1, 3, 4}
  BY HeadAnswerFacts
<1> QED BY <1>8, <1>9, <1>10, <1>11
LEMMA MaxWithZero ==
  ASSUME NEW n \in Int
  PROVE  Max({0, n}) = IF n > 0 THEN n ELSE 0
<1> DEFINE m == IF n > 0 THEN n ELSE 0
<1>1. m \in {0, n} /\ \A y \in {0, n} : m >= y
  OBVIOUS
<1>2. \A z \in {0, n} : (\A y \in {0, n} : z >= y) => z = m
  OBVIOUS
<1> QED BY <1>1, <1>2 DEF Max

LEMMA InvLen ==
  ASSUME HandshakeInv, LenRead
  PROVE  HandshakeInv'
<1>1. step = "readLen" /\ want = 0 /\ HopOnly
  BY DEF LenRead, ReadDone
<1>2. ~heard /\ step \in Reads /\ Question = "readHead"
  BY <1>1, Socks5At DEF Socks5Reads
<1>3. PICK a \in HeadAnswers : \E k \in 0..Len(a) : IsAnswer(a) /\ Answered(a, k)
  BY <1>1, Socks5At DEF Socks5Reads
<1>4. PICK k \in 0..Len(a) : IsAnswer(a) /\ Answered(a, k)
  BY <1>3
<1>5. k = 5 /\ Len(buf) = 1 /\ a[4] = 3 /\ code = a[2]
  <2>1. k = Len(buf) + 4 /\ Len(buf) + want = 1 /\ a[4] = 3 /\ code = a[2]
    BY <1>1, <1>4 DEF Answered, Place
  <2>2. Len(buf) \in Nat
    BY AheadTypes DEF HandshakeInv
  <2>3. Len(buf) = 1
    BY <1>1, <2>1, <2>2
  <2>4. k = 5
    BY <2>1, <2>3
  <2> QED BY <2>1, <2>3, <2>4
<1>6. Len(a) = a[5] + 7 /\ a[5] \in NameLens /\ a[5] \in Nat /\ a \in Seq(Octets)
  BY <1>5, HeadAnswerFacts
<1>7. buf[1] = a[5]
  BY <1>4, <1>5 DEF Answered, Follows
<1> DEFINE n == Max({0, SignedChar(a[5]) + 2})
<1>8. n \in Nat /\ n <= a[5] + 2 /\ (a[5] < SignBit => n = a[5] + 2)
  <2>1. SignBit \in Nat /\ SignBit > 0
    BY HandshakeConstants
  <2>2. SignedChar(a[5]) + 2 \in Int /\ SignedChar(a[5]) <= a[5]
        /\ (a[5] < SignBit => SignedChar(a[5]) = a[5])
    BY <1>6, <2>1 DEF SignedChar
  <2>3. n = IF SignedChar(a[5]) + 2 > 0 THEN SignedChar(a[5]) + 2 ELSE 0
    BY <2>2, MaxWithZero
  <2>4. SignedChar(a[5]) \in Int
    BY <1>6, <2>1 DEF SignedChar
  <2> HIDE DEF n
  <2> QED BY <1>6, <2>2, <2>3, <2>4
<1>9. step' = "readRest" /\ want' = n /\ buf' = <<>> /\ UNCHANGED <<code, outcome>>
  BY <1>7 DEF LenRead, Read
<1> HIDE DEF n
<1>10. Place(a, k)'
  <2>1. NamesShort => k + n = Len(a)
    BY <1>5, <1>6, <1>8 DEF NamesShort
  <2> QED BY <1>5, <1>9, <2>1 DEF Place, RequestReads
<1>11. Question' = Question /\ step' \in Reads /\ a \in Answers[Question]
  BY <1>2, <1>9 DEF Question, Reads, Answers
<1>12. k + n <= Len(a)
  BY <1>5, <1>6, <1>8
<1> QED BY <1>1, <1>2, <1>4, <1>6, <1>8, <1>9, <1>10, <1>11, <1>12, InvReads DEF Answered, HopOnly

(* Once all of the answer is taken, what is ahead is the destination's.    *)
LEMMA DataAhead ==
  ASSUME NEW a, NEW k \in Nat, Follows(a, k), Len(a) = k, Left \in Nat
  PROVE  OnlyDataAhead
  BY DEF Follows, OnlyDataAhead

LEMMA InvRest ==
  ASSUME HandshakeInv, RestRead
  PROVE  HandshakeInv'
<1>1. step = "readRest" /\ want = 0 /\ HopOnly
  BY DEF RestRead, ReadDone
<1>2. Question = "readHead"
  BY <1>1, Socks5At DEF Socks5Reads
<1>3. PICK a \in HeadAnswers : \E k \in 0..Len(a) : IsAnswer(a) /\ Answered(a, k)
  BY <1>1, Socks5At DEF Socks5Reads
<1>4. PICK k \in 0..Len(a) : IsAnswer(a) /\ Answered(a, k)
  BY <1>3
<1>5. code = a[2] /\ granted = (a[2] = 0)
  BY <1>1, <1>2, <1>4 DEF Answered, Place, Grants
<1>6. NamesShort /\ ~cut => OnlyDataAhead
  <2>1. k \in Nat /\ Left \in Nat /\ Follows(a, k)
    BY <1>4, AheadTypes DEF IsAnswer, HandshakeInv, Answered
  <2>2. NamesShort /\ ~cut => Len(a) = k
    BY <1>1, <1>4 DEF Answered, Place
  <2> QED BY <2>1, <2>2, DataAhead
<1>7. CASE code = 0
  BY <1>1, <1>5, <1>6, <1>7, InvEnds DEF RestRead, HopOnly
<1>8. CASE code # 0
  BY <1>1, <1>8, InvEnds DEF RestRead, HopOnly
<1> QED BY <1>7, <1>8

LEMMA InvReply ==
  ASSUME HandshakeInv, ReplyRead
  PROVE  HandshakeInv'
<1>1. /\ step = "readReply" /\ want = 0 /\ HopOnly /\ step \in Reads /\ step \in RequestReads
      /\ Question = "readReply" /\ Asks(step) = 8
  BY DEF ReplyRead, ReadDone, Reads, RequestReads, Question, Asks
<1>2. PICK a \in Answers["readReply"] : \E k \in 0..Len(a) : IsAnswer(a) /\ Answered(a, k)
  BY <1>1, AnswerAt
<1>3. PICK k \in 0..Len(a) : IsAnswer(a) /\ Answered(a, k)
  BY <1>2
<1>4. Len(a) = 8
  BY ReplyAnswerFacts DEF Answers
<1>5. k = 8 /\ Len(buf) = 8
  BY <1>1, <1>3, <1>4 DEF Answered, Place
<1>6. buf[1] = a[1] /\ buf[2] = a[2]
  BY <1>3, <1>5 DEF Answered, Follows
<1>7. granted = (a[1] = 0 /\ a[2] = 90)
  BY <1>1, <1>3 DEF Answered, Grants
<1>8. OnlyDataAhead
  <2>1. Left \in Nat /\ k \in Nat
    BY <1>5, AheadTypes DEF HandshakeInv
  <2> QED BY <1>3, <1>4, <1>5, <2>1, DataAhead DEF Answered
<1>9. CASE buf[1] = 0 /\ buf[2] = 90
  BY <1>1, <1>6, <1>7, <1>8, <1>9, InvEnds DEF ReplyRead, HopOnly
<1>10. CASE ~(buf[1] = 0 /\ buf[2] = 90)
  BY <1>1, <1>10, InvEnds DEF ReplyRead, HopOnly
<1> QED BY <1>9, <1>10
(* The HTTP response.                                                      *)
LEMMA StatusAt ==
  ASSUME HandshakeInv, step \in {"readStatus", "readHeaders"}, want = 0 \/ step # "readStatus"
  PROVE  /\ ~heard /\ step \in Reads /\ Question = "readStatus"
         /\ \E a \in StatusAnswers : \E k \in 0..Len(a) : IsAnswer(a) /\ Answered(a, k)
<1>1. step \in Reads /\ Question = "readStatus" /\ (want = 0 \/ step \notin RequestReads)
  BY DEF Reads, RequestReads, Question
<1>2. Answers[Question] = StatusAnswers
  BY <1>1 DEF Answers
<1> QED BY <1>1, <1>2, AnswerAt

LEMMA InvStatus ==
  ASSUME HandshakeInv, StatusRead
  PROVE  HandshakeInv'
<1>1. step = "readStatus" /\ want = 0 /\ HopOnly
  BY DEF StatusRead, ReadDone
<1>2. ~heard /\ step \in Reads /\ Question = "readStatus"
  BY <1>1, StatusAt
<1>3. PICK a \in StatusAnswers : \E k \in 0..Len(a) : IsAnswer(a) /\ Answered(a, k)
  BY <1>1, StatusAt
<1>4. PICK k \in 0..Len(a) : IsAnswer(a) /\ Answered(a, k)
  BY <1>3
<1>5. k = 12 /\ Len(buf) = 12
  BY <1>1, <1>4 DEF Answered, Place, IsAnswer, RequestReads, Asks
<1>6. Len(a) \in Nat /\ Len(a) >= 16 /\ a \in Seq(Octets)
  BY <1>4, StatusAnswerFacts DEF IsAnswer
<1>7. buf[10] = a[10]
  BY <1>4, <1>5 DEF Answered, Follows
<1>8. CASE a[10] = Two
  <2>1. step' = "readHeaders" /\ want' = 1 /\ buf' = <<>> /\ Len(buf') = 0 /\ UNCHANGED outcome
    BY <1>7, <1>8 DEF StatusRead, Read
  <2>2. Place(a, k)'
    BY <1>5, <1>8, <2>1 DEF Place, RequestReads
  <2>3. Question' = Question /\ step' \in Reads /\ a \in Answers[Question]
    BY <1>2, <2>1 DEF Question, Reads, Answers
  <2> QED BY <1>1, <1>2, <1>4, <1>5, <1>6, <2>1, <2>2, <2>3, InvReads DEF Answered, HopOnly
<1>9. CASE a[10] # Two
  BY <1>1, <1>7, <1>9, InvEnds DEF StatusRead, HopOnly
<1> QED BY <1>8, <1>9

LEMMA InvHeader ==
  ASSUME HandshakeInv, HeaderRead
  PROVE  HandshakeInv'
<1>1. step = "readHeaders" /\ want = 0 /\ HopOnly
  BY DEF HeaderRead, ReadDone
<1>2. ~heard /\ step \in Reads /\ Question = "readStatus"
  BY <1>1, StatusAt
<1>3. PICK a \in StatusAnswers : \E k \in 0..Len(a) : IsAnswer(a) /\ Answered(a, k)
  BY <1>1, StatusAt
<1>4. PICK k \in 0..Len(a) : IsAnswer(a) /\ Answered(a, k)
  BY <1>3
<1>5. k = Len(buf) + 12 /\ Len(buf) > 0 /\ a[10] = Two /\ Len(buf) \in Nat /\ Len(a) \in Nat
  BY <1>1, <1>4, AheadTypes DEF Answered, Place, IsAnswer, HandshakeInv
<1>6. granted
  BY <1>2, <1>4, <1>5 DEF Answered, Grants
<1>7. EndsHeaders(buf) <=> k = Len(a)
  <2>1. \A m \in 13..Len(a) : (a[m] = LF /\ m > 14 /\ a[m - 2] = LF) <=> m = Len(a)
    BY StatusAnswerFacts
  <2>2. k \in 13..Len(a)
    BY <1>5
  <2>3. (a[k] = LF /\ k > 14 /\ a[k - 2] = LF) <=> k = Len(a)
    BY <2>1, <2>2
  <2>4. \A j \in 1..Len(buf) : buf[j] = a[k - Len(buf) + j]
    BY <1>4 DEF Answered, Follows
  <2>5. k - Len(buf) + Len(buf) = k /\ k - Len(buf) + (Len(buf) - 2) = k - 2
    BY <1>5
  <2>6. buf[Len(buf)] = a[k] /\ (Len(buf) > 2 => buf[Len(buf) - 2] = a[k - 2])
    BY <1>5, <2>4, <2>5
  <2>7. Len(buf) > 2 <=> k > 14
    BY <1>5
  <2> QED BY <2>3, <2>6, <2>7 DEF EndsHeaders
<1>8. CASE EndsHeaders(buf)
  <2>1. OnlyDataAhead
    <3>1. Left \in Nat /\ k \in Nat
      BY <1>5, AheadTypes DEF HandshakeInv
    <3> QED BY <1>4, <1>7, <1>8, <3>1, DataAhead DEF Answered
  <2> QED BY <1>1, <1>6, <1>8, <2>1, InvEnds DEF HeaderRead, HopOnly
<1>9. CASE ~EndsHeaders(buf)
  <2>1. want' = 1 /\ UNCHANGED <<step, buf, code, outcome>>
    BY <1>9 DEF HeaderRead
  <2>2. UNCHANGED <<hop, heard, granted, owed, inq, link, cut, overread>>
    BY <1>1 DEF HopOnly, inputVars, proxyVars
  <2>3. k + want' <= Len(a)
    BY <1>5, <1>7, <1>9, <2>1
  <2>4. Follows(a, k)'
    BY <1>4, <2>1, <2>2 DEF Answered, Follows, Left, Ahead
  <2>5. Place(a, k)'
    BY <1>1, <1>5, <2>1 DEF Place, RequestReads
  <2>6. Question' = Question /\ a \in Answers[Question]
    BY <1>2, <2>1 DEF Question, Answers
  <2>7. Answered(a, k)'
    BY <1>4, <2>2, <2>3, <2>4, <2>5, <2>6 DEF Answered
  <2>8. Answering'
    BY <1>2, <2>2, <2>6, <2>7 DEF Answering
  <2>9. Streams'
    BY <2>1, <2>2 DEF HandshakeInv, Streams
  <2>10. step' \notin Quiet /\ step' # "done" /\ outcome' # "ok"
    BY <1>1, <2>1 DEF HandshakeInv, Quiet
  <2> QED BY <2>2, <2>8, <2>9, <2>10 DEF HandshakeInv
<1> QED BY <1>8, <1>9

(* A read is cut short.                                                    *)
LEMMA InvCut ==
  ASSUME HandshakeInv, CutShort
  PROVE  HandshakeInv'
<1>1. want > 0 /\ cut' = TRUE /\ UNCHANGED <<inputVars, proxyVars, overread>>
  BY DEF CutShort
<1>2. ASSUME NEW n \in {0, 2}, step \in {"readLen", "readRest"}, Read("readRest", n),
             step = "readLen" \/ n = 0
      PROVE  HandshakeInv'
  <2>1. ~heard /\ step \in Reads /\ Question = "readHead"
    BY <1>2, Socks5At DEF Socks5Reads
  <2>2. PICK a \in HeadAnswers : \E k \in 0..Len(a) : IsAnswer(a) /\ Answered(a, k)
    BY <1>2, Socks5At DEF Socks5Reads
  <2>3. PICK k \in 0..Len(a) : IsAnswer(a) /\ Answered(a, k)
    BY <2>2
  <2>4. Len(a) \in Nat /\ Len(a) >= 7 /\ a \in Seq(Octets)
    BY <2>3, HeadAnswerFacts DEF IsAnswer
  <2>5. step' = "readRest" /\ want' = n /\ buf' = <<>> /\ UNCHANGED <<code, outcome>>
    BY <1>2 DEF Read
  <2>6. k + n <= Len(a)
    <3>1. CASE n = 0
      BY <2>3, <2>4, <3>1
    <3>2. CASE step = "readLen"
      <4>1. k = Len(buf) + 4 /\ Len(buf) + want = 1 /\ Len(buf) \in Nat /\ want \in Nat
        BY <2>3, <3>2, AheadTypes DEF Answered, Place, HandshakeInv, Streams
      <4>2. k = 4
        BY <1>1, <4>1
      <4> QED BY <2>4, <4>2
    <3> QED BY <1>2, <3>1, <3>2
  <2>7. code = a[2]
    BY <1>2, <2>3 DEF Answered, Place
  <2>8. Place(a, k)'
    BY <1>1, <2>5, <2>7 DEF Place, RequestReads
  <2>9. Question' = Question /\ step' \in Reads /\ a \in Answers[Question]
    BY <2>1, <2>5 DEF Question, Reads, Answers
  <2>10. n \in Nat
    OBVIOUS
  <2> QED BY <1>1, <2>1, <2>3, <2>4, <2>5, <2>6, <2>8, <2>9, <2>10, InvReads DEF Answered
<1>3. CASE step = "readLen"
  <2>1. Read("readRest", 2)
    BY <1>3 DEF CutShort
  <2> QED BY <1>2, <1>3, <2>1
<1>4. CASE step = "readRest"
  <2>1. Read("readRest", 0)
    BY <1>4 DEF CutShort
  <2> QED BY <1>2, <1>4, <2>1
<1>5. CASE step \notin {"readLen", "readRest"}
  <2>1. End("fail")
    BY <1>5 DEF CutShort
  <2> QED BY <1>1, <2>1, InvEnds
<1> QED BY <1>3, <1>4, <1>5
-----------------------------------------------------------------------------
(* The steps of the proxy.                                                 *)
LEMMA InvAnswers ==
  ASSUME HandshakeInv, ProxyAnswers
  PROVE  HandshakeInv'
<1>1. heard /\ step # "done" /\ ~heard' /\ link = "open"
  BY DEF ProxyAnswers
<1>2. UNCHANGED <<hop, step, want, buf, code, outcome, inq, link, cut, overread>>
  BY DEF ProxyAnswers, inputVars, hopVars
<1>3. PICK a \in Answers[step] : owed' = a /\ granted' = Grants(step, a)
  BY DEF ProxyAnswers
<1>4. Unanswered /\ step \in Reads
  BY <1>1 DEF HandshakeInv, Streams, Answering
<1>5. step \in RequestReads /\ Question = step /\ want = Asks(step)
  BY <1>4 DEF Unanswered, RequestReads, Question
<1>6. a \in Seq(Octets) /\ Len(a) \in Nat /\ Asks(step) <= Len(a)
  BY <1>5, AnswerFacts
<1>7. Left' = Len(a) /\ \A i \in 1..Left' : Ahead(i)' = a[i]
  BY <1>2, <1>3, <1>4, <1>6, AheadNew DEF Unanswered
<1>8. Len(buf') = 0 /\ 1..0 = {}
  BY <1>2, <1>4 DEF Unanswered
<1>9. Follows(a, 0)'
  <2>1. ASSUME NEW i \in 1..Left' PROVE Ahead(i)' = IF 0 + i <= Len(a) THEN a[0 + i] ELSE Data
    BY <1>6, <1>7
  <2> QED BY <1>6, <1>7, <1>8, <2>1 DEF Follows
<1>10. Place(a, 0)'
  BY <1>2, <1>5, <1>6, <1>8 DEF Place, RequestReads, Asks
<1>11. Question' = Question /\ 0 + want' <= Len(a)
  <2>1. want \in Nat
    BY DEF HandshakeInv, Streams
  <2> QED BY <1>2, <1>5, <1>6, <2>1 DEF Question
<1>12. Answered(a, 0)'
  BY <1>3, <1>5, <1>9, <1>10, <1>11 DEF Answered
<1>13. Answering'
  <2>1. a \in Answers[Question'] /\ 0 \in 0..Len(a)
    BY <1>5, <1>6, <1>11
  <2> QED BY <1>1, <1>12, <2>1 DEF Answering
<1>14. Streams'
  <2>1. a \in Seq(0..Data)
    BY <1>6, OctetStrings
  <2> QED BY <1>2, <1>3, <2>1 DEF HandshakeInv, Streams
<1>15. step' \notin Quiet /\ step' # "done" /\ outcome' # "ok"
  BY <1>1, <1>2, <1>5 DEF HandshakeInv, Quiet, RequestReads
<1> QED BY <1>2, <1>13, <1>14, <1>15 DEF HandshakeInv

LEMMA InvElsewhere ==
  ASSUME HandshakeInv, Elsewhere
  PROVE  HandshakeInv'
<1>1. UNCHANGED <<hop, step, want, buf, code, outcome, granted, cut, overread>>
  BY DEF Elsewhere, Arrives, DestinationSends, ProxyCloses, inputVars, hopVars
<1>2. heard' => heard
  BY DEF Elsewhere, Arrives, DestinationSends, ProxyCloses
<1>3. Streams'
  <2>1. inq \in Seq(0..Data) /\ owed \in Seq(0..Data) /\ Data \in 0..Data /\ <<>> \in Seq(0..Data)
    BY DEF HandshakeInv, Streams, Data
  <2>2. inq' \in Seq(0..Data) /\ owed' \in Seq(0..Data)
    <3>1. CASE Arrives
      <4>1. Head(owed) \in 0..Data /\ Tail(owed) \in Seq(0..Data)
        BY <2>1, <3>1, HeadTailProperties DEF Arrives
      <4> QED BY <2>1, <3>1, <4>1, AppendProperties DEF Arrives
    <3>2. CASE DestinationSends
      BY <2>1, <3>2, AppendProperties DEF DestinationSends
    <3>3. CASE ProxyCloses
      BY <2>1, <3>3 DEF ProxyCloses
    <3> QED BY <3>1, <3>2, <3>3 DEF Elsewhere
  <2> QED BY <1>1, <2>2 DEF HandshakeInv, Streams
<1>4. /\ Left' \in Nat /\ (~granted => Left' <= Left) /\ Left \in Nat
      /\ \A i \in 1..Left' : IF i <= Left THEN Ahead(i)' = Ahead(i) ELSE Ahead(i)' = Data
  BY AheadElsewhere, AheadTypes DEF HandshakeInv
<1>5. NothingAhead /\ ~granted => NothingAhead'
  <2>1. NothingAhead => Left = 0
    BY NothingLeft DEF HandshakeInv
  <2>2. Left' = 0 => NothingAhead'
    BY <1>3 DEF Streams, Left, NothingAhead
  <2> QED BY <1>4, <2>1, <2>2
<1>6. ASSUME step \in Reads, Answering PROVE Answering'
  <2>1. PICK a \in Answers[Question] : \E k \in 0..Len(a) : Answered(a, k)
    BY <1>6 DEF Answering
  <2>2. PICK k \in 0..Len(a) : Answered(a, k)
    BY <2>1
  <2>3. a \in Seq(Octets)
    BY <1>6, QuestionAsked, AnswerFacts
  <2>4. Follows(a, k)'
    BY <2>2, <2>3, FollowsElsewhere DEF HandshakeInv, Answered
  <2>5. Question' = Question /\ Place(a, k)'
    BY <1>1, <2>2 DEF Answered, Question, Place
  <2>6. Answered(a, k)'
    BY <1>1, <2>2, <2>4, <2>5 DEF Answered
  <2> QED BY <1>2, <1>6, <2>5, <2>6 DEF Answering
<1>7. Unanswered => Unanswered'
  BY <1>1, <1>5 DEF Unanswered
<1>8. OnlyDataAhead => OnlyDataAhead'
  BY <1>4 DEF OnlyDataAhead
<1> QED BY <1>1, <1>2, <1>3, <1>5, <1>6, <1>7, <1>8 DEF HandshakeInv

LEMMA InvStep == HandshakeInv /\ [HandshakeNext]_vars => HandshakeInv'
<1> SUFFICES ASSUME HandshakeInv, [HandshakeNext]_vars PROVE HandshakeInv'
  OBVIOUS
<1>1. CASE Refuse \/ SendFails
  BY <1>1, InvEnds DEF Refuse, SendFails, HopOnly
<1>2. CASE Begin
  <2>1. FirstRequest[hop] \in Quiet
    BY DEF HandshakeInv, Streams, FirstRequest, Quiet
  <2>2. step \in Quiet /\ step # "done" /\ GoOn(FirstRequest[hop]) /\ HopOnly
    BY <1>2 DEF Begin, Quiet
  <2>3. NothingAhead /\ ~granted /\ ~heard
    BY <2>2 DEF HandshakeInv
  <2> QED BY <2>1, <2>2, <2>3, InvQuiet
<1>3. CASE SendRequest \/ TakeByte
  BY <1>3, InvSends, InvTakes
<1>4. CASE ReadFails \/ Signal
  BY <1>4, InvCut DEF ReadFails, Signal
<1>5. CASE MethodRead \/ AuthRead
  BY <1>5, InvMethod
<1>6. CASE HeadRead \/ TypeRead \/ LenRead \/ RestRead
  BY <1>6, InvHead, InvType, InvLen, InvRest
<1>7. CASE ReplyRead \/ StatusRead \/ HeaderRead
  BY <1>7, InvReply, InvStatus, InvHeader
<1>8. CASE ProxyAnswers
  BY <1>8, InvAnswers
<1>9. CASE DestinationSends \/ Arrives \/ ProxyCloses
  BY <1>9, InvElsewhere DEF Elsewhere
<1>10. CASE UNCHANGED vars
  <2>1. UNCHANGED <<hop, step, want, buf, code, outcome, heard, granted, owed, inq, link, cut, overread>>
    BY <1>10 DEF vars, inputVars, hopVars, proxyVars
  <2> QED BY <2>1
       DEF HandshakeInv, Streams, NothingAhead, Unanswered, Answering, Answered, Follows, Place,
           Question, OnlyDataAhead, Left, Ahead
<1> QED
  BY <1>1, <1>2, <1>3, <1>4, <1>5, <1>6, <1>7, <1>8, <1>9, <1>10 DEF HandshakeNext, HopStep

LEMMA HandshakeInvariant == HandshakeSpec => []HandshakeInv
  BY InvInit, InvStep, PTL DEF HandshakeSpec

(* However the answers and the destination's data are split into arrivals, *)
(* and wherever the hop's reads are cut short, it takes no byte of the     *)
(* destination's.                                                          *)
THEOREM NeverOverreads == HandshakeSpec => []NoOverread
<1>1. HandshakeInv => NoOverread
  BY DEF HandshakeInv, NoOverread
<1> QED BY <1>1, HandshakeInvariant, PTL

(* A hop never reports success without the proxy's word for it.            *)
THEOREM SuccessAlwaysGranted == HandshakeSpec => []SuccessIsGranted
<1>1. HandshakeInv => SuccessIsGranted
  BY DEF HandshakeInv, SuccessIsGranted
<1> QED BY <1>1, HandshakeInvariant, PTL

(* As long as the names a SOCKS5 proxy reports are of less than SignBit    *)
(* bytes, so that their length is not negative as a char, an exchange no   *)
(* read of which was cut short leaves nothing of the reply behind.         *)
THEOREM ReplyAlwaysConsumed ==
  ASSUME NamesShort
  PROVE  HandshakeSpec => []ReplyConsumed
<1>1. ASSUME HandshakeInv, outcome = "ok", ~cut PROVE OnlyDataLeft
  <2>1. inq \in Seq(0..Data) /\ owed \in Seq(0..Data) /\ OnlyDataAhead
    BY <1>1 DEF HandshakeInv, Streams
  <2>2. /\ DOMAIN (inq \o owed) = 1..Left
        /\ \A i \in 1..Left : (inq \o owed)[i] = Ahead(i)
    BY <2>1, ConcatProperties DEF Left, Ahead
  <2> QED BY <2>1, <2>2 DEF OnlyDataLeft, OnlyDataAhead
<1>2. HandshakeInv => ReplyConsumed
  BY <1>1 DEF ReplyConsumed
<1> QED BY <1>2, HandshakeInvariant, PTL
-----------------------------------------------------------------------------
(* What the proxy is told.                                                 *)
Fields == {"name", "port", "user", "pass"}

(* Every length fits the byte that says it, and the port its two bytes.    *)
Fits(g) == g.name < Base /\ g.user < Base /\ g.pass < Base /\ g.port < Base * Base

GivensFit == \A g \in Givens : Fits(g)

LEMMA BaseFacts == Base \in Nat /\ Base > 0 /\ Base <= 256
  BY HandshakeConstants DEF Base

LEMMA ByteFacts ==
  ASSUME NEW n \in Nat
  PROVE  Byte(n) \in Octets /\ Byte(n) \in Nat /\ Byte(n) <= n /\ (n < Base => Byte(n) = n)
<1>1. n % Base \in 0..(Base - 1) /\ n % Base <= n
  BY BaseFacts
<1>2. n < Base => n % Base = n
  BY BaseFacts
<1> QED BY <1>1, <1>2, BaseFacts DEF Byte, Octets

LEMMA PortFacts ==
  ASSUME NEW p \in Nat
  PROVE  /\ p \div Base \in Nat /\ p % Base \in Nat
         /\ p < Base * Base => Byte(p \div Base) * Base + Byte(p % Base) = p
<1>1. /\ p \div Base \in Nat /\ p % Base \in Nat /\ p % Base < Base
      /\ (p \div Base) * Base + (p % Base) = p
  BY BaseFacts
<1>2. p < Base * Base => p \div Base < Base
  BY BaseFacts
<1> QED BY <1>1, <1>2, ByteFacts

LEMMA GivenFacts ==
  ASSUME NEW g \in Givens
  PROVE  /\ DOMAIN g = Fields
         /\ g.name \in Nat /\ g.port \in Nat /\ g.user \in Nat /\ g.pass \in Nat
  BY HandshakeConstants DEF Fields

(* The user and the password are where the lengths say.                    *)
LEMMA AuthFields ==
  ASSUME NEW g \in Givens
  PROVE  /\ AuthBytes(g)[2] = Byte(g.user)
         /\ AuthBytes(g)[AuthBytes(g)[2] + 3] \in Nat
         /\ Fits(g) => AuthBytes(g)[AuthBytes(g)[2] + 3] = g.pass
<1> DEFINE b == Byte(g.user)
           p == Byte(g.pass)
           s == <<1, b>>
           t == s \o Pads(g.user)
           u == t \o <<p>>
           a == u \o Pads(g.pass)
<1>1. /\ b \in Octets /\ p \in Octets /\ b \in Nat /\ b <= g.user
      /\ g.user \in Nat /\ g.pass \in Nat
  BY GivenFacts, ByteFacts
<1>2. Fits(g) => b = g.user /\ p = g.pass
  BY GivenFacts, ByteFacts DEF Fits
<1>3. AuthBytes(g) = a
  BY DEF AuthBytes
<1> HIDE DEF b, p
<1>4. s \in Seq(Octets) /\ Len(s) = 2 /\ s[2] = b
  BY <1>1 DEF Octets
<1>5. <<p>> \in Seq(Octets) /\ Len(<<p>>) = 1 /\ <<p>>[1] = p
  BY <1>1
<1> HIDE DEF s
<1>6. t \in Seq(Octets) /\ Len(t) = 2 + g.user /\ t[2] = b
  <2>1. 2 \in 1..Len(s)
    BY <1>4
  <2>2. /\ t \in Seq(Octets) /\ Len(t) = Len(s) + g.user
        /\ \A i \in 1..Len(s) : t[i] = s[i]
    BY <1>1, <1>4, JoinedPads
  <2> HIDE DEF t
  <2> QED BY <1>1, <1>4, <2>1, <2>2
<1> HIDE DEF t
<1>7. u \in Seq(Octets) /\ Len(u) = 3 + g.user /\ u[2] = b /\ u[3 + g.user] = p
  <2>1. 2 \in 1..Len(t) /\ 1 \in 1..Len(<<p>>) /\ Len(t) + 1 = 3 + g.user
    BY <1>1, <1>5, <1>6
  <2> QED BY <1>5, <1>6, <2>1, Joined
<1> HIDE DEF u
<1>8. /\ a \in Seq(Octets) /\ Len(a) = 3 + g.user + g.pass
      /\ a[2] = b /\ a[3 + g.user] = p
  <2>1. 2 \in 1..Len(u) /\ 3 + g.user \in 1..Len(u)
    BY <1>1, <1>7
  <2>2. /\ a \in Seq(Octets) /\ Len(a) = Len(u) + g.pass
        /\ \A i \in 1..Len(u) : a[i] = u[i]
    BY <1>1, <1>7, JoinedPads
  <2> HIDE DEF a
  <2> QED BY <1>1, <1>7, <2>1, <2>2
<1> HIDE DEF a
<1>9. a[b + 3] \in Octets
  <2>1. b + 3 \in 1..Len(a)
    BY <1>1, <1>8
  <2> QED BY <1>8, <2>1
<1>10. Fits(g) => a[b + 3] = g.pass
  <2>1. Fits(g) => b + 3 = 3 + g.user
    BY <1>1, <1>2
  <2> QED BY <1>2, <1>8, <2>1
<1>11. a[b + 3] \in Nat
  BY <1>9 DEF Octets
<1> QED BY <1>3, <1>8, <1>10, <1>11 DEF b

(* So are the port's two bytes, after the name.                            *)
LEMMA ConnectFields ==
  ASSUME NEW g \in Givens
  PROVE  /\ ConnectBytes(g)[5] = Byte(g.name)
         /\ ConnectBytes(g)[ConnectBytes(g)[5] + 6] \in Nat
         /\ ConnectBytes(g)[ConnectBytes(g)[5] + 7] \in Nat
         /\ Fits(g) => /\ ConnectBytes(g)[ConnectBytes(g)[5] + 6] = Byte(g.port \div Base)
                       /\ ConnectBytes(g)[ConnectBytes(g)[5] + 7] = Byte(g.port % Base)
<1> DEFINE n == Byte(g.name)
           h == Byte(g.port \div Base)
           l == Byte(g.port % Base)
           s == <<5, 1, 0, 3, n>>
           t == s \o Pads(g.name)
           c == t \o <<h, l>>
<1>1. /\ n \in Octets /\ h \in Octets /\ l \in Octets /\ n \in Nat /\ n <= g.name
      /\ g.name \in Nat
  BY GivenFacts, ByteFacts, PortFacts
<1>2. Fits(g) => n = g.name
  BY GivenFacts, ByteFacts DEF Fits
<1>3. ConnectBytes(g) = c
  BY DEF ConnectBytes
<1> HIDE DEF n, h, l
<1>4. s \in Seq(Octets) /\ Len(s) = 5 /\ s[5] = n
  BY <1>1 DEF Octets
<1>5. <<h, l>> \in Seq(Octets) /\ Len(<<h, l>>) = 2 /\ <<h, l>>[1] = h /\ <<h, l>>[2] = l
  BY <1>1
<1> HIDE DEF s
<1>6. t \in Seq(Octets) /\ Len(t) = 5 + g.name /\ t[5] = n
  <2>1. 5 \in 1..Len(s)
    BY <1>4
  <2>2. /\ t \in Seq(Octets) /\ Len(t) = Len(s) + g.name
        /\ \A i \in 1..Len(s) : t[i] = s[i]
    BY <1>1, <1>4, JoinedPads
  <2> HIDE DEF t
  <2> QED BY <1>1, <1>4, <2>1, <2>2
<1> HIDE DEF t
<1>7. /\ c \in Seq(Octets) /\ Len(c) = 7 + g.name /\ c[5] = n
      /\ c[6 + g.name] = h /\ c[7 + g.name] = l
  <2>1. /\ 5 \in 1..Len(t) /\ 1 \in 1..Len(<<h, l>>) /\ 2 \in 1..Len(<<h, l>>)
        /\ Len(t) + 1 = 6 + g.name /\ Len(t) + 2 = 7 + g.name
    BY <1>1, <1>5, <1>6
  <2>2. /\ c \in Seq(Octets) /\ Len(c) = Len(t) + Len(<<h, l>>)
        /\ \A i \in 1..Len(t) : c[i] = t[i]
        /\ \A i \in 1..Len(<<h, l>>) : c[Len(t) + i] = <<h, l>>[i]
    BY <1>5, <1>6, Joined
  <2> HIDE DEF c
  <2>3. c[5] = n /\ c[Len(t) + 1] = h /\ c[Len(t) + 2] = l
    BY <1>5, <1>6, <2>1, <2>2
  <2>4. Len(c) = 7 + g.name
    BY <1>1, <1>5, <1>6, <2>2
  <2> QED BY <2>1, <2>2, <2>3, <2>4
<1> HIDE DEF c
<1>8. c[n + 6] \in Octets /\ c[n + 7] \in Octets
  <2>1. n + 6 \in 1..Len(c) /\ n + 7 \in 1..Len(c)
    BY <1>1, <1>7
  <2> QED BY <1>7, <2>1
<1>9. Fits(g) => c[n + 6] = h /\ c[n + 7] = l
  <2>1. Fits(g) => n + 6 = 6 + g.name /\ n + 7 = 7 + g.name
    BY <1>1, <1>2
  <2> QED BY <1>7, <2>1
<1>10. c[n + 6] \in Nat /\ c[n + 7] \in Nat
  BY <1>8 DEF Octets
<1> QED BY <1>3, <1>7, <1>9, <1>10 DEF n, h, l

(* Fields whose values are numbers, and the given ones if they fit.        *)
Legible(t) == DOMAIN t \subseteq Fields /\ \A f \in DOMAIN t : t[f] \in Nat
Right(t, g) == \A f \in DOMAIN t : t[f] = g[f]

LEMMA UnderstoodFacts ==
  ASSUME NEW r \in Quiet \ {"start"}, NEW g \in Givens
  PROVE  /\ Legible(Understood(r, g))
         /\ r \in {"connect", "socks4", "http"} => {"name", "port"} \subseteq DOMAIN Understood(r, g)
         /\ r # "socks4" /\ Fits(g) => Right(Understood(r, g), g)
<1>1. CASE r = "auth"
  <2>1. Understood(r, g) = [user |-> AuthBytes(g)[2], pass |-> AuthBytes(g)[AuthBytes(g)[2] + 3]]
    BY <1>1 DEF Understood
  <2>2. Fits(g) => AuthBytes(g)[2] = g.user
    BY AuthFields, ByteFacts, GivenFacts DEF Fits
  <2>3. AuthBytes(g)[2] \in Nat
    BY AuthFields, ByteFacts, GivenFacts
  <2> QED BY <1>1, <2>1, <2>2, <2>3, AuthFields DEF Legible, Right, Fields
<1>2. CASE r = "connect"
  <2> DEFINE c == ConnectBytes(g)
  <2>1. Understood(r, g) = [name |-> c[5], port |-> c[c[5] + 6] * Base + c[c[5] + 7]]
    BY <1>2 DEF Understood
  <2> HIDE DEF c
  <2>2. Fits(g) => c[5] = g.name /\ c[c[5] + 6] * Base + c[c[5] + 7] = g.port
    <3>1. Fits(g) => c[5] = g.name
      BY ConnectFields, ByteFacts, GivenFacts DEF Fits, c
    <3>2. Fits(g) => Byte(g.port \div Base) * Base + Byte(g.port % Base) = g.port
      BY PortFacts, GivenFacts DEF Fits
    <3> QED BY <3>1, <3>2, ConnectFields DEF c
  <2>3. c[5] \in Nat
    BY ConnectFields, ByteFacts, GivenFacts DEF c
  <2>4. c[c[5] + 6] * Base + c[c[5] + 7] \in Nat
    BY ConnectFields, BaseFacts DEF c
  <2> QED BY <1>2, <2>1, <2>2, <2>3, <2>4 DEF Legible, Right, Fields
<1>3. CASE r = "socks4"
  <2>1. Understood(r, g) = [name |-> g.name, port |-> Socks4Port]
    BY <1>3 DEF Understood
  <2> QED BY <1>3, <2>1, GivenFacts DEF Legible, Fields, Socks4Port
<1>4. CASE r = "http"
  <2>1. Understood(r, g) = [name |-> g.name, port |-> g.port]
    BY <1>4 DEF Understood
  <2> QED BY <1>4, <2>1, GivenFacts DEF Legible, Fields, Right
<1>5. CASE r = "method"
  <2>1. Understood(r, g) = <<>>
    BY <1>5 DEF Understood
  <2>2. DOMAIN <<>> = {}
    OBVIOUS
  <2> QED BY <1>5, <2>1, <2>2 DEF Legible, Right
<1> QED BY <1>1, <1>2, <1>3, <1>4, <1>5 DEF Quiet

(* A request with the destination was heard before any connection is       *)
(* granted, and all that was heard so far is what the hop was given.       *)
Socks5Steps == {"method", "auth", "connect", "readMethod", "readAuth"} \cup Socks5Reads
Socks4Steps == {"socks4", "readReply"}
HttpSteps   == {"http", "readStatus", "readHeaders"}
Granting    == {"readHead", "readReply", "readStatus"}

ToldInv ==
  /\ given \in Givens
  /\ step \in Socks5Steps => hop = "socks5"
  /\ step \in Socks4Steps => hop = "socks4"
  /\ step \in HttpSteps => hop = "proxy"
  /\ Legible(told)
  /\ granted \/ (heard /\ step \in Granting) => {"name", "port"} \subseteq DOMAIN told
  /\ GivensFit /\ hop # "socks4" => Right(told, given)

LEMMA ToldInit == HandshakeInit => ToldInv
<1>1. DOMAIN <<>> = {}
  OBVIOUS
<1> QED BY <1>1 DEF HandshakeInit, ToldInv, Legible, Right, Socks5Steps, Socks5Reads, Socks4Steps, HttpSteps

(* The hop goes on to a step of its own protocol.                          *)
LEMMA ToldOn ==
  ASSUME HandshakeInv, ToldInv, NEW s, step' = s, UNCHANGED <<given, hop, told, granted>>,
         heard' => heard,
         s \notin Granting \/ s = step,
         s \in Socks5Steps => hop = "socks5",
         s \in Socks4Steps => hop = "socks4",
         s \in HttpSteps => hop = "proxy"
  PROVE  ToldInv'
  BY DEF ToldInv, Legible, Right

LEMMA ToldSends ==
  ASSUME HandshakeInv, ToldInv, SendRequest
  PROVE  ToldInv'
<1>1. step \in Quiet \ {"start"} /\ UNCHANGED <<given, hop, granted>> /\ ~granted
  BY DEF SendRequest, Request, Quiet, HandshakeInv, inputVars
<1>2. step' = Request[step].step
  BY DEF SendRequest, Read
<1>3. \/ step = "method" /\ step' = "readMethod"
      \/ step = "auth" /\ step' = "readAuth"
      \/ step = "connect" /\ step' = "readHead"
      \/ step = "socks4" /\ step' = "readReply"
      \/ step = "http" /\ step' = "readStatus"
  <2>1. /\ Request["method"].step = "readMethod" /\ Request["auth"].step = "readAuth"
        /\ Request["connect"].step = "readHead" /\ Request["socks4"].step = "readReply"
        /\ Request["http"].step = "readStatus"
    BY DEF Request
  <2> QED BY <1>1, <1>2, <2>1 DEF Quiet
<1>4. /\ step' \in Socks5Steps => hop' = "socks5"
      /\ step' \in Socks4Steps => hop' = "socks4"
      /\ step' \in HttpSteps => hop' = "proxy"
      /\ step' \in Granting => step \in {"connect", "socks4", "http"}
      /\ step = "socks4" => hop = "socks4"
  BY <1>1, <1>3 DEF ToldInv, Socks5Steps, Socks5Reads, Socks4Steps, HttpSteps, Granting
<1> DEFINE u == Understood(step, given)
<1>5. given \in Givens /\ (GivensFit => Fits(given))
  BY DEF ToldInv, GivensFit
<1>6. /\ Legible(u) /\ (step' \in Granting => {"name", "port"} \subseteq DOMAIN u)
      /\ GivensFit /\ hop # "socks4" => Right(u, given)
  BY <1>1, <1>4, <1>5, UnderstoodFacts
<1> HIDE DEF u
<1>7. CASE heard'
  <2>1. told' = Learned(u, told)
    BY <1>7 DEF SendRequest, u
  <2>2. /\ DOMAIN told' = DOMAIN u \cup DOMAIN told
        /\ \A f \in DOMAIN told' : told'[f] = IF f \in DOMAIN u THEN u[f] ELSE told[f]
    BY <2>1 DEF Learned
  <2>3. Legible(told)'
    BY <1>6, <2>2 DEF Legible, ToldInv
  <2>4. GivensFit /\ hop # "socks4" => Right(told, given)'
    BY <1>1, <1>6, <2>2 DEF Right, ToldInv
  <2> QED BY <1>1, <1>4, <1>5, <1>6, <2>2, <2>3, <2>4 DEF ToldInv
<1>8. CASE ~heard'
  <2>1. UNCHANGED told
    BY <1>8 DEF SendRequest
  <2> QED BY <1>1, <1>4, <1>5, <1>8, <2>1 DEF ToldInv, Legible, Right
<1> QED BY <1>7, <1>8

LEMMA ToldStep == HandshakeInv /\ ToldInv /\ [HandshakeNext]_vars => ToldInv'
<1> SUFFICES ASSUME HandshakeInv, ToldInv, [HandshakeNext]_vars PROVE ToldInv'
  OBVIOUS
<1> USE DEF Socks5Steps, Socks5Reads, Socks4Steps, HttpSteps, Granting
<1>1. ASSUME HopOnly PROVE UNCHANGED <<given, hop, told, granted, heard>>
  BY <1>1 DEF HopOnly, inputVars, proxyVars
<1>2. CASE Refuse \/ SendFails \/ RestRead \/ ReplyRead
  BY <1>1, <1>2, ToldOn DEF Refuse, SendFails, RestRead, ReplyRead, End
<1>3. CASE Begin
  BY <1>1, <1>3, ToldOn DEF Begin, GoOn, FirstRequest, HandshakeInv, Streams
<1>4. CASE SendRequest
  BY <1>4, ToldSends
<1>5. CASE TakeByte \/ DestinationSends \/ Arrives \/ ProxyCloses
  <2>1. UNCHANGED <<given, hop, told, granted, step>> /\ (heard' => heard)
    BY <1>5 DEF TakeByte, DestinationSends, Arrives, ProxyCloses, inputVars, hopVars
  <2> QED BY <2>1, ToldOn DEF ToldInv
<1>6. CASE ReadFails \/ Signal
  <2>1. UNCHANGED <<given, hop, told, granted, heard>> /\ CutShort
    BY <1>6 DEF ReadFails, Signal, CutShort, inputVars, proxyVars
  <2>2. step' = "done" \/ (step \in {"readLen", "readRest"} /\ step' = "readRest")
    BY <2>1 DEF CutShort, Read, End
  <2>3. step' = "done" => ToldInv'
    BY <2>1, ToldOn
  <2>4. step \in {"readLen", "readRest"} /\ step' = "readRest" => ToldInv'
    BY <2>1, ToldOn DEF ToldInv
  <2> QED BY <2>2, <2>3, <2>4
<1>7. CASE MethodRead \/ AuthRead
  <2>1. HopOnly /\ step \in {"readMethod", "readAuth"} /\ step' \in {"auth", "connect", "done"}
    BY <1>7 DEF MethodRead, AuthRead, ReadDone, End, GoOn
  <2> QED BY <1>1, <2>1, ToldOn DEF ToldInv
<1>8. CASE HeadRead \/ TypeRead \/ LenRead
  <2>1. HopOnly /\ step \in Socks5Reads /\ step' \in {"readType", "readLen", "readRest"}
    BY <1>8 DEF HeadRead, TypeRead, LenRead, ReadDone, Read
  <2> QED BY <1>1, <2>1, ToldOn DEF ToldInv
<1>9. CASE StatusRead \/ HeaderRead
  <2>1. HopOnly /\ step \in {"readStatus", "readHeaders"} /\ step' \in {"readHeaders", "done"}
    BY <1>9 DEF StatusRead, HeaderRead, ReadDone, Read, End
  <2> QED BY <1>1, <2>1, ToldOn DEF ToldInv
<1>10. CASE ProxyAnswers
  <2>1. heard /\ ~heard' /\ UNCHANGED <<given, hop, told, step>>
    BY <1>10 DEF ProxyAnswers, inputVars, hopVars
  <2>2. granted' => step \in Granting
    BY <1>10 DEF ProxyAnswers, Grants
  <2> QED BY <2>1, <2>2 DEF ToldInv, Legible, Right
<1>11. CASE UNCHANGED vars
  <2>1. UNCHANGED <<given, hop, told, granted, step, heard>>
    BY <1>11 DEF vars, inputVars, hopVars, proxyVars
  <2> QED BY <2>1 DEF ToldInv, Legible, Right
<1> QED
  BY <1>2, <1>3, <1>4, <1>5, <1>6, <1>7, <1>8, <1>9, <1>10, <1>11 DEF HandshakeNext, HopStep

LEMMA ToldInvariant == HandshakeSpec => []ToldInv
  BY ToldInit, ToldStep, HandshakeInvariant, PTL DEF HandshakeSpec

(* As long as every length fits its byte and the port two bytes, a SOCKS5  *)
(* or HTTP hop that reports success had its proxy told the host, the port, *)
(* the user and the password it was given.                                 *)
THEOREM DestinationAlwaysTold ==
  ASSUME GivensFit
  PROVE  HandshakeSpec => []ProxyToldDestination
<1>1. HandshakeInv /\ ToldInv => ProxyToldDestination
  BY DEF HandshakeInv, ToldInv, ProxyToldDestination, Right
<1> QED BY <1>1, HandshakeInvariant, ToldInvariant, PTL
-----------------------------------------------------------------------------
(* The types.  No read asks for more than a name and its port, because the *)
(* length it goes by is one that an answer has.                            *)
WantBounded == want \in 0..18 \/ \E n \in NameLens : want \in 0..(n + 2)

Flags == heard \in BOOLEAN /\ granted \in BOOLEAN /\ cut \in BOOLEAN /\ overread \in BOOLEAN

RestTyped ==
  /\ timed \in BOOLEAN
  /\ Flags
  /\ WantBounded
  /\ code \in Octets
  /\ outcome \in {"none", "ok", "fail"}
  /\ link \in {"open", "closed"}
  /\ data \in 0..MaxData

(* What the first and the third read of the SOCKS5 reply have got.         *)
LEMMA ResponseCode ==
  ASSUME HandshakeInv, ReadDone("readHead")
  PROVE  buf[2] \in Octets
<1>1. PICK a \in HeadAnswers : \E k \in 0..Len(a) : IsAnswer(a) /\ Answered(a, k)
  BY Socks5At DEF Socks5Reads, ReadDone
<1>2. PICK k \in 0..Len(a) : IsAnswer(a) /\ Answered(a, k)
  BY <1>1
<1>3. k = 2 /\ Len(buf) = 2 /\ Len(a) \in Nat /\ Len(a) >= 7 /\ a \in Seq(Octets)
  BY <1>2, HeadAnswerFacts, AheadTypes
     DEF ReadDone, Answered, Place, IsAnswer, RequestReads, Asks, HandshakeInv
<1>4. buf[2] = a[2]
  BY <1>2, <1>3 DEF Answered, Follows
<1>5. a[2] \in Octets
  BY <1>3
<1> QED BY <1>4, <1>5

LEMMA NameLength ==
  ASSUME HandshakeInv, ReadDone("readLen")
  PROVE  buf[1] \in NameLens
<1>1. PICK a \in HeadAnswers : \E k \in 0..Len(a) : IsAnswer(a) /\ Answered(a, k)
  BY Socks5At DEF Socks5Reads, ReadDone
<1>2. PICK k \in 0..Len(a) : IsAnswer(a) /\ Answered(a, k)
  BY <1>1
<1>3. k = Len(buf) + 4 /\ Len(buf) + want = 1 /\ a[4] = 3 /\ want = 0
  BY <1>2 DEF ReadDone, Answered, Place
<1>4. Len(buf) \in Nat
  BY AheadTypes DEF HandshakeInv
<1>5. Len(buf) = 1 /\ k = 5
  <2>1. Len(buf) = 1
    BY <1>3, <1>4
  <2> QED BY <1>3, <2>1
<1>6. buf[1] = a[5]
  BY <1>2, <1>5 DEF Answered, Follows
<1> QED BY <1>3, <1>6, HeadAnswerFacts

LEMMA FlagsStep == Flags /\ [HandshakeNext]_vars => Flags'
<1> SUFFICES ASSUME Flags, [HandshakeNext]_vars PROVE Flags'
  OBVIOUS
<1>1. ASSUME HopOnly PROVE Flags'
  BY <1>1 DEF HopOnly, proxyVars, Flags
<1>2. CASE SendRequest
  BY <1>2 DEF SendRequest, Flags
<1>3. CASE TakeByte
  BY <1>3, Zenon DEF TakeByte, Flags
<1>4. CASE ReadFails \/ Signal
  BY <1>4 DEF ReadFails, Signal, CutShort, proxyVars, Flags
<1>5. CASE ProxyAnswers
  <2>1. heard' \in BOOLEAN /\ UNCHANGED <<cut, overread>>
    BY <1>5 DEF ProxyAnswers
  <2>2. PICK a : granted' = Grants(step, a)
    BY <1>5 DEF ProxyAnswers
  <2>3. Grants(step, a) \in BOOLEAN
    BY Zenon DEF Grants
  <2> QED BY <2>1, <2>2, <2>3, Zenon DEF Flags
<1>6. CASE DestinationSends \/ Arrives \/ ProxyCloses
  BY <1>6 DEF DestinationSends, Arrives, ProxyCloses, Flags
<1>7. CASE UNCHANGED vars
  BY <1>7 DEF vars, proxyVars, Flags
<1>8. HopStep => HopOnly \/ SendRequest \/ TakeByte \/ ReadFails
  BY DEF HopStep, Refuse, Begin, SendFails, MethodRead, AuthRead, HeadRead, TypeRead, LenRead,
         RestRead, ReplyRead, StatusRead, HeaderRead
<1> QED BY <1>1, <1>2, <1>3, <1>4, <1>5, <1>6, <1>7, <1>8 DEF HandshakeNext

LEMMA WantStep ==
  HandshakeInv /\ WantBounded /\ [HandshakeNext]_vars => WantBounded'
<1> SUFFICES ASSUME HandshakeInv, WantBounded, [HandshakeNext]_vars PROVE WantBounded'
  OBVIOUS
<1> USE DEF WantBounded
<1>1. want' \in 0..18 => WantBounded'
  OBVIOUS
<1>2. CASE Refuse \/ SendFails \/ RestRead \/ ReplyRead \/ Begin \/ MethodRead \/ AuthRead
  BY <1>1, <1>2 DEF Refuse, SendFails, RestRead, ReplyRead, Begin, MethodRead, AuthRead, End, GoOn
<1>3. CASE SendRequest
  <2>1. step \in {"method", "auth", "connect", "socks4", "http"} /\ want' = Request[step].want
    BY <1>3 DEF SendRequest, Read, Request
  <2>2. /\ Request["method"].want = 2 /\ Request["auth"].want = 2 /\ Request["connect"].want = 2
        /\ Request["socks4"].want = 8 /\ Request["http"].want = 12
    BY DEF Request
  <2> QED BY <1>1, <2>1, <2>2
<1>4. CASE TakeByte
  <2>1. want \in Nat /\ want > 0 /\ want' = want - 1
    BY <1>4 DEF TakeByte, HandshakeInv, Streams
  <2>2. ASSUME NEW n \in NameLens, want \in 0..(n + 2) PROVE want' \in 0..(n + 2)
    <3>1. n \in Nat
      BY HandshakeConstants
    <3> QED BY <2>1, <2>2, <3>1
  <2> QED BY <2>1, <2>2
<1>5. CASE ReadFails \/ Signal
  <2>1. want' \in {0, 2}
    BY <1>5 DEF ReadFails, Signal, CutShort, Read, End
  <2> QED BY <1>1, <2>1
<1>6. CASE HeadRead
  BY <1>1, <1>6 DEF HeadRead
<1>7. CASE TypeRead
  <2>1. want' = 1 \/ want' = AddressSize(buf[2])
    BY <1>7 DEF TypeRead, Read
  <2> QED BY <1>1, <2>1 DEF AddressSize
<1>8. CASE LenRead
  <2>1. PICK n \in NameLens : want' = Max({0, SignedChar(n) + 2})
    BY <1>8, NameLength DEF LenRead, Read
  <2>2. n \in Nat /\ SignBit \in Nat /\ SignBit > 0
    BY HandshakeConstants
  <2>3. SignedChar(n) + 2 \in Int /\ SignedChar(n) + 2 <= n + 2
    BY <2>2 DEF SignedChar
  <2>4. want' \in 0..(n + 2)
    BY <2>1, <2>2, <2>3, MaxWithZero
  <2> QED BY <2>4
<1>9. CASE StatusRead \/ HeaderRead
  BY <1>1, <1>9 DEF StatusRead, HeaderRead, Read, End
<1>10. CASE ProxyAnswers \/ DestinationSends \/ Arrives \/ ProxyCloses \/ UNCHANGED vars
  BY <1>10 DEF ProxyAnswers, DestinationSends, Arrives, ProxyCloses, vars, hopVars
<1> QED
  BY <1>2, <1>3, <1>4, <1>5, <1>6, <1>7, <1>8, <1>9, <1>10 DEF HandshakeNext, HopStep

LEMMA RestStep == HandshakeInv /\ RestTyped /\ [HandshakeNext]_vars => RestTyped'
<1> SUFFICES ASSUME HandshakeInv, RestTyped, [HandshakeNext]_vars PROVE RestTyped'
  OBVIOUS
<1>1. Flags' /\ WantBounded'
  BY FlagsStep, WantStep DEF RestTyped
<1>2. UNCHANGED timed
  BY DEF HandshakeNext, HopStep, Refuse, Begin, SendRequest, SendFails, TakeByte, ReadFails, Signal,
         CutShort, MethodRead, AuthRead, HeadRead, TypeRead, LenRead, RestRead, ReplyRead,
         StatusRead, HeaderRead, ProxyAnswers, DestinationSends, Arrives, ProxyCloses, HopOnly,
         vars, inputVars
<1>3. code' \in Octets
  <2>1. CASE HeadRead
    BY <2>1, ResponseCode DEF HeadRead
  <2>2. HeadRead \/ UNCHANGED code
    BY DEF HandshakeNext, HopStep, Refuse, Begin, SendRequest, SendFails, TakeByte, ReadFails,
           Signal, CutShort, MethodRead, AuthRead, TypeRead, LenRead, RestRead, ReplyRead,
           StatusRead, HeaderRead, ProxyAnswers, DestinationSends, Arrives, ProxyCloses, HopOnly,
           vars, hopVars, End, GoOn, Read
  <2> QED BY <2>1, <2>2 DEF RestTyped
<1>4. outcome' \in {"ok", "fail"} \/ UNCHANGED outcome
  BY DEF HandshakeNext, HopStep, Refuse, Begin, SendRequest, SendFails, TakeByte, ReadFails,
         Signal, CutShort, MethodRead, AuthRead, HeadRead, TypeRead, LenRead, RestRead, ReplyRead,
         StatusRead, HeaderRead, ProxyAnswers, DestinationSends, Arrives, ProxyCloses, HopOnly,
         vars, hopVars, End, GoOn, Read
<1>5. link' \in {"open", "closed"} /\ data' \in 0..MaxData
  <2>1. CASE ProxyCloses
    BY <2>1 DEF ProxyCloses, RestTyped
  <2>2. CASE DestinationSends
    BY <2>2, HandshakeConstants DEF DestinationSends, RestTyped
  <2>3. ProxyCloses \/ DestinationSends \/ UNCHANGED <<link, data>>
    BY DEF HandshakeNext, HopStep, Refuse, Begin, SendRequest, SendFails, TakeByte, ReadFails,
           Signal, CutShort, MethodRead, AuthRead, HeadRead, TypeRead, LenRead, RestRead, ReplyRead,
           StatusRead, HeaderRead, ProxyAnswers, Arrives, HopOnly, vars, proxyVars
  <2> QED BY <2>1, <2>2, <2>3 DEF RestTyped
<1> QED BY <1>1, <1>2, <1>3, <1>4, <1>5 DEF RestTyped

(* Every field of the exchange keeps its type: in particular a response    *)
(* code is a byte and a read asks for no more than an address has.         *)
THEOREM HandshakeTypeCorrect == HandshakeSpec => []HandshakeTypeOK
<1>1. HandshakeInit => RestTyped
  <2>1. 0 \in 0..18 /\ 0 \in Octets /\ 0 \in 0..MaxData
    BY HandshakeConstants DEF Octets
  <2> QED BY <2>1, Zenon DEF HandshakeInit, RestTyped, Flags, WantBounded
<1>2. HandshakeSpec => []RestTyped
  BY <1>1, RestStep, HandshakeInvariant, PTL DEF HandshakeSpec
<1>3. HandshakeInv /\ ToldInv /\ RestTyped => HandshakeTypeOK
  <2>1. {"socks5", "socks4", "proxy"} = DOMAIN FirstRequest
    BY DEF FirstRequest
  <2>2. Quiet \cup Reads \cup {"done"} \subseteq Steps
    <3>1. DOMAIN Request = {"method", "auth", "connect", "socks4", "http"}
      BY DEF Request
    <3>2. RequestReads \subseteq {Request[r].step : r \in DOMAIN Request}
      <4>1. /\ Request["method"].step = "readMethod" /\ Request["auth"].step = "readAuth"
            /\ Request["connect"].step = "readHead" /\ Request["socks4"].step = "readReply"
            /\ Request["http"].step = "readStatus"
        BY DEF Request
      <4> QED BY <3>1, <4>1 DEF RequestReads
    <3> QED BY <3>1, <3>2 DEF Steps, Quiet, Reads
  <2> QED BY <2>1, <2>2
       DEF HandshakeInv, Streams, ToldInv, Legible, Fields, RestTyped, Flags, WantBounded, Octets,
           HandshakeTypeOK
<1> QED BY <1>2, <1>3, HandshakeInvariant, ToldInvariant, PTL
=============================================================================
