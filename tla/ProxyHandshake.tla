-------------------------- MODULE ProxyHandshake --------------------------
(***************************************************************************)
(* What a hop says to its proxy: simpleConnect of Socket_Connect_Socks5,   *)
(* Socket_Connect_Socks4 and Socket_Connect_Proxy over a connection that   *)
(* is up, against a proxy that keeps to its protocol and whose bytes       *)
(* arrive one by one, may pause between any two, or stop coming.  Behind   *)
(* the proxy is a destination that may speak first.                        *)
(*                                                                         *)
(* A byte is its value; Data stands for any byte of the destination.  What *)
(* a hop is given fits its d_buffer.                                       *)
(***************************************************************************)
EXTENDS Integers, Sequences, FiniteSetsExt

CONSTANTS
  NameLens,   \* lengths of the names a SOCKS5 proxy reports as its address
  SignBit,    \* 128: from here on a char is negative
  Givens,     \* what hops are given: [name, port, user, pass], strings by their lengths
  MaxData     \* bound on the bytes the destination sends meanwhile

ASSUME HandshakeConstants ==
  /\ SignBit \in 1..128 /\ MaxData \in Nat
  /\ NameLens \subseteq 0..(2 * SignBit - 1)   \* a byte says how long the name is
  /\ Givens \subseteq [name : Nat, port : Nat, user : Nat, pass : Nat]

VARIABLES
  hop,       \* which simpleConnect this is
  given,     \* the destination and the user it was given
  timed,     \* a timeout is set
  step,      \* where it is
  want,      \* how many bytes the read in progress still waits for
  buf,       \* what it has received
  code,      \* reponsecode of the SOCKS5 exchange
  outcome,   \* what simpleConnect returned
  heard,     \* the proxy has a whole request to answer
  told,      \* what it makes of the requests it heard, as far as they went
  granted,   \* the proxy connected the destination
  owed,      \* bytes on their way to the hop
  inq,       \* bytes that arrived and were not received yet
  link,      \* "open", or "closed" by the proxy
  data,      \* how many bytes the destination sent
  cut,       \* a read came back without what it asked for
  overread   \* the hop took a byte of the destination

hopVars   == <<step, want, buf, code, outcome>>
proxyVars == <<heard, told, granted, owed, inq, link, data>>
inputVars == <<hop, given, timed>>
vars      == <<inputVars, hopVars, proxyVars, cut, overread>>

CR == 13
LF == 10
Two == 50     \* the character '2'
Pad == 46     \* a byte nobody looks at
Data == 256
Pads(n) == [i \in 1..n |-> Pad]
-----------------------------------------------------------------------------
(* The requests: after each, the read that follows it.                     *)
Request == [method  |-> [step |-> "readMethod",  want |-> 2],
            auth    |-> [step |-> "readAuth",    want |-> 2],
            connect |-> [step |-> "readHead",    want |-> 2],
            socks4  |-> [step |-> "readReply",   want |-> 8],
            http    |-> [step |-> "readStatus",  want |-> 12]]

Steps == DOMAIN Request \cup {Request[r].step : r \in DOMAIN Request}
           \cup {"start", "readType", "readLen", "readRest", "readHeaders", "done"}

FirstRequest == [socks5 |-> "method", socks4 |-> "socks4", proxy |-> "http"]

(* The fields of a request.  A char keeps a number's low byte.             *)
Base    == 2 * SignBit
Byte(n) == n % Base

AuthBytes(g) == <<1, Byte(g.user)>> \o Pads(g.user) \o <<Byte(g.pass)>> \o Pads(g.pass)

(* Mutant of ConnectBytes: the port is sent low byte first.                *)
ConnectBytesSwapped(g) ==
  <<5, 1, 0, 3, Byte(g.name)>> \o Pads(g.name) \o <<Byte(g.port % Base), Byte(g.port \div Base)>>

ConnectBytes(g) ==
  <<5, 1, 0, 3, Byte(g.name)>> \o Pads(g.name) \o <<Byte(g.port \div Base), Byte(g.port % Base)>>

(* Whatever the port, SOCKS4 asks for 80, at the address of the name.      *)
Socks4Port == 80

(* What the proxy reads in a request: a length says where the next field   *)
(* is.  The HTTP request has host and port in decimal.                     *)
Understood(r, g) ==
  LET a == AuthBytes(g)  c == ConnectBytes(g)
  IN CASE r = "auth"    -> [user |-> a[2], pass |-> a[a[2] + 3]]
       [] r = "connect" -> [name |-> c[5], port |-> c[c[5] + 6] * Base + c[c[5] + 7]]
       [] r = "socks4"  -> [name |-> g.name, port |-> Socks4Port]
       [] r = "http"    -> [name |-> g.name, port |-> g.port]
       [] r = "method"  -> <<>>

(* What is known once more has been said.                                  *)
Learned(new, old) ==
  [f \in DOMAIN new \cup DOMAIN old |-> IF f \in DOMAIN new THEN new[f] ELSE old[f]]

HandshakeInit ==
  /\ hop \in DOMAIN FirstRequest
  /\ given \in Givens
  /\ timed \in BOOLEAN
  /\ step = "start" /\ want = 0 /\ buf = <<>> /\ code = 0 /\ outcome = "none"
  /\ heard = FALSE /\ told = <<>> /\ granted = FALSE
  /\ owed = <<>> /\ inq = <<>> /\ link = "open" /\ data = 0
  /\ cut = FALSE /\ overread = FALSE

End(o)      == step' = "done" /\ outcome' = o /\ want' = 0 /\ UNCHANGED <<buf, code>>
GoOn(s)     == step' = s /\ want' = 0 /\ UNCHANGED <<buf, code, outcome>>
Read(s, n)  == step' = s /\ want' = n /\ buf' = <<>> /\ UNCHANGED <<code, outcome>>
HopOnly     == UNCHANGED <<inputVars, proxyVars, cut, overread>>

(* A bad port, no server name, or (SOCKS4) a name that does not resolve.   *)
Refuse == step = "start" /\ End("fail") /\ HopOnly
Begin  == step = "start" /\ GoOn(FirstRequest[hop]) /\ HopOnly

(* A request is sent.  A send() that was stopped half way returns a        *)
(* positive count and passes for a whole one: the proxy then has nothing   *)
(* to answer yet.                                                          *)
SendRequest ==
  /\ step \in DOMAIN Request
  /\ heard' \in BOOLEAN
  /\ told' = (IF heard' THEN Learned(Understood(step, given), told) ELSE told)
  /\ Read(Request[step].step, Request[step].want)
  /\ UNCHANGED <<inputVars, granted, owed, inq, link, data, cut, overread>>

SendFails == step \in DOMAIN Request /\ End("fail") /\ HopOnly
-----------------------------------------------------------------------------
(* Reads.                                                                  *)

(* Mutant of TakeByte: one byte more than asked for.                       *)
TakeByteOnePast ==
  /\ step # "done" /\ want >= 0 /\ inq # <<>>
  /\ want' = want - 1
  /\ buf' = Append(buf, Head(inq)) /\ inq' = Tail(inq)
  /\ overread' = (overread \/ Head(inq) = Data)
  /\ UNCHANGED <<inputVars, step, code, outcome, heard, told, granted, owed, link, data, cut>>

TakeByte ==
  /\ want > 0 /\ inq # <<>>
  /\ want' = want - 1
  /\ buf' = Append(buf, Head(inq)) /\ inq' = Tail(inq)
  /\ overread' = (overread \/ Head(inq) = Data)
  /\ UNCHANGED <<inputVars, step, code, outcome, heard, told, granted, owed, link, data, cut>>

(* Mutant of CutShort: the loop over the headers goes on.                  *)
CutShortRetries ==
  /\ want > 0 /\ inq = <<>>
  /\ cut' = TRUE
  /\ CASE step = "readLen"     -> Read("readRest", 2)
       [] step = "readRest"    -> Read("readRest", 0)
       [] step = "readHeaders" -> UNCHANGED hopVars
       [] OTHER                -> End("fail")
  /\ UNCHANGED <<inputVars, proxyVars, overread>>

(* A read ends early.  Everywhere but in the SOCKS5 address that is a      *)
(* failure; there the result is not looked at, and a length that was not   *)
(* read is the reserved byte before it, 0.                                 *)
CutShort ==
  /\ want > 0 /\ inq = <<>>
  /\ cut' = TRUE
  /\ CASE step = "readLen"  -> Read("readRest", 2)
       [] step = "readRest" -> Read("readRest", 0)
       [] OTHER             -> End("fail")
  /\ UNCHANGED <<inputVars, proxyVars, overread>>

(* The timeout of the read expires, or the proxy is gone; or a signal      *)
(* interrupts the wait.                                                    *)
ReadFails == (timed \/ link = "closed") /\ CutShort
Signal    == ~timed /\ link = "open" /\ CutShort

ReadDone(s) == step = s /\ want = 0

(* SOCKS5.                                                                 *)
MethodRead ==
  /\ ReadDone("readMethod")
  /\ IF buf[1] # 5 \/ buf[2] = 255 THEN End("fail")
     ELSE GoOn(IF buf[2] = 2 THEN "auth" ELSE "connect")
  /\ HopOnly

AuthRead ==
  /\ ReadDone("readAuth")
  /\ IF buf[2] = 0 THEN GoOn("connect") ELSE End("fail")
  /\ HopOnly

HeadRead ==
  /\ ReadDone("readHead")
  /\ code' = buf[2]
  /\ step' = "readType" /\ want' = 2 /\ buf' = <<>>
  /\ UNCHANGED outcome /\ HopOnly

(* Mutant of AddressSize: the port after the address is forgotten.         *)
AddressSizeNoPort(type) == CASE type = 1 -> 4 [] type = 4 -> 16 [] OTHER -> 0

AddressSize(type) == CASE type = 1 -> 6 [] type = 4 -> 18 [] OTHER -> 0

TypeRead ==
  /\ ReadDone("readType")
  /\ IF buf[2] = 3 THEN Read("readLen", 1) ELSE Read("readRest", AddressSize(buf[2]))
  /\ HopOnly

(* The length is a char: from SignBit on it is negative.                   *)
SignedChar(b) == IF b >= SignBit THEN b - 2 * SignBit ELSE b

LenRead ==
  /\ ReadDone("readLen")
  /\ Read("readRest", Max({0, SignedChar(buf[1]) + 2}))
  /\ HopOnly

(* Mutant of RestRead: reponsecode is not looked at.                       *)
RestReadTrusts == ReadDone("readRest") /\ End("ok") /\ HopOnly

RestRead ==
  /\ ReadDone("readRest")
  /\ End(IF code = 0 THEN "ok" ELSE "fail")
  /\ HopOnly

(* SOCKS4.                                                                 *)
ReplyRead ==
  /\ ReadDone("readReply")
  /\ End(IF buf[1] = 0 /\ buf[2] = 90 THEN "ok" ELSE "fail")
  /\ HopOnly

(* HTTP: the tenth character is that of the status; then everything up to  *)
(* the first LF whose second-last character is an LF.                      *)
StatusRead ==
  /\ ReadDone("readStatus")
  /\ IF buf[10] = Two THEN Read("readHeaders", 1) ELSE End("fail")
  /\ HopOnly

(* Mutant of EndsHeaders: two LFs in a row.                                *)
EndsHeadersAtLFLF(s) == LET n == Len(s) IN s[n] = LF /\ n > 1 /\ s[n - 1] = LF

EndsHeaders(s) == LET n == Len(s) IN s[n] = LF /\ n > 2 /\ s[n - 2] = LF

HeaderRead ==
  /\ ReadDone("readHeaders")
  /\ IF EndsHeaders(buf) THEN End("ok")
     ELSE want' = 1 /\ UNCHANGED <<step, buf, code, outcome>>
  /\ HopOnly
-----------------------------------------------------------------------------
(* The proxy.                                                              *)
Socks5Address ==
  {<<1>> \o Pads(6), <<4>> \o Pads(18)} \cup {<<3, n>> \o Pads(n + 2) : n \in NameLens}
StatusLine(c) == Pads(9) \o <<c>> \o Pads(2)
Headers == {<<CR, LF, CR, LF>>, <<Pad, CR, LF, Pad, Pad, CR, LF, CR, LF>>}

(* What it may answer to the request that the hop waits for an answer to,  *)
(* and which answers connect the destination.                              *)
MethodAnswers == {<<5, 0>>, <<5, 2>>, <<5, 255>>, <<4, 0>>}
AuthAnswers   == {<<1, 0>>, <<1, 1>>}
HeadAnswers   == {<<5, c, 0>> \o a : c \in {0, 5}, a \in Socks5Address}
ReplyAnswers  == {<<v, c>> \o Pads(6) : v \in {0, 4}, c \in {90, 91}}
StatusAnswers == {StatusLine(c) \o h : c \in {Two, Pad}, h \in Headers}

Answers == [readMethod |-> MethodAnswers, readAuth |-> AuthAnswers, readHead |-> HeadAnswers,
            readReply |-> ReplyAnswers, readStatus |-> StatusAnswers]

Grants(s, a) ==
  \/ s = "readHead" /\ a[2] = 0
  \/ s = "readReply" /\ a[1] = 0 /\ a[2] = 90
  \/ s = "readStatus" /\ a[10] = Two

ProxyAnswers ==
  /\ heard /\ step # "done" /\ link = "open"
  /\ heard' = FALSE
  /\ \E a \in Answers[step] : owed' = a /\ granted' = Grants(step, a)
  /\ UNCHANGED <<inputVars, hopVars, told, inq, link, data, cut, overread>>

DestinationSends ==
  /\ granted /\ link = "open" /\ data < MaxData
  /\ owed' = Append(owed, Data) /\ data' = data + 1
  /\ UNCHANGED <<inputVars, hopVars, heard, told, granted, inq, link, cut, overread>>

Arrives ==
  /\ owed # <<>>
  /\ inq' = Append(inq, Head(owed)) /\ owed' = Tail(owed)
  /\ UNCHANGED <<inputVars, hopVars, heard, told, granted, link, data, cut, overread>>

(* The connection breaks; what has not arrived is lost.                    *)
ProxyCloses ==
  /\ link = "open"
  /\ link' = "closed" /\ owed' = <<>> /\ heard' = FALSE
  /\ UNCHANGED <<inputVars, hopVars, told, granted, inq, data, cut, overread>>

HopStep ==
  \/ Refuse
  \/ Begin
  \/ SendRequest
  \/ SendFails
  \/ TakeByte
  \/ ReadFails
  \/ MethodRead
  \/ AuthRead
  \/ HeadRead
  \/ TypeRead
  \/ LenRead
  \/ RestRead
  \/ ReplyRead
  \/ StatusRead
  \/ HeaderRead

HandshakeNext ==
  \/ HopStep
  \/ Signal
  \/ ProxyAnswers
  \/ DestinationSends
  \/ Arrives
  \/ ProxyCloses

(* The hop goes on whenever it can; the proxy owes nothing.                *)
HandshakeSpec == HandshakeInit /\ [][HandshakeNext]_vars /\ WF_vars(HopStep)
-----------------------------------------------------------------------------
HandshakeTypeOK ==
  /\ hop \in DOMAIN FirstRequest
  /\ given \in Givens
  /\ DOMAIN told \subseteq {"name", "port", "user", "pass"} /\ \A f \in DOMAIN told : told[f] \in Nat
  /\ timed \in BOOLEAN
  /\ step \in Steps
  /\ want \in 0..18 \/ \E n \in NameLens : want \in 0..(n + 2)
  /\ buf \in Seq(0..Data)
  /\ code \in 0..255
  /\ outcome \in {"none", "ok", "fail"}
  /\ heard \in BOOLEAN /\ granted \in BOOLEAN
  /\ owed \in Seq(0..Data) /\ inq \in Seq(0..Data)
  /\ link \in {"open", "closed"}
  /\ data \in 0..MaxData
  /\ cut \in BOOLEAN /\ overread \in BOOLEAN

(* No hop takes a byte that the destination sent, however early it speaks  *)
(* and wherever a read is cut short: the caller gets the whole of it.      *)
NoOverread == ~overread

(* A hop reports success only if the proxy connected the destination, a    *)
(* request that was sent in part and taken for sent included.              *)
SuccessIsGranted == outcome = "ok" => granted

(* When a SOCKS5 or HTTP hop reports success, the destination its proxy    *)
(* was asked for is the one the hop was given, host and port, and so are   *)
(* the user and password it authenticated with, whichever of the requests  *)
(* went out in part.                                                       *)
ProxyToldDestination ==
  outcome = "ok" /\ hop # "socks4" =>
    /\ {"name", "port"} \subseteq DOMAIN told
    /\ \A f \in DOMAIN told : told[f] = given[f]

OnlyDataLeft == \A i \in DOMAIN (inq \o owed) : (inq \o owed)[i] = Data

(* If no read was cut short, success leaves nothing of the proxy's reply   *)
(* for the next hop, the TLS handshake or the caller to stumble over.      *)
ReplyConsumed == outcome = "ok" /\ ~cut => OnlyDataLeft

(* The comment in Socket_Connect_Socks5 before it reads the address: "now  *)
(* we need to read in the rest of the server's response data".             *)
RestOfReplyRead == outcome = "ok" => OnlyDataLeft

(* With a timeout set, or once the proxy is gone, simpleConnect returns.   *)
HandshakeReturns == (timed \/ link = "closed") ~> (outcome # "none")
=============================================================================
