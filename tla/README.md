# A TLA+ development of rudesocket

rudesocket is a C++ client-socket library: a `rude::Socket` connects to a server, directly or
through a chain of tunnels, SOCKS4, SOCKS5 and HTTP proxies, talks over the connection in the
clear or over TLS, and can turn the first into the second (`startSSL`, for STARTTLS protocols).
The code is sequential: one object, one caller. What is hard about it is around that caller: the
order of its calls, the peer that closes, resets, pauses or dribbles between any two bytes, and
the rest of the process, which is handed the descriptor numbers this object has given up.

Line numbers below are those of the files under `src/src/`.

## 1. Inventory

| component | state | operations |
|---|---|---|
| `Rude_SocketImpl` (`rude_socketimpl.cpp`) | `d_lastconnect` (head of the hops), `d_lastserver`, `d_sslverify`, `d_sslerror`, the client | `connect`, `connectSSL`, `startSSL`, `insert*`, `setTimeout`, `setSSLVerify`, `getError`, and forwarding to the client |
| `Socket_TCPClient` (`socket_tcpclient.cpp`) | `d_sock`, `d_comm`, `d_connection`, timeout, `d_error`, `d_readbuffer` | `setConnection`, `setComm`, `connect`, `startSSL`, `send`, `sends`, `read`, `reads`, `readline`, `close`, destructor |
| `Socket_Connect` (`socket_connect.cpp`) | `s_nextchild` (owned), server, port, timeout, error | `connect` (recursive), `setChild`, `setTimeout`, destructor |
| `Socket_Connect_Normal` | nothing of its own | `simpleConnect`, `connecttimeout` |
| `Socket_Connect_Socks4/5`, `_Proxy`, `_Tunnel` | a `Socket_Comm_Normal`, user name, password | `simpleConnect` |
| `Socket_Comm` (`socket_comm.cpp`) | `d_sock` (0: unbound), timeout, error | `bind`, `finish`, `send`, `read`, `setTimeout` |
| `Socket_Comm_Normal` | none | `virtualsend`, `virtualread`: one byte per `select`/`recv`/`send` |
| `Socket_Comm_SSH` | `ctx`, `ssl`, host name, verify flag | `virtualbind` (handshake), `virtualsend`, `virtualread`, `virtualfinish` |
| `rude::Socket` (`socket.cpp`) | a `Rude_SocketImpl *` | forwarding |
| `socket_platform.h` | none | type names, includes |

**Interaction.** A `connect` call creates a `Socket_Connect_Normal` with the hops as its children,
installs it in the client (which deletes the previous one), creates a comm and installs that
(which deletes the previous one), walks the chain (the first stage opens the descriptor, every hop
talks over it through a comm of its own) and binds the comm to the descriptor; binding a TLS comm
is the handshake. Errors are copied up: from comm or chain to the client, from a child to its
parent, and `d_sslerror` of the implementation goes before the client's error.

**What is hard**, and what makes each part correct:

* the chain: who owns a hop, and who deletes it; a timeout set before or after an insert or a
  connect reaches every object; a connect passes all hops, in the order the caller gave them, or
  stops at the one that failed;
* the client: `d_sock`, the comm's descriptor and the process' table must agree over every
  sequence of calls and every way a handshake or a hop can fail, while numbers are reused by the
  rest of the program; nothing is leaked, nothing of somebody else is closed or written to, TLS
  never falls back to cleartext;
* the whole Socket: the name a certificate is checked against is that of the host the descriptor
  leads to, even when a `connect` in between was refused; a failure has a description;
* the data calls: exact counts, lines that end where they should, no byte lost or invented when
  the peer goes away in the middle, an end for every loop;
* the timed connect and the TLS loops: the descriptor's mode and `errno` are shared by every system
  call on the way and have to be put back, one deadline has to hold whatever the peer dribbles in,
  and `select` does not know what OpenSSL has in its buffers.

The list of hazards, at their lines, is in `PROJECT.json`.

## 2. Modules

| module | what it is |
|---|---|
| `SocketShared` | the two variables both components of a Socket read: the timeout and "destroyed" |
| `ConnectChain` | `Socket_Connect` objects, their children, deletion, timeouts, and the walk of `connect` |
| `TcpClient` | `Socket_TCPClient` with its `Socket_Comm`, TLS objects and the process' descriptor table |
| `SocketSession` | abstract: the life of a connection, in six states |
| `ClientSession` | the refinement mapping from `TcpClient` to `SocketSession` |
| `RudeSocket` | `Rude_SocketImpl`: chain and client composed, plus its own fields |
| `PlainStream` | `read`, `reads`, `readline`, `send`, `sends` over `Socket_Comm_Normal`, against a peer |
| `ProxyHandshake` | the SOCKS5, SOCKS4 and HTTP exchanges of a hop, against a proxy and a destination |
| `TimedDescriptor` | what the next two share: the timeout, the descriptor's mode, the timer |
| `TimedConnect` | `simpleConnect` and `connecttimeout` of `Socket_Connect_Normal`, call by call |
| `TlsStream` | the loops of `Socket_Comm_SSH`, against OpenSSL, the kernel and a peer |
| `TlsConnection` | the two above composed: connect, bind, read, send, close, and again |
| `ConnectChainProofs`, `TcpClientProofs`, `ClientSessionProofs`, `RudeSocketProofs`, `PlainStreamProofs`, `ProxyHandshakeProofs`, `TlsConnectionProofs` | the theorems about the modules they are named after |
| `MC*` | the modules TLC runs |

An operator whose comment begins with "Mutant of" is a plausible bug in the operator it names; it
is used only to show that a property notices it.

### ConnectChain

Objects are numbered in the order they are created (`count`), so "inserted before" is `<`. `kind`,
`s_nextchild` and `connTimeout` are their fields, `freed` the ones deleted, `undef` whether a
deleted one was used (undefined behaviour: nothing further is specified after it). `Insert` is the
four `insert*` functions, which differ in the class only. `Install` is `connect` up to the walk:
new `Socket_Connect_Normal`, `setChild`, `setConnection` with its delete and its `setTimeout`. `at`
is the object whose `simpleConnect` runs; `StageOk` and `StageFail` are its outcomes, and a tunnel
cannot fail. `reached` records the hops in the order they were connected to.

The constant `OneShot` describes the caller: TRUE means that it does not call `connect` again once
a connection with hops is installed, the only use the ownership of the hops allows (§5).

### TcpClient

`fds` is the process' descriptor table: each number is free, ours (`"lib"`) or another's. `socket()`
gives the lowest free number; `ProgramOpens` and `ProgramCloses` are the rest of the program, at any
moment, between the stages of a `connect` too. A comm is a record; a new comm, a bind, a handshake
and a finish are functions from record to record. `HandshakeEnds` are the ways `virtualbind` can
leave `ctx` and `ssl`. `upgradeFailed`, `owesClose`, `tlsAsked`, `peer` and `stray` are history: the
library does not have them.

`connect` takes several steps (`BeginConnect`, open, relay, bind). All other calls are one step, as
nothing inside them depends on what the program does meanwhile; the data calls are taken apart in
`PlainStream`. `TransferNothing` is the timed `send` or the `read` of length 0, which returns 0 and
takes over the comm's error, empty or not. `close()` never reads `shutdown`'s or `close`'s result,
and neither does the model.

Three constants describe the caller and the program: `CloseRule` (does it call `close` before it
connects again: always, only where the connect had succeeded, as in the example of `socket.h`, or
never), `StdinHeld` (descriptor 0 stays taken) and `StopAfterFail` (nothing is sent or read after a
failed `startSSL`, which NEWS says ends the connection).

### SocketSession and ClientSession

`SocketSession` says what a disciplined caller may rely on: a connection is closed, connecting, in
the clear, secure or broken (up, but good for nothing except `close`), and the Socket may be gone;
`held` are its descriptors: at most one, from the moment it is opened to the `close`, the failed
`startSSL` or the destructor. `ClientSession` reads the state off `pc`, `d_sock` and the comm
(`SessionState`) and `held` off the descriptor table, and `ImplementsSession` is the abstract
specification under that mapping. It fails for callers that connect again without `close`
(`client_retry` is the shortest case), so it is checked with `CloseRule = "always"`.
`Mend` is a surprise of the code that the abstract specification has to admit: a handshake that
timed out leaves the SSL object bound, and a later `read` or `send` finishes it.

### RudeSocket

Every action is the conjunction of one action of `ConnectChain`, one of `TcpClient` and what
`Rude_SocketImpl` does itself, so each component is stated once; that the composition implements
both component specifications follows from this form, and is a lemma of the proofs, not a property.
`withSSL` is the build option `USING_OPENSSL`: a behaviour has one build from its first state on,
and the run has both. `blame`, of the chain, is the object whose error a failed connect reports. The
calls of a connect have no fairness here: a stage without a timeout may wait for ever.

### PlainStream

`inq` is what the kernel has received, `outq` what it holds for the peer. Every `recv`, `send` and
expiry of `select` is a step, and between any two of them the peer may send, read, close or reset. A
reset is reported once as an error and afterwards as the end of the stream, as the kernel does; a
signal may interrupt a wait (`Interrupted`) and never has to. Time is abstract: a `select` with a
timeout may expire whenever it has nothing to report. A byte is `"a"`, `"CR"`, `"LF"` or `"NUL"`,
which is all that the code tells apart.

### ProxyHandshake

One `simpleConnect` of a SOCKS5, SOCKS4 or HTTP proxy hop over a connection that is up. A `step` is
a request to be sent or a read in progress, `want` the bytes it still waits for. The proxy keeps to
its protocol: it answers a whole request once, with any of the replies the code distinguishes; its
bytes (`owed`) arrive one at a time, and once it has connected the destination, that may speak too.
A read is cut short by a timeout, by the end of the connection or by a signal, anywhere. A send that
stopped half way is taken for a whole one, as in the code; the proxy then has nothing to answer.
Of the requests the fields are modelled whose encoding can go wrong: lengths and ports, cut to bytes
on the hop's side (`AuthBytes`, `ConnectBytes`), found by position on the proxy's (`Understood`).
A name is its length. What a hop is given fits its `d_buffer`. `RudeSocket` uses the hops by
their two outcomes only, success and failure, which are the values of `outcome`.

### TimedConnect

One `simpleConnect` with a port and a server, from `socket()` to its return; `cpc` is the call it is
at. `syn` is how far the kernel is, and `NetworkAnswers` may come at any moment, after `select` gave
up too. `errno` has the value the last failing call gave it, `cause` is history: what failed first,
which no later failure replaces (`Blames`); it is `"EMFILE"` from `socket()` on when that returned
-1. `fcntl`, `getsockopt` and `select` may fail. `Milliseconds` is the code's arithmetic in two's
complement of width `2 * IntHalf`; negative, `select` refuses it with EINVAL.

### TlsStream

One `virtualbind`, `virtualread`, `virtualsend` or `virtualfinish` at a time; `tpc` is where the
loop is (deadline check, `select`, inside OpenSSL, after a WANT, the untimed wait). `Enter` and
`Leave` are the constructor and the destructor of `NonBlockingScope`, which every call and every one
of its returns passes; both may meet a failing `fcntl` (`modeLost` records the second). OpenSSL is
what the code uses of it: it takes records one at a time, continues a handshake from any of its
calls, keeps decrypted bytes (`pend`) and a half-sent message (`wleft`), refuses a write that is no
retry of it (it compares the buffer's address and the length, `same`), comes back with a WANT on a
non-blocking descriptor and waits in the kernel on a blocking one. The peer sends data, tickets,
renegotiation requests, handshakes good and bad, close_notify; it reads, closes or resets. What
arrives while a call on a non-blocking descriptor is inside OpenSSL counts as arriving after it: the
peer is not infinitely faster than the machine.

### TlsConnection

`TimedConnect`, then `TlsStream` on the descriptor it handed over, then `close`, any number of times,
with `setTimeout` between the calls. One clock (`Tick`) runs both timers. The plain data calls are in
`PlainStream`, other ways to open and lose descriptors in `TcpClient`.

## 3. Runs

| run | asks | result |
|---|---|---|
| `chain_oneshot` | all chain properties, callers with `OneShot` | hold |
| `chain_order` | are hops followed in the order they were inserted (README.md:150)? | **no** |
| `chain_reuse` | may a Socket with hops connect again (socket.h:149)? | **no** |
| `client_any_caller` | descriptor, comm and TLS objects, calls in any order, except that nothing is sent or read after a failed `startSSL` | hold |
| `client_disciplined` | for a caller that always closes: no leak, and the client implements `SocketSession` | hold |
| `client_retry` | does the destructor release everything (socket.h:314) for the caller of the example? | **no** |
| `socket_calls` | both builds, calls in any order: TLS name, timeouts, binding, every failure described | hold |
| `stream_calls` | exactness, line framing, end of stream, retry, progress | hold |
| `stream_partial_send` | does `sends()` true mean sent (socket.h:279)? | **no** |
| `proxy_reply` | what a hop has read when it reports success, what its success means, what the proxy was told, that it returns | hold |
| `proxy_leftover` | is the rest of the SOCKS5 reply read (`socket_connect_socks5.cpp:295`)? | **no** |
| `timed_tls` | timed connect and TLS calls: mode, `errno`, deadlines, data at the end and under a timeout | hold |

**Bounds.** `MaxObjs` 5 in `chain_oneshot` leaves room for four hops and a connection, or for
several connects with a hop between them; ownership and the walk depend only on neighbours in the
chain, and the theorems cover every length. `MaxFd` 2 gives two descriptors besides 0: one the
Socket holds and one that it lost, or that somebody else took over, which is what all descriptor
properties are about. Timeouts 0 and 7 are "none" and "some". `h1`, `h2` and `NoHost` are enough to
tell a right name from a stale one. `socket_calls` has three connect objects (a hop between two
connects, or two hops and a connect) and one descriptor besides 0: longer chains are the business of
`chain_oneshot`, lost and reused descriptors that of `client_any_caller`. `MaxIn` 3 bytes: every
terminator needs at most two, so there is one before or after it. `MaxLen` 2 and `SendBuf` 1: a send
that fits and one that has to wait half way. In `ProxyHandshake` the names a SOCKS5 proxy reports
are 0 or 3 bytes long and a `char` turns negative at `SignBit` 4 instead of 128, so that the longest
name that still works is among them; `MaxData` 2 lets the destination be read past by one byte and
by two. The two inputs in `MCGivens` have a port of two different bytes, and lengths beyond
`SignBit`. In `timed_tls` a second has 8 milliseconds, a millisecond 2 microseconds and an `int`
goes to 127: the timeouts are none, one the conversion loses, an ordinary one, and one that
overflows; `Ticks` 1 makes a timer running or expired, which is all the code asks. `RecSize` 2
leaves decrypted bytes behind a short read, `InCap` 2 a record behind another, and `MsgUnits` 2 with
`OutCap` 1 makes every send stop half way. The descriptor number 0 is free at times in
`client_any_caller` and `socket_calls`, so that the code meets it.

**Deadlock** is checked in `timed_tls`. In the others it is not: the caller may stop, and after the
destructor nothing follows.

**Fairness.** The chain, the client and their composition have none: without a timeout a stage of a
`connect` may wait for ever, and nothing is claimed about its end there. In `PlainStream` only a
call's own enabled steps are fair (`WF(CallStep)`): the peer owes nothing and signals need not come,
so a call that waits for them without a timeout may wait for ever, and `TimedCallsReturn` claims
nothing for it. `ProxyHandshake` is the same: `WF(HopStep)` for the hop's own steps, nothing for the
proxy and the network. In `TlsConnection` the steps of a call that need nobody else (the resolver
among them: it is assumed to answer), the end of a `close` in progress that nothing holds up
(`CloseGoesOn`), and the clock are fair; network, peer, signals and `fcntl`'s mercy are not.
`ConnectTimeoutHonoured` therefore claims a return only for a timeout that reaches `select` as one,
and `TlsCallsReturn` only where the descriptor could be made non-blocking, or once the connection is
reset. The caller is never assumed to call anything.

## 4. Proofs

The `*Proofs` modules are checked by TLAPS, for every value of the constants that satisfies the
named assumptions of the modules. Every invariant, action property and refinement that a passing
run checks is also the statement of a theorem; what is left to TLC is liveness. The inductive
invariants named below were also checked by TLC, on the bounds of the runs.

| hypothesis of a theorem | where | why |
|---|---|---|
| `OneShot` | `OneShotIsSafe` | the ownership of hops allows no second connect (`chain_reuse`) |
| `StopAfterFail` | `NeverStray` | a failed bind keeps the descriptor's number (§5) |
| `CloseRule = "always"`, `StdinHeld` | `NeverLeaks`, `ClientImplementsSession` | `client_retry`, and descriptor 0 taken for none |
| `NamesShort` | `ReplyAlwaysConsumed` | a name's length is read as a signed `char` (§5) |
| `GivensFit` | `DestinationAlwaysTold` | a length is sent as one byte, a port as two; the lengths fit because `d_buffer` has 200 bytes, the port is the caller's |

`ConnectChainProofs`. The base is `ChainInv`: the types, and `Shape`, which says that a child is
always a hop, older than its parent, and that only created objects are linked. `Below`, what a
delete or a `setTimeout` reaches by recursion, is defined as a smallest closed set; four lemmas
are all the proofs use of it: it is inside every closed set that holds its top (`BelowInside`), it
holds its top (`BelowTop`), it is closed (`BelowClosed`), and a new object leaves it as it was
(`BelowFrame`).
`ChainTypeCorrect` is its corollary; as that and `ClientTypeCorrect` below are
proved, no run repeats them. The other theorems each add an invariant:

* `OneShotIsSafe` (assumes `OneShot`): `FreedAreOldConnections`, what is freed is always an old
  connection without hops, so that no hop is ever freed before the end. `NoDanglingUse` alone says
  nothing of the objects that a later `connect` will take over, and is not inductive.
* `TimeoutReaches`: inductive with `ChainInv`.
* `DestroyFrees`: `OldConnectionsFreed`, every connection but the installed one is freed already.
* `RouteIsComplete` (every hop, none twice) and `FailureStops`: `Gapless` (the hops below a
  connection are exactly the hops older than it) and `Walk` (what was reached is exactly the hops
  from the top down to `at`).

`TcpClientProofs`. `ClientInv` joins the types with the relations between `d_sock`, the comm's
descriptor, the table and the progress of a connect (`InProgress`, `AfterFailedUpgrade`): none of
`SockIsOurs`, `CommFollowsSock`, `TlsReleasable`, `NoCleartextAfterTls` is inductive alone, because
a bind in the middle of a `connect` depends on what the earlier stages left. From it: the type
theorem, `NeverClosesOthers`, `TlsAlwaysReleasable`, `CommUsesSock`, `NeverBackToCleartext`, and
`NeverStray` for a caller with `StopAfterFail`. `NeverLeaks` adds `OnlySockHeld` and assumes
`CloseRule = "always"` and `StdinHeld`; `client_retry` shows that the first is needed.

`ClientSessionProofs`. `ClientImplementsSession` is the refinement `ImplementsSession`: under the
mapping of `ClientSession` the initial states are initial, and each action of the client is one
action of `SocketSession` or a stutter. It needs `ClientInv` and `OnlySockHeld`, because `held` is
read off the whole descriptor table while the client only knows `d_sock`, and `SessionFacts`: a plain
comm has no TLS objects, and no connect is in progress on a destroyed Socket.

`RudeSocketProofs`. The lemma `SocketUsesComponents` says that every step of the composition is a
step of `ConnectChain` and of `TcpClient` or leaves them alone. With it the component theorems hold
inside a Socket (`ComponentsKeepTheirPromises`) without being proved again. The rest follows from
`SocketInv`. `BoundOnlyWhenRouted` needs `WalkedWhenBinding`, since the bind comes one step after
the walk. `TlsNamesDestination` is about a comm that is bound, and is made true long before: the
name is taken from `d_lastserver` by a `connectSSL` that has no descriptor yet, or by a `startSSL`
on a connection that an earlier `connect` made. `NameOfTarget` and `NameOfPlain` carry it there: a
connect in progress goes to `d_lastserver`, and a plain comm that could be upgraded leads to it.
`FailureAlwaysDescribed` has `ErrorInv`, and goes through the errors of the client case by case; its
one exception, a connect that a SOCKS5 hop stopped, is in the property itself (§5).

`PlainStreamProofs`. `CallInv` says of a call in progress what the properties say of a finished
one: `text` is what `read` took, as long as its counter (`ReadSoFar`); `readline` has not met an end
of line, and `lastc` is the last byte taken (`NoEndOfLineYet`); what it kept is what it took without
CR and LF (`LineSoFar`). The last is stated by an increasing map of positions
(`IsWithoutLineEnds`), not by a recursive filter, which the prover could not reason about. It is
stronger than `LineKeepsData`, which leaves the CRs and LFs inside a line open, and implies it
(`LineWithoutTerminator`).

`ProxyHandshakeProofs`. The argument counts bytes. `HandshakeInv`: the hop has taken the
first `k` bytes of one answer `a` and the rest of `a` is ahead of it, in `inq` or in `owed`,
followed by nothing but data of the destination (`Follows`); the read in progress ends within `a`
(`k + want <= Len(a)`); and each read is about a known place in `a` (`Place`). `NoOverread`
follows from the second, `SuccessIsGranted` from what `Place` says of the bytes the hop looks at, and
`ReplyConsumed` from the last read ending where `a` does. The lemmas about the answers say that
a SOCKS5 address has the length its type byte or length byte announces, and that an HTTP head ends
at the first LF with an LF two before it. `DestinationAlwaysTold` adds `ToldInv`: the steps belong
to the protocol of the hop, the proxy grants only after it heard a request with a destination, and
what it heard so far is what the hop was given; `AuthFields` and `ConnectFields` say that the
proxy finds every field where the lengths put it. `HandshakeTypeCorrect` takes its bound on `want`
from `HandshakeInv`: the length the hop goes by is one the proxy announced.

`TlsConnectionProofs`. The types and `SendsAccounted` are inductive together, because the arithmetic
of a send that stopped half way keeps `wleft` in its range. `ConnectInv` follows a `simpleConnect`
from call to call: what its earlier calls have established (`ConnectProgress`), and that a verdict
has its connection, or its cause still in `errno`, when the mode is put back (`ConnectVerdict`),
unless `socket()` had failed; from it `ErrorNamesCause` and the action property `HandsOver`.
`ModeRestored` holds of a Socket at rest and needs `ModeKept`: what a call in progress did to the
mode is undone by what its `NonBlockingScope` remembers. `ReadInv` adds `SelectsWithoutPending` for
the timeouts and `ByeIsLast` for the end of the stream: a close_notify is the last record there is.

Checked by TLC only: liveness (`TimedCallsReturn`, `LoopEnds`,
`HandshakeReturns`, `ConnectTimeoutHonoured`, `TlsCallsReturn`), which the prover does not do. The
five runs that show a disagreement are counterexamples, and need no proof.

## 5. Where the code and its documents disagree

* A second `connect` on a Socket with hops deletes the hops it is about to use: each
  `Socket_Connect_Normal` owns the chain it was given, and all are given the same. `chain_reuse`.
* Hops are followed in the reverse order of insertion, though README.md:150 says "in the order they
  were inserted" and `socket.h:223` that a new hop becomes the last of the chain: it becomes the
  parent of the earlier ones (`rude_socketimpl.cpp:172`), and the walk goes from parent to child.
  `chain_order`; `RouteThroughAllHops` claims only that every hop is passed, and once.
* A `connect` that fails after TCP was up leaves `d_sock` set; the next `connect` overwrites it.
  `client_retry`.
* `sends` returns true for a string sent in part. `stream_partial_send`.
* A SOCKS5 hop does not look at the results of the reads of the proxy's address: cut short there, it
  reports success and leaves the rest of the reply to be taken for data. `proxy_leftover`.

Noted without a run:

* `readline` drops every CR and LF of a line, also those inside it (`socket_tcpclient.cpp:281`),
  though README.md:140 says that it "returns the line without the terminator" and the comment at 268
  that it "discards crlf"; a last line of nothing else comes back as NULL.
  `LineKeepsData` does not promise more than the bytes that are neither;
* a NUL ends a line (`socket_tcpclient.cpp:285`) and a `reads()` (237), where README.md:140-141 speaks
  of CRLF and of the peer's close only; `LineFraming` has it from the code;
* an `fcntl` that fails while it puts the mode back after a timed connect replaces the error found
  before, or the timeout (`socket_connect_normal.cpp:304-307`), though the comment at 298-301 calls
  "the diagnosis we just made" more useful and NEWS:101 says that `errno` is preserved; exempted by
  `ErrorNamesCause` as `cerror = "EIO"`;
* a failing `socket()` is reported as the EBADF of a later call, or as what the resolver said
  (`socket_connect_normal.cpp:346`); exempted by `ErrorNamesCause` as `cause = "EMFILE"`;
* a timed `send` and a `read` of length 0 return 0, which elsewhere is the peer's close, with the
  comm's error, which may be empty (`socket_tcpclient.cpp:191`, 209). `TransferNothing` counts as no
  failure;
* after a TLS send that timed out, another message of the same length in the same buffer passes
  OpenSSL's check for the rest of the first (`socket_comm_ssh.cpp:286`);
* a timeout below a millisecond is no timeout for `connect` (`socket_connect_normal.cpp:405`), though
  it is one for reads and sends, and the README says that `setTimeout` applies to all three;
* `SSL_shutdown` in `close` and in the destructor has no timeout (`socket_comm_ssh.cpp:333`);
* `read` over TLS returns what one `SSL_read` gives, over a plain connection the length
  asked for, which is what README.md:142 says of both ("reads an exact byte count");
* a failed bind leaves the comm bound (`socket_comm.cpp:127`), though NEWS:65 and
  `test_ssl_upgrade.cpp:18` say that it is unbound. Nothing is sent by the destructor then (the
  session is not up), which is part of `NeverStray`, but a `send` after a failed `startSSL` goes to
  whoever has the number now: why `StopAfterFail` is there;
* `read` returns 0 for an end of the stream after some bytes (`socket_comm_normal.cpp:262`), and
  nothing says how many are in the buffer;
* descriptor 0 is taken for a failure of `socket()` (`socket_connect_normal.cpp:347`);
* the SOCKS5 hop fails without an error when the method reply cannot be read
  (`socket_connect_socks5.cpp:142`, the one exception of `FailureDescribed`), and reads
  too little of a reported name of 128 bytes and more (308, why `NameLens` stays below `SignBit`);
* the SOCKS4 hop asks for port 80 whatever port it was given (`socket_connect_socks4.cpp:122`);
* in a build without OpenSSL `d_sslerror` hides later errors (`rude_socketimpl.cpp:101`).

## 6. Not modelled, and the plan

Not modelled: Windows (Winsock error texts, `WSAStartup`), message callbacks and wording,
`FD_SETSIZE`, SIGPIPE, proxies that break their protocol, certificate verification itself
(OpenSSL's), the resolver beyond its success or failure, tests, examples, build. The headers declare
what the modelled files define.

Left open, in this order:

1. more of what is proved about the components, inside the Socket: `CommFollowsSock` and
   `NoDanglingUse` under the hypotheses of their theorems, and that a disciplined Socket implements
   `SocketSession`;
2. that `ProxyHandshake` implements the stages of `ConnectChain`, which takes from it only success
   and failure;
3. a variant of each timed loop, as far as it can be said without fairness: the number of steps left
   before a timed call has to return.
