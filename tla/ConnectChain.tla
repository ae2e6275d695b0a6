---------------------------- MODULE ConnectChain ----------------------------
(***************************************************************************)
(* The connect chain of one rude::Socket: the Socket_Connect objects, who  *)
(* owns whom, the timeouts pushed down the chain, and the walk down the    *)
(* chain that Socket_Connect::connect performs.                            *)
(*                                                                         *)
(* Every Socket_Connect, whether the Socket_Connect_Normal that each       *)
(* connect() allocates or a hop that an insert*() allocates, is one object *)
(* of a heap whose addresses are 1..MaxObjs, handed out in order.  NULL is *)
(* the null pointer.                                                       *)
(***************************************************************************)
EXTENDS SocketShared, Sequences

CONSTANTS
  MaxObjs,    \* bound on the Socket_Connect objects a behaviour allocates
  HopKinds,   \* the kinds of hop the caller inserts
  OneShot     \* TRUE: the caller never connects again once a connect used hops

ASSUME ChainConstants ==
  /\ MaxObjs \in Nat
  /\ HopKinds \subseteq {"tunnel", "socks4", "socks5", "proxy"}
  /\ OneShot \in BOOLEAN

VARIABLES
  kind,           \* the class of each object; "none" where nothing is allocated
  s_nextchild,    \* Socket_Connect::s_nextchild of each object
  connTimeout,    \* d_timeoutsecs/d_timeoutmicrosecs of each object
  count,          \* objects allocated so far
  freed,          \* objects deleted so far
  d_lastconnect,  \* Rude_SocketImpl::d_lastconnect
  d_connection,   \* Socket_TCPClient::d_connection
  at,             \* the object whose simpleConnect runs; NULL between calls
  reached,        \* the hops reached by the connect() in progress, or the last
  outcome,        \* how the last connect() ended
  blame,          \* the object whose error the last failed connect() reports
  undef           \* a deleted object was used: anything may happen from here on

heapVars  == <<kind, s_nextchild, count, d_lastconnect>>
walkVars  == <<at, reached, outcome, blame>>
chainVars == <<kind, s_nextchild, connTimeout, count, freed, d_lastconnect,
               d_connection, timeout, at, reached, outcome, blame, undef, gone>>

NULL == 0
Objs == 1..MaxObjs
Hops == {o \in Objs : kind[o] \in HopKinds}
-----------------------------------------------------------------------------
(* What a delete of o destroys and a setTimeout on o reaches: o and every  *)
(* object below it, the smallest set that holds o and is closed under the  *)
(* child pointers.                                                         *)
Below(child, o) ==
  {p \in Objs : \A S \in SUBSET Objs :
      /\ o # NULL => o \in S
      /\ \A q \in S : child[q] # NULL => child[q] \in S
      => p \in S}

ChainInit ==
  /\ kind = [o \in Objs |-> "none"]
  /\ s_nextchild = [o \in Objs |-> NULL]
  /\ connTimeout = [o \in Objs |-> 0]
  /\ count = 0
  /\ freed = {}
  /\ d_lastconnect = NULL
  /\ d_connection = NULL
  /\ timeout = 0
  /\ at = NULL
  /\ reached = <<>>
  /\ outcome = "none"
  /\ blame = NULL
  /\ undef = FALSE
  /\ gone = FALSE

(* The caller has control: the object exists, no connect() is running.     *)
ChainIdle == at = NULL /\ ~undef /\ ~gone

(* new Socket_Connect_*(): zero timeout, and child as its s_nextchild.     *)
NewConnect(k, child) ==
  /\ count < MaxObjs
  /\ count' = count + 1
  /\ kind' = [kind EXCEPT ![count + 1] = k]
  /\ s_nextchild' = [s_nextchild EXCEPT ![count + 1] = child]

(* Mutant of Insert: the new hop does not take the chain as its child.     *)
InsertDropsChain(k) ==
  /\ ChainIdle
  /\ NewConnect(k, NULL)
  /\ d_lastconnect' = count + 1
  /\ UNCHANGED <<connTimeout, freed, d_connection, timeout, walkVars, undef, gone>>

(* insertTunnel, insertSocks4, insertSocks5, insertProxy: the new hop takes *)
(* the whole chain as its child.                                           *)
Insert(k) ==
  /\ ChainIdle
  /\ NewConnect(k, d_lastconnect)
  /\ d_lastconnect' = count + 1
  /\ UNCHANGED <<connTimeout, freed, d_connection, timeout, walkVars, undef, gone>>

(* The mistake of handing the chain over twice is only made when the chain *)
(* the last connect() installed is not empty.                              *)
ChainReusable == d_connection # NULL => s_nextchild[d_connection] = NULL

(* connect() up to the first simpleConnect: a new Socket_Connect_Normal    *)
(* takes d_lastconnect as its child, setConnection deletes the previous    *)
(* connection with everything below it, installs the new one and pushes    *)
(* the timeout down its chain.                                             *)
Install ==
  /\ ChainIdle
  /\ OneShot => ChainReusable
  /\ NewConnect("normal", d_lastconnect)
  /\ LET deleted == Below(s_nextchild, d_connection)
         pushed  == Below(s_nextchild', count + 1)
     IN  /\ freed' = freed \cup deleted
         /\ connTimeout' = [o \in Objs |-> IF o \in pushed THEN timeout
                                                           ELSE connTimeout[o]]
         /\ undef' = (deleted \cap freed # {} \/ pushed \cap freed' # {})
  /\ d_connection' = count + 1
  /\ at' = count + 1
  /\ reached' = <<>>
  /\ outcome' = "none"
  /\ blame' = NULL
  /\ UNCHANGED <<d_lastconnect, timeout, gone>>

(* simpleConnect of the current object succeeds: it connected to its       *)
(* child's address, and the child goes on from there; or it had no child   *)
(* and connected to the destination.                                       *)
StageOk ==
  /\ at # NULL /\ ~undef
  /\ at' = s_nextchild[at]
  /\ IF s_nextchild[at] # NULL
     THEN reached' = Append(reached, s_nextchild[at]) /\ outcome' = outcome
     ELSE reached' = reached /\ outcome' = "up"
  /\ UNCHANGED <<heapVars, connTimeout, freed, d_connection, timeout, blame, undef, gone>>

(* Mutant of StageFail: the child is called before the result is looked at.*)
StageFailLate ==
  /\ at # NULL /\ ~undef
  /\ kind[at] # "tunnel"
  /\ at' = NULL
  /\ reached' = IF s_nextchild[at] # NULL THEN Append(reached, s_nextchild[at]) ELSE reached
  /\ outcome' = "failed"
  /\ blame' = at
  /\ UNCHANGED <<heapVars, connTimeout, freed, d_connection, timeout, undef, gone>>

(* Mutant of StageFail: a failed connect() deletes the connection it used. *)
StageFailDeletes ==
  /\ at # NULL /\ ~undef
  /\ kind[at] # "tunnel"
  /\ at' = NULL
  /\ outcome' = "failed"
  /\ blame' = at
  /\ freed' = freed \cup Below(s_nextchild, d_connection)
  /\ UNCHANGED <<heapVars, connTimeout, d_connection, timeout, reached, undef, gone>>

(* simpleConnect of the current object fails; its error is copied up the   *)
(* chain by every caller.  A tunnel has nothing to do and cannot fail.     *)
StageFail ==
  /\ at # NULL /\ ~undef
  /\ kind[at] # "tunnel"
  /\ at' = NULL
  /\ outcome' = "failed"
  /\ blame' = at
  /\ UNCHANGED <<heapVars, connTimeout, freed, d_connection, timeout, reached, undef, gone>>

(* Mutant of SetTimeout: the timeout stops at the first object.            *)
SetTimeoutShallow(t) ==
  /\ ChainIdle
  /\ timeout' = t
  /\ connTimeout' = [o \in Objs |-> IF o = d_connection THEN t ELSE connTimeout[o]]
  /\ UNCHANGED <<heapVars, freed, d_connection, walkVars, undef, gone>>

(* setTimeout: stored, and pushed down the installed chain.                *)
SetTimeout(t) ==
  /\ ChainIdle
  /\ timeout' = t
  /\ connTimeout' = [o \in Objs |-> IF o \in Below(s_nextchild, d_connection)
                                    THEN t ELSE connTimeout[o]]
  /\ undef' = (Below(s_nextchild, d_connection) \cap freed # {})
  /\ UNCHANGED <<heapVars, freed, d_connection, walkVars, gone>>

(* Mutant of DestroyChain: the children are not deleted with their parent. *)
DestroyChainShallow ==
  /\ ChainIdle
  /\ gone' = TRUE
  /\ freed' = freed \cup ({d_connection} \cap Objs)
  /\ UNCHANGED <<heapVars, connTimeout, d_connection, timeout, walkVars, undef>>

(* ~Socket_TCPClient deletes d_connection; nobody deletes d_lastconnect.   *)
DestroyChain ==
  /\ ChainIdle
  /\ gone' = TRUE
  /\ freed' = freed \cup Below(s_nextchild, d_connection)
  /\ undef' = (Below(s_nextchild, d_connection) \cap freed # {})
  /\ UNCHANGED <<heapVars, connTimeout, d_connection, timeout, walkVars>>

ChainNext ==
  \/ \E k \in HopKinds : Insert(k)
  \/ Install
  \/ StageOk
  \/ StageFail
  \/ \E t \in Timeouts : SetTimeout(t)
  \/ DestroyChain

(* No fairness: a stage without a timeout may wait for its peer for ever.  *)
ChainSpec == ChainInit /\ [][ChainNext]_chainVars
-----------------------------------------------------------------------------
ChainTypeOK ==
  /\ kind \in [Objs -> HopKinds \cup {"none", "normal"}]
  /\ s_nextchild \in [Objs -> Objs \cup {NULL}]
  /\ connTimeout \in [Objs -> Timeouts]
  /\ count \in 0..MaxObjs
  /\ freed \subseteq Objs
  /\ d_lastconnect \in Objs \cup {NULL}
  /\ d_connection \in Objs \cup {NULL}
  /\ timeout \in Timeouts
  /\ at \in Objs \cup {NULL}
  /\ reached \in Seq(Objs)
  /\ outcome \in {"none", "up", "failed"}
  /\ blame \in Objs \cup {NULL}
  /\ undef \in BOOLEAN
  /\ gone \in BOOLEAN

(* No call ever touches a Socket_Connect that was already deleted: neither *)
(* a delete, nor the walk down the chain, nor a setTimeout.                *)
NoDanglingUse ==
  /\ ~undef
  /\ ~gone => (Below(s_nextchild, d_connection) \cup {at}) \cap freed = {}

(* setTimeout reaches every object the next or the current connect() will  *)
(* use, whichever order setTimeout, insert*() and connect() came in.       *)
TimeoutReachesChain ==
  \A o \in Below(s_nextchild, d_connection) : connTimeout[o] = timeout

(* The hops that were inserted before the installed connection was made.   *)
HopsInstalled == {o \in Hops : o < d_connection}

(* A successful connect() passed through every hop inserted before it, and *)
(* through none of them twice.  In which order is HopsInInsertionOrder.    *)
RouteThroughAllHops ==
  outcome = "up" =>
    /\ {reached[i] : i \in DOMAIN reached} = HopsInstalled
    /\ \A i, j \in DOMAIN reached : i # j => reached[i] # reached[j]

(* The README says of chaining that hops "are followed in the order they   *)
(* were inserted", and socket.h that an inserted hop becomes the last      *)
(* server before the destination: connect() passes the hops oldest first.  *)
HopsInInsertionOrder ==
  \A i, j \in DOMAIN reached : i < j => reached[i] < reached[j]

(* A connect() that failed got only as far as the object it blames: all    *)
(* hops after it were left alone.                                          *)
FailureStopsTheWalk ==
  outcome = "failed" =>
    {reached[i] : i \in DOMAIN reached} = {o \in HopsInstalled : o >= blame}

(* socket.h promises of connect() that "if proxies have been specified,    *)
(* the connection passes through them", which no deleted proxy can do.     *)
ProxiesAreStillThere == ~undef

(* The destructor frees every object a connect() installed.                *)
DestroyFreesInstalled ==
  gone => \A o \in Objs :
            kind[o] = "normal" => Below(s_nextchild, o) \subseteq freed

=============================================================================
