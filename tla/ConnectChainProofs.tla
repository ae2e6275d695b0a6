------------------------- MODULE ConnectChainProofs -------------------------
(***************************************************************************)
(* Proofs about the connect chain, for every number of hops, every set of  *)
(* timeouts and every kind of hop.                                         *)
(***************************************************************************)
EXTENDS ConnectChain, TLAPS

(* Below is the smallest closed set: it is inside every closed set that    *)
(* holds its top.                                                          *)
LEMMA BelowInside ==
  ASSUME NEW child, NEW o, NEW S \in SUBSET Objs,
         o # NULL => o \in S,
         \A q \in S : child[q] # NULL => child[q] \in S
  PROVE  Below(child, o) \subseteq S
  BY DEF Below

(* Below holds its top.                                                    *)
LEMMA BelowTop ==
  ASSUME NEW child, NEW o \in Objs
  PROVE  o \in Below(child, o)
  BY DEF Below, Objs, NULL

(* Below is itself closed under the child pointers.                        *)
LEMMA BelowClosed ==
  ASSUME NEW child, NEW o, NEW p \in Below(child, o),
         child[p] \in Objs
  PROVE  child[p] \in Below(child, o)
  BY DEF Below, Objs, NULL

(* Only objects are below anything.                                        *)
LEMMA BelowObjs ==
  ASSUME NEW child, NEW o
  PROVE  Below(child, o) \subseteq Objs
  BY DEF Below

(* Setting the child of a new object leaves what is below the older        *)
(* objects as it was: children are older than their parents.               *)
LEMMA BelowFrame ==
  ASSUME NEW child, NEW new, NEW n \in Nat, NEW o \in Objs \cup {NULL},
         o <= n,
         \A q \in Objs : q <= n =>
            child[q] \in Nat /\ child[q] <= n /\ new[q] = child[q]
  PROVE  Below(new, o) \subseteq Below(child, o)
<1> SUFFICES ASSUME NEW p \in Below(new, o), NEW S \in SUBSET Objs,
                    o # NULL => o \in S,
                    \A q \in S : child[q] # NULL => child[q] \in S
             PROVE  p \in S
  BY BelowObjs DEF Below
<1> DEFINE T == {q \in S : q <= n}
<1>1. T \in SUBSET Objs
  OBVIOUS
<1>2. o # NULL => o \in T
  OBVIOUS
<1>3. \A q \in T : new[q] # NULL => new[q] \in T
  OBVIOUS
<1>4. Below(new, o) \subseteq T
  <2> HIDE DEF T
  <2> QED BY <1>1, <1>2, <1>3, BelowInside
<1> QED BY <1>4
-----------------------------------------------------------------------------
(* The shape of the heap: pointers lead to allocated objects, from younger *)
(* to older ones, and every child is a hop.                                *)
Shape ==
  /\ d_lastconnect <= count
  /\ d_connection <= count
  /\ \A o \in Objs : s_nextchild[o] < o
  /\ \A o \in Objs : kind[o] = "none" <=> o > count
  /\ \A o \in Objs : s_nextchild[o] # NULL => s_nextchild[o] \in Hops
  /\ d_lastconnect # NULL => d_lastconnect \in Hops
  /\ d_connection # NULL => kind[d_connection] = "normal"
  /\ at # NULL => at \in Below(s_nextchild, d_connection)
  /\ freed \subseteq 1..count

ChainInv == ChainTypeOK /\ Shape

LEMMA ChainInvInit == ChainInit => ChainInv
<1> SUFFICES ASSUME ChainInit PROVE ChainInv
  OBVIOUS
<1> USE ChainConstants, TimeoutsAssumption
<1>1. ChainTypeOK
  <2>1. reached \in Seq(Objs)
    BY DEF ChainInit
  <2>2. undef \in BOOLEAN /\ gone \in BOOLEAN
    BY DEF ChainInit
  <2>3. count \in 0..MaxObjs
    BY DEF ChainInit
  <2> QED BY <2>1, <2>2, <2>3 DEF ChainInit, ChainTypeOK
<1>2. Shape
  BY DEF ChainInit, Shape, Objs, NULL
<1> QED BY <1>1, <1>2 DEF ChainInv

LEMMA ChainInvStep == ChainInv /\ [ChainNext]_chainVars => ChainInv'
<1> SUFFICES ASSUME ChainInv, [ChainNext]_chainVars PROVE ChainInv'
  OBVIOUS
<1> USE ChainConstants, TimeoutsAssumption
<1>0. ChainTypeOK /\ Shape
  BY DEF ChainInv
<1>1. ASSUME NEW k \in HopKinds, Insert(k) PROVE ChainInv'
  <2> USE <1>1, <1>0
  <2>1. ChainTypeOK'
    BY DEF Insert, NewConnect, ChainTypeOK, walkVars, Objs, NULL, ChainIdle
  <2>2. (at # NULL => at \in Below(s_nextchild, d_connection))'
    BY DEF Insert, ChainIdle, walkVars
  <2>3. Shape'
    BY <2>2 DEF Insert, NewConnect, ChainTypeOK, Shape, walkVars, Objs, NULL, Hops
  <2> QED BY <2>1, <2>3 DEF ChainInv
<1>2. CASE Install
  <2> USE <1>2, <1>0
  <2>0. count + 1 \in Objs /\ Below(s_nextchild, d_connection) \subseteq 1..count
    <3>1. count + 1 \in Objs
      BY DEF Install, NewConnect, ChainTypeOK, Objs
    <3>2. 1..count \in SUBSET Objs
      BY DEF ChainTypeOK, Objs
    <3>3. d_connection # NULL => d_connection \in 1..count
      BY DEF ChainTypeOK, Shape, Objs, NULL
    <3>4. \A q \in 1..count : s_nextchild[q] # NULL => s_nextchild[q] \in 1..count
      BY <3>2 DEF ChainTypeOK, Shape, Objs, NULL
    <3>5. Below(s_nextchild, d_connection) \subseteq 1..count
      BY <3>2, <3>3, <3>4, BelowInside
    <3> QED BY <3>1, <3>5
  <2>1. ChainTypeOK'
    <3>1. undef' \in BOOLEAN
      BY DEF Install
    <3>2. connTimeout' \in [Objs -> Timeouts]
      BY DEF Install, ChainTypeOK
    <3>3. freed' \subseteq Objs
      BY BelowObjs DEF Install, ChainTypeOK
    <3>4. reached' \in Seq(Objs)
      BY DEF Install
    <3>5. kind' \in [Objs -> HopKinds \cup {"none", "normal"}]
      BY <2>0 DEF Install, NewConnect, ChainTypeOK
    <3>6. s_nextchild' \in [Objs -> Objs \cup {NULL}]
      BY <2>0 DEF Install, NewConnect, ChainTypeOK
    <3>7. count' \in 0..MaxObjs
      BY DEF Install, NewConnect, ChainTypeOK
    <3> QED BY <2>0, <3>1, <3>2, <3>3, <3>4, <3>5, <3>6, <3>7
            DEF Install, NewConnect, ChainTypeOK
  <2>2. (at # NULL => at \in Below(s_nextchild, d_connection))'
    BY <2>0, BelowTop DEF Install
  <2>3. Shape'
    <3>1. freed' \subseteq 1..count'
      <4>1. freed' = freed \cup Below(s_nextchild, d_connection)
        BY DEF Install
      <4>2. count' = count + 1 /\ count \in Nat
        BY DEF Install, NewConnect, ChainTypeOK
      <4>3. freed \subseteq 1..count
        BY DEF Shape
      <4>4. freed' \subseteq 1..count
        BY <2>0, <4>1, <4>3
      <4>5. 1..count \subseteq 1..count'
        BY <4>2
      <4> QED BY <4>4, <4>5
    <3>2. \A o \in Objs : s_nextchild'[o] < o
      BY <2>0 DEF Install, NewConnect, ChainTypeOK, Shape, Objs, NULL
    <3>3. \A o \in Objs : kind'[o] = "none" <=> o > count'
      BY <2>0 DEF Install, NewConnect, ChainTypeOK, Shape, Objs, NULL
    <3>4. Hops' = Hops
      BY <2>0 DEF Install, NewConnect, ChainTypeOK, Shape, Objs, Hops
    <3>5. \A o \in Objs : s_nextchild'[o] # NULL => s_nextchild'[o] \in Hops'
      BY <2>0, <3>4 DEF Install, NewConnect, ChainTypeOK, Shape
    <3>6. d_lastconnect' <= count' /\ d_connection' <= count'
      BY DEF Install, NewConnect, ChainTypeOK, Shape, Objs, NULL
    <3>7. d_connection' # NULL => kind'[d_connection'] = "normal"
      BY <2>0 DEF Install, NewConnect, ChainTypeOK
    <3>8. d_lastconnect' # NULL => d_lastconnect' \in Hops'
      BY <3>4 DEF Install, Shape
    <3> QED BY <2>2, <3>1, <3>2, <3>3, <3>5, <3>6, <3>7, <3>8 DEF Shape
  <2> QED BY <2>1, <2>3 DEF ChainInv
<1>3. CASE StageOk
  <2> USE <1>3, <1>0
  <2>1. ChainTypeOK'
    <3>1. s_nextchild[at] \in Objs \cup {NULL}
      BY DEF StageOk, ChainTypeOK
    <3>2. reached' \in Seq(Objs)
      BY <3>1 DEF StageOk, ChainTypeOK
    <3> QED BY <3>1, <3>2 DEF StageOk, ChainTypeOK, heapVars
  <2>2. (at # NULL => at \in Below(s_nextchild, d_connection))'
    <3>1. at \in Below(s_nextchild, d_connection) /\ at \in Objs
      BY DEF StageOk, ChainTypeOK, Shape
    <3> QED BY <3>1, BelowClosed DEF StageOk, ChainTypeOK, heapVars
  <2>3. Shape'
    BY <2>2 DEF StageOk, ChainTypeOK, Shape, heapVars, Hops
  <2> QED BY <2>1, <2>3 DEF ChainInv
<1>4. CASE StageFail
  <2> USE <1>4, <1>0
  <2>1. ChainTypeOK'
    BY DEF StageFail, ChainTypeOK, heapVars, Objs, NULL
  <2>2. Shape'
    BY DEF StageFail, ChainTypeOK, Shape, heapVars, Hops
  <2> QED BY <2>1, <2>2 DEF ChainInv
<1>5. ASSUME NEW t \in Timeouts, SetTimeout(t) PROVE ChainInv'
  <2> USE <1>5, <1>0
  <2>1. ChainTypeOK'
    BY DEF SetTimeout, ChainTypeOK, heapVars, walkVars
  <2>2. Shape'
    BY DEF SetTimeout, Shape, heapVars, walkVars, Hops
  <2> QED BY <2>1, <2>2 DEF ChainInv
<1>6. CASE DestroyChain
  <2> USE <1>6, <1>0
  <2>0. Below(s_nextchild, d_connection) \subseteq 1..count
    <3>2. 1..count \in SUBSET Objs
      BY DEF ChainTypeOK, Objs
    <3>3. d_connection # NULL => d_connection \in 1..count
      BY DEF ChainTypeOK, Shape, Objs, NULL
    <3>4. \A q \in 1..count : s_nextchild[q] # NULL => s_nextchild[q] \in 1..count
      BY <3>2 DEF ChainTypeOK, Shape, Objs, NULL
    <3> QED BY <3>2, <3>3, <3>4, BelowInside
  <2>1. ChainTypeOK'
    BY BelowObjs DEF DestroyChain, ChainTypeOK, heapVars, walkVars
  <2>2. Shape'
    BY <2>0 DEF DestroyChain, Shape, heapVars, walkVars, Hops
  <2> QED BY <2>1, <2>2 DEF ChainInv
<1>7. CASE UNCHANGED chainVars
  BY <1>0, <1>7 DEF chainVars, ChainInv, ChainTypeOK, Shape, Hops
<1> QED
  BY <1>1, <1>2, <1>3, <1>4, <1>5, <1>6, <1>7 DEF ChainNext

LEMMA ChainInvariant == ChainSpec => []ChainInv
  BY ChainInvInit, ChainInvStep, PTL DEF ChainSpec

(* Every variable of the chain keeps its type: in particular the pointers  *)
(* never leave the heap, and setTimeout only ever stores a given timeout.  *)
THEOREM ChainTypeCorrect == ChainSpec => []ChainTypeOK
  BY ChainInvariant, PTL DEF ChainInv

(* What is below a connection: the connection itself and hops.             *)
LEMMA BelowConnection ==
  ASSUME ChainInv
  PROVE  Below(s_nextchild, d_connection) \subseteq Hops \cup ({d_connection} \cap Objs)
<1>1. Hops \cup ({d_connection} \cap Objs) \in SUBSET Objs
  BY DEF Hops
<1>2. d_connection # NULL => d_connection \in Hops \cup ({d_connection} \cap Objs)
  BY DEF ChainInv, ChainTypeOK
<1>3. \A q \in Hops \cup ({d_connection} \cap Objs) :
         s_nextchild[q] # NULL => s_nextchild[q] \in Hops \cup ({d_connection} \cap Objs)
  BY <1>1 DEF ChainInv, Shape
<1> QED BY <1>1, <1>2, <1>3, BelowInside
-----------------------------------------------------------------------------
(* The caller that does not reconnect over hops: what is deleted before    *)
(* the end is a connection that had no hop below it, and never the one     *)
(* that is installed.                                                      *)
FreedAreOldConnections ==
  /\ ~undef
  /\ ~gone => freed \subseteq {o \in Objs : kind[o] = "normal"} \ {d_connection}

(* Under that invariant nothing in use is deleted.                         *)
LEMMA InUseNotFreed ==
  ASSUME ChainInv, FreedAreOldConnections, ~gone
  PROVE  (Below(s_nextchild, d_connection) \cup {at}) \cap freed = {}
<1>1. Below(s_nextchild, d_connection) \cap freed = {}
  BY BelowConnection, ChainConstants DEF FreedAreOldConnections, Hops
<1>2. at \notin freed
  BY <1>1 DEF ChainInv, ChainTypeOK, Shape, Objs, NULL
<1> QED BY <1>1, <1>2

LEMMA FreedStep ==
  ASSUME OneShot
  PROVE  ChainInv /\ FreedAreOldConnections /\ [ChainNext]_chainVars
           => FreedAreOldConnections'
<1> SUFFICES ASSUME ChainInv, FreedAreOldConnections, [ChainNext]_chainVars
             PROVE  FreedAreOldConnections'
  OBVIOUS
<1>0. ChainTypeOK /\ Shape /\ "normal" \notin HopKinds
  BY ChainConstants DEF ChainInv
<1>1. ASSUME NEW k \in HopKinds, Insert(k) PROVE FreedAreOldConnections'
  <2>1. count + 1 \notin freed
    BY <1>0 DEF Shape, ChainTypeOK
  <2>2. undef' = undef /\ gone' = gone /\ freed' = freed /\ d_connection' = d_connection
    BY <1>1 DEF Insert
  <2>3. \A o \in Objs : o # count + 1 => kind'[o] = kind[o]
    BY <1>1, <1>0 DEF Insert, NewConnect, ChainTypeOK
  <2> QED BY <2>1, <2>2, <2>3 DEF FreedAreOldConnections
<1>2. CASE Install
  <2>0. ~gone /\ (d_connection # NULL => s_nextchild[d_connection] = NULL)
    BY <1>2 DEF Install, ChainIdle, ChainReusable
  <2>1. Below(s_nextchild, d_connection) \subseteq {d_connection} \cap Objs
    <3>1. {d_connection} \cap Objs \in SUBSET Objs
      OBVIOUS
    <3>2. d_connection # NULL => d_connection \in {d_connection} \cap Objs
      BY <1>0 DEF ChainTypeOK
    <3>3. \A q \in {d_connection} \cap Objs :
             s_nextchild[q] # NULL => s_nextchild[q] \in {d_connection} \cap Objs
      BY <2>0 DEF Objs, NULL
    <3> QED BY <3>1, <3>2, <3>3, BelowInside
  <2>2. count + 1 \in Objs /\ count + 1 \notin freed /\ count + 1 # d_connection
    <3>1. count < MaxObjs /\ count \in Nat /\ MaxObjs \in Nat
      BY <1>2, <1>0, ChainConstants DEF Install, NewConnect, ChainTypeOK
    <3>2. freed \subseteq 1..count /\ d_connection <= count /\ d_connection \in Nat
      BY <1>0 DEF Shape, ChainTypeOK, Objs, NULL
    <3> QED BY <3>1, <3>2 DEF Objs
  <2>3. /\ kind' = [kind EXCEPT ![count + 1] = "normal"]
        /\ s_nextchild' = [s_nextchild EXCEPT ![count + 1] = d_lastconnect]
        /\ freed' = freed \cup Below(s_nextchild, d_connection)
        /\ d_connection' = count + 1
        /\ gone' = gone
        /\ undef' = (Below(s_nextchild, d_connection) \cap freed # {}
                       \/ Below(s_nextchild', count + 1) \cap freed' # {})
    BY <1>2 DEF Install, NewConnect
  <2>4. freed' \subseteq {o \in Objs : kind[o] = "normal"} \ {count + 1}
    <3>1. {d_connection} \cap Objs \subseteq {o \in Objs : kind[o] = "normal"}
      BY <1>0 DEF Shape, Objs, NULL
    <3>2. freed \subseteq {o \in Objs : kind[o] = "normal"}
      BY <2>0 DEF FreedAreOldConnections
    <3> QED BY <2>1, <2>2, <2>3, <3>1, <3>2
  <2>5. Below(s_nextchild', count + 1) \subseteq Hops \cup {count + 1}
    <3>1. Hops \cup {count + 1} \in SUBSET Objs
      BY <2>2 DEF Hops
    <3>2. \A q \in Hops \cup {count + 1} :
             s_nextchild'[q] # NULL => s_nextchild'[q] \in Hops \cup {count + 1}
      BY <3>1, <2>3, <1>0 DEF Shape, ChainTypeOK
    <3>3. count + 1 # NULL => count + 1 \in Hops \cup {count + 1}
      OBVIOUS
    <3> QED BY <3>1, <3>2, <3>3 DEF Below
  <2>6. Below(s_nextchild', count + 1) \cap freed' = {}
    BY <2>4, <2>5, <1>0 DEF Hops
  <2>7. Below(s_nextchild, d_connection) \cap freed = {}
    BY <2>0, <2>1 DEF FreedAreOldConnections
  <2>8. ~undef'
    BY <2>3, <2>6, <2>7
  <2>9. {o \in Objs : kind[o] = "normal"} \subseteq {o \in Objs : kind'[o] = "normal"}
    BY <2>3, <1>0 DEF ChainTypeOK
  <2> QED BY <2>3, <2>4, <2>8, <2>9 DEF FreedAreOldConnections
<1>3. CASE StageOk
  BY <1>3 DEF StageOk, FreedAreOldConnections, heapVars
<1>4. CASE StageFail
  BY <1>4 DEF StageFail, FreedAreOldConnections, heapVars
<1>5. ASSUME NEW t \in Timeouts, SetTimeout(t) PROVE FreedAreOldConnections'
  <2>1. ~gone
    BY <1>5 DEF SetTimeout, ChainIdle
  <2>2. Below(s_nextchild, d_connection) \cap freed = {}
    BY <2>1, InUseNotFreed
  <2>3. undef' = (Below(s_nextchild, d_connection) \cap freed # {})
    BY <1>5 DEF SetTimeout
  <2> QED BY <1>5, <2>2, <2>3 DEF SetTimeout, FreedAreOldConnections, heapVars
<1>6. CASE DestroyChain
  <2>1. ~gone
    BY <1>6 DEF DestroyChain, ChainIdle
  <2>2. Below(s_nextchild, d_connection) \cap freed = {}
    BY <2>1, InUseNotFreed
  <2>3. undef' = (Below(s_nextchild, d_connection) \cap freed # {}) /\ gone' = TRUE
    BY <1>6 DEF DestroyChain
  <2> QED BY <2>2, <2>3 DEF FreedAreOldConnections
<1>7. CASE UNCHANGED chainVars
  BY <1>7 DEF chainVars, FreedAreOldConnections
<1> QED
  BY <1>1, <1>2, <1>3, <1>4, <1>5, <1>6, <1>7 DEF ChainNext

(* A caller that does not connect again over hops never makes the library  *)
(* use a deleted Socket_Connect, however many hops there are and whenever  *)
(* they are inserted.                                                      *)
THEOREM OneShotIsSafe ==
  ASSUME OneShot
  PROVE  ChainSpec => []NoDanglingUse
<1>1. ChainInit => FreedAreOldConnections
  BY DEF ChainInit, FreedAreOldConnections
<1>2. ChainInv /\ FreedAreOldConnections => NoDanglingUse
  BY InUseNotFreed DEF NoDanglingUse, FreedAreOldConnections
<1> QED BY <1>1, <1>2, FreedStep, ChainInvariant, PTL DEF ChainSpec
-----------------------------------------------------------------------------
(* The pointers of the objects that exist do not change when an object is  *)
(* allocated.                                                              *)
LEMMA BelowAfterNew ==
  ASSUME ChainInv, NEW k, NEW c, NewConnect(k, c),
         NEW o \in Objs \cup {NULL}, o <= count
  PROVE  Below(s_nextchild', o) \subseteq Below(s_nextchild, o)
<1>1. \A q \in Objs : q <= count =>
         s_nextchild[q] \in Nat /\ s_nextchild[q] <= count /\ s_nextchild'[q] = s_nextchild[q]
  BY DEF ChainInv, ChainTypeOK, Shape, NewConnect, Objs, NULL
<1>2. count \in Nat
  BY DEF ChainInv, ChainTypeOK
<1>3. \A child, new :
         (\A q \in Objs : q <= count =>
            child[q] \in Nat /\ child[q] <= count /\ new[q] = child[q])
         => Below(new, o) \subseteq Below(child, o)
  BY <1>2, BelowFrame
<1> QED BY <1>1, <1>3

LEMMA TimeoutStep == ChainInv /\ TimeoutReachesChain /\ [ChainNext]_chainVars
                       => TimeoutReachesChain'
<1> SUFFICES ASSUME ChainInv, TimeoutReachesChain, [ChainNext]_chainVars
             PROVE  TimeoutReachesChain'
  OBVIOUS
<1>1. ASSUME NEW k \in HopKinds, Insert(k) PROVE TimeoutReachesChain'
  <2>1. d_connection \in Objs \cup {NULL} /\ d_connection <= count
    BY DEF ChainInv, ChainTypeOK, Shape
  <2>2. Below(s_nextchild', d_connection) \subseteq Below(s_nextchild, d_connection)
    BY <1>1, <2>1, BelowAfterNew DEF Insert
  <2> QED BY <1>1, <2>2 DEF Insert, TimeoutReachesChain
<1>2. CASE Install
  <2>1. /\ connTimeout' = [o \in Objs |-> IF o \in Below(s_nextchild', count + 1)
                                          THEN timeout ELSE connTimeout[o]]
        /\ d_connection' = count + 1 /\ timeout' = timeout
    BY <1>2 DEF Install
  <2>2. Below(s_nextchild', count + 1) \subseteq Objs
    BY DEF Below
  <2> QED BY <2>1, <2>2 DEF TimeoutReachesChain
<1>3. CASE StageOk
  BY <1>3 DEF StageOk, TimeoutReachesChain, heapVars
<1>4. CASE StageFail
  BY <1>4 DEF StageFail, TimeoutReachesChain, heapVars
<1>5. ASSUME NEW t \in Timeouts, SetTimeout(t) PROVE TimeoutReachesChain'
  BY <1>5, BelowObjs DEF SetTimeout, TimeoutReachesChain, heapVars
<1>6. CASE DestroyChain
  BY <1>6 DEF DestroyChain, TimeoutReachesChain, heapVars
<1>7. CASE UNCHANGED chainVars
  BY <1>7 DEF chainVars, TimeoutReachesChain
<1> QED
  BY <1>1, <1>2, <1>3, <1>4, <1>5, <1>6, <1>7 DEF ChainNext

(* The timeout last set is the timeout of every object of the installed    *)
(* chain, at every moment and for every caller.                            *)
THEOREM TimeoutReaches == ChainSpec => []TimeoutReachesChain
<1>1. ChainInit => TimeoutReachesChain
  BY BelowObjs DEF ChainInit, TimeoutReachesChain
<1> QED BY <1>1, TimeoutStep, ChainInvariant, PTL DEF ChainSpec
-----------------------------------------------------------------------------
(* Every Socket_Connect_Normal but the installed one was deleted with all  *)
(* that was below it.                                                      *)
OldConnectionsFreed ==
  \A o \in Objs : kind[o] = "normal" /\ (gone \/ o # d_connection)
                    => Below(s_nextchild, o) \subseteq freed

LEMMA OldConnectionsStep == ChainInv /\ OldConnectionsFreed /\ [ChainNext]_chainVars
                              => OldConnectionsFreed'
<1> SUFFICES ASSUME ChainInv, OldConnectionsFreed, [ChainNext]_chainVars
             PROVE  OldConnectionsFreed'
  OBVIOUS
<1>0. \A o \in Objs : kind[o] = "normal" => o \in Objs \cup {NULL} /\ o <= count
  BY DEF ChainInv, ChainTypeOK, Shape, Objs
<1>1. ASSUME NEW k \in HopKinds, Insert(k) PROVE OldConnectionsFreed'
  <2>1. \A o \in Objs : kind'[o] = "normal" => kind[o] = "normal"
    BY <1>1, ChainConstants DEF Insert, NewConnect, ChainInv, ChainTypeOK
  <2>2. \A o \in Objs : kind[o] = "normal" =>
           Below(s_nextchild', o) \subseteq Below(s_nextchild, o)
    BY <1>0, <1>1, BelowAfterNew DEF Insert
  <2> QED BY <1>1, <2>1, <2>2 DEF Insert, OldConnectionsFreed
<1>2. CASE Install
  <2>1. NewConnect("normal", d_lastconnect)
    BY <1>2 DEF Install
  <2>2. /\ freed' = freed \cup Below(s_nextchild, d_connection)
        /\ d_connection' = count + 1 /\ gone' = gone /\ ~gone
    BY <1>2 DEF Install, ChainIdle
  <2>3. \A o \in Objs : kind'[o] = "normal" /\ o # count + 1 => kind[o] = "normal"
    BY <2>1 DEF NewConnect, ChainInv, ChainTypeOK
  <2>4. \A o \in Objs : kind[o] = "normal" =>
           Below(s_nextchild', o) \subseteq Below(s_nextchild, o)
    BY <1>0, <2>1, BelowAfterNew
  <2>5. \A o \in Objs : kind[o] = "normal" => Below(s_nextchild, o) \subseteq freed'
    BY <2>2 DEF OldConnectionsFreed
  <2> QED BY <2>2, <2>3, <2>4, <2>5 DEF OldConnectionsFreed
<1>3. CASE StageOk
  BY <1>3 DEF StageOk, OldConnectionsFreed, heapVars
<1>4. CASE StageFail
  BY <1>4 DEF StageFail, OldConnectionsFreed, heapVars
<1>5. ASSUME NEW t \in Timeouts, SetTimeout(t) PROVE OldConnectionsFreed'
  BY <1>5 DEF SetTimeout, OldConnectionsFreed, heapVars
<1>6. CASE DestroyChain
  BY <1>6 DEF DestroyChain, OldConnectionsFreed, heapVars
<1>7. CASE UNCHANGED chainVars
  BY <1>7 DEF chainVars, OldConnectionsFreed
<1> QED
  BY <1>1, <1>2, <1>3, <1>4, <1>5, <1>6, <1>7 DEF ChainNext

(* The destructor leaves no connection, and no hop that a connect() ever   *)
(* installed, behind.                                                      *)
THEOREM DestroyFrees == ChainSpec => []DestroyFreesInstalled
<1>1. ChainInit => OldConnectionsFreed
  BY DEF ChainInit, OldConnectionsFreed
<1>2. OldConnectionsFreed => DestroyFreesInstalled
  BY DEF OldConnectionsFreed, DestroyFreesInstalled
<1> QED BY <1>1, <1>2, OldConnectionsStep, ChainInvariant, PTL DEF ChainSpec
-----------------------------------------------------------------------------
(* The chain lists the hops from the youngest to the oldest without a gap: *)
(* the child of an object is the youngest hop older than it.               *)
Gapless ==
  /\ \A m \in Hops : m <= d_lastconnect
  /\ \A o \in Objs, m \in Hops : o <= count /\ m < o => m <= s_nextchild[o]

(* How far the walk down the chain has come.                               *)
HopsReached == {reached[i] : i \in DOMAIN reached}
Walk ==
  /\ \A i, j \in DOMAIN reached : i < j => reached[i] > reached[j]
  /\ at # NULL => outcome = "none" /\ HopsReached = {o \in HopsInstalled : o >= at}
  /\ outcome = "up" => HopsReached = HopsInstalled
  /\ outcome = "failed" => HopsReached = {o \in HopsInstalled : o >= blame}

LEMMA GaplessStep == ChainInv /\ Gapless /\ [ChainNext]_chainVars => Gapless'
<1> SUFFICES ASSUME ChainInv, Gapless, [ChainNext]_chainVars PROVE Gapless'
  OBVIOUS
<1>0. ChainTypeOK /\ Shape /\ "normal" \notin HopKinds /\ "none" \notin HopKinds
  BY ChainConstants DEF ChainInv
<1>1. ASSUME NEW k \in HopKinds, Insert(k) PROVE Gapless'
  <2>1. \A m \in Hops' : m \in Hops \/ m = count + 1
    BY <1>0, <1>1 DEF Insert, NewConnect, ChainTypeOK, Hops
  <2>2. \A m \in Hops : m \in Nat /\ m <= count
    BY <1>0 DEF Shape, Hops, Objs, ChainTypeOK
  <2>3. count \in Nat /\ count' = count + 1 /\ d_lastconnect' = count + 1
    BY <1>0, <1>1 DEF Insert, NewConnect, ChainTypeOK
  <2>4. \A o \in Objs : s_nextchild'[o] = IF o = count + 1 THEN d_lastconnect
                                                           ELSE s_nextchild[o]
    BY <1>0, <1>1 DEF Insert, NewConnect, ChainTypeOK
  <2>5. \A m \in Hops' : m <= d_lastconnect'
    BY <2>1, <2>2, <2>3
  <2>6. ASSUME NEW o \in Objs, NEW m \in Hops', o <= count', m < o
        PROVE  m <= s_nextchild'[o]
    <3>1. o \in Nat
      BY DEF Objs
    <3>2. m \in Hops
      BY <2>1, <2>3, <2>6, <3>1
    <3>3. CASE o = count + 1
      BY <2>4, <3>2, <3>3 DEF Gapless
    <3>4. CASE o # count + 1
      <4>1. o <= count
        BY <2>3, <2>6, <3>1, <3>4
      <4> QED BY <2>4, <2>6, <3>2, <3>4, <4>1 DEF Gapless
    <3> QED BY <3>3, <3>4
  <2> QED BY <2>5, <2>6 DEF Gapless
<1>2. CASE Install
  <2>0. NewConnect("normal", d_lastconnect) /\ d_lastconnect' = d_lastconnect
    BY <1>2 DEF Install
  <2>1. \A m \in Hops' : m \in Hops
    BY <1>0, <2>0 DEF NewConnect, ChainTypeOK, Hops
  <2>3. count \in Nat /\ count' = count + 1
    BY <1>0, <2>0 DEF NewConnect, ChainTypeOK
  <2>4. \A o \in Objs : s_nextchild'[o] = IF o = count + 1 THEN d_lastconnect
                                                           ELSE s_nextchild[o]
    BY <1>0, <2>0 DEF NewConnect, ChainTypeOK
  <2>6. ASSUME NEW o \in Objs, NEW m \in Hops', o <= count', m < o
        PROVE  m <= s_nextchild'[o]
    <3>1. o \in Nat /\ m \in Hops
      BY <2>1 DEF Objs
    <3>3. CASE o = count + 1
      BY <2>4, <3>1, <3>3 DEF Gapless
    <3>4. CASE o # count + 1
      <4>1. o <= count
        BY <2>3, <2>6, <3>1, <3>4
      <4> QED BY <2>4, <2>6, <3>1, <3>4, <4>1 DEF Gapless
    <3> QED BY <3>3, <3>4
  <2> QED BY <2>0, <2>1, <2>6 DEF Gapless
<1>3. CASE StageOk
  BY <1>3 DEF StageOk, Gapless, heapVars, Hops
<1>4. CASE StageFail
  BY <1>4 DEF StageFail, Gapless, heapVars, Hops
<1>5. ASSUME NEW t \in Timeouts, SetTimeout(t) PROVE Gapless'
  BY <1>5 DEF SetTimeout, Gapless, heapVars, Hops
<1>6. CASE DestroyChain
  BY <1>6 DEF DestroyChain, Gapless, heapVars, Hops
<1>7. CASE UNCHANGED chainVars
  BY <1>7 DEF chainVars, Gapless, Hops
<1> QED
  BY <1>1, <1>2, <1>3, <1>4, <1>5, <1>6, <1>7 DEF ChainNext

(* Allocating a hop or a connection adds nothing to the hops older than    *)
(* the installed connection.                                               *)
LEMMA HopsInstalledFrame ==
  ASSUME ChainInv, NEW k \in HopKinds, Insert(k)
  PROVE  HopsInstalled' = HopsInstalled
<1>1. \A o \in Objs : o < d_connection => kind'[o] = kind[o]
  BY DEF ChainInv, ChainTypeOK, Shape, Insert, NewConnect, Objs, NULL
<1>2. d_connection' = d_connection
  BY DEF Insert
<1> QED BY <1>1, <1>2 DEF HopsInstalled, Hops

LEMMA WalkStep == ChainInv /\ Gapless /\ Walk /\ [ChainNext]_chainVars => Walk'
<1> SUFFICES ASSUME ChainInv, Gapless, Walk, [ChainNext]_chainVars PROVE Walk'
  OBVIOUS
<1>0. ChainTypeOK /\ Shape
  BY DEF ChainInv
<1>1. ASSUME NEW k \in HopKinds, Insert(k) PROVE Walk'
  BY <1>1, HopsInstalledFrame DEF Insert, Walk, HopsReached, walkVars
<1>2. CASE Install
  <2>1. reached' = <<>> /\ outcome' = "none" /\ at' = d_connection'
    BY <1>2 DEF Install
  <2>2. HopsReached' = {}
    BY <2>1 DEF HopsReached
  <2>3. {o \in HopsInstalled' : o >= at'} = {}
    <3>1. d_connection' \in Nat
      BY <1>0, <1>2 DEF Install, ChainTypeOK
    <3> QED BY <2>1, <3>1 DEF HopsInstalled, Hops, Objs
  <2> QED BY <2>1, <2>2, <2>3 DEF Walk
<1>3. CASE StageOk
  <2>1. /\ at \in Objs /\ at <= count
        /\ s_nextchild[at] \in Objs \cup {NULL} /\ s_nextchild[at] < at
        /\ s_nextchild[at] # NULL => s_nextchild[at] \in Hops
        /\ at <= d_connection
    <3>1. at \in Objs /\ at \in Below(s_nextchild, d_connection)
      BY <1>0, <1>3 DEF StageOk, ChainTypeOK, Shape
    <3>2. Below(s_nextchild, d_connection) \subseteq {q \in Objs : q <= d_connection}
      <4>1. d_connection # NULL => d_connection \in {q \in Objs : q <= d_connection}
        BY <1>0 DEF ChainTypeOK, Objs
      <4>2. \A q \in {r \in Objs : r <= d_connection} :
               s_nextchild[q] # NULL => s_nextchild[q] \in {r \in Objs : r <= d_connection}
        BY <1>0 DEF ChainTypeOK, Shape, Objs, NULL
      <4> QED BY <4>1, <4>2, BelowInside
    <3> QED BY <1>0, <3>1, <3>2 DEF ChainTypeOK, Shape, Objs, NULL
  <2>2. HopsReached = {o \in HopsInstalled : o >= at} /\ outcome = "none"
    BY <1>3 DEF StageOk, Walk
  <2>3. HopsInstalled' = HopsInstalled
    BY <1>3 DEF StageOk, HopsInstalled, Hops, heapVars
  <2>4. \A m \in HopsInstalled : m < at => m <= s_nextchild[at]
    BY <2>1 DEF Gapless, HopsInstalled
  <2>5. HopsInstalled \subseteq Nat
    BY DEF HopsInstalled, Hops, Objs
  <2>6. CASE s_nextchild[at] = NULL
    <3>1. HopsReached = HopsInstalled
      BY <2>1, <2>2, <2>4, <2>5, <2>6 DEF HopsInstalled, Hops, Objs, NULL
    <3>2. reached' = reached /\ outcome' = "up" /\ at' = NULL
      BY <1>3, <2>6 DEF StageOk
    <3> QED BY <2>3, <3>1, <3>2 DEF Walk, HopsReached
  <2>7. CASE s_nextchild[at] # NULL
    <3> DEFINE c == s_nextchild[at]
    <3>1. reached' = Append(reached, c) /\ outcome' = "none" /\ at' = c
      BY <1>3, <2>2, <2>7 DEF StageOk
    <3>2. c \in HopsInstalled /\ c < at /\ c \in Nat /\ at \in Nat
      BY <2>1, <2>7, <1>0 DEF HopsInstalled, Objs, ChainTypeOK, NULL
    <3>3. reached \in Seq(Objs) /\ Len(reached) \in Nat
      BY <1>0 DEF ChainTypeOK
    <3>4. /\ DOMAIN reached = 1..Len(reached)
          /\ DOMAIN reached' = 1..(Len(reached) + 1)
          /\ \A i \in 1..Len(reached) : reached'[i] = reached[i]
          /\ reached'[Len(reached) + 1] = c
      BY <3>1, <3>2, <3>3 DEF HopsInstalled, Hops
    <3>5. HopsReached' = HopsReached \cup {c}
      BY <3>3, <3>4 DEF HopsReached
    <3>6. {o \in HopsInstalled : o >= c} = {o \in HopsInstalled : o >= at} \cup {c}
      <4>1. \A m \in HopsInstalled : m < at => m <= c
        BY <2>4
      <4> HIDE DEF c
      <4>2. \A m \in HopsInstalled : m >= c <=> (m >= at \/ m = c)
        BY <2>5, <3>2, <4>1
      <4> QED BY <3>2, <4>2
    <3>7. \A i \in DOMAIN reached : reached[i] \in HopsReached
      BY DEF HopsReached
    <3>8. \A i \in DOMAIN reached : reached[i] > c
      <4>1. \A m \in HopsReached : m >= at /\ m \in Nat
        BY <2>2, <2>5
      <4> HIDE DEF c
      <4> QED BY <3>2, <3>7, <4>1
    <3>9. \A i, j \in DOMAIN reached' : i < j => reached'[i] > reached'[j]
      BY <3>3, <3>4, <3>8 DEF Walk
    <3> QED BY <2>2, <2>3, <3>1, <3>5, <3>6, <3>9 DEF Walk
  <2> QED BY <2>6, <2>7
<1>4. CASE StageFail
  BY <1>4 DEF StageFail, Walk, HopsReached, HopsInstalled, Hops, heapVars, NULL
<1>5. ASSUME NEW t \in Timeouts, SetTimeout(t) PROVE Walk'
  BY <1>5 DEF SetTimeout, Walk, HopsReached, HopsInstalled, Hops, heapVars, walkVars
<1>6. CASE DestroyChain
  BY <1>6 DEF DestroyChain, Walk, HopsReached, HopsInstalled, Hops, heapVars, walkVars
<1>7. CASE UNCHANGED chainVars
  BY <1>7 DEF chainVars, Walk, HopsReached, HopsInstalled, Hops
<1> QED
  BY <1>1, <1>2, <1>3, <1>4, <1>5, <1>6, <1>7 DEF ChainNext

LEMMA WalkInvariant == ChainSpec => [](Gapless /\ Walk)
<1>1. ChainInit => Gapless /\ Walk
  BY ChainConstants DEF ChainInit, Gapless, Walk, HopsReached, Hops, NULL
<1> QED BY <1>1, GaplessStep, WalkStep, ChainInvariant, PTL DEF ChainSpec

(* A successful connect() went through all hops inserted before it, each   *)
(* once: the addresses along the walk fall, so that none comes again.      *)
THEOREM RouteIsComplete == ChainSpec => []RouteThroughAllHops
<1>1. ChainTypeOK /\ Walk => RouteThroughAllHops
  <2> SUFFICES ASSUME ChainTypeOK, Walk, outcome = "up" PROVE RouteThroughAllHops
    BY DEF RouteThroughAllHops
  <2>1. {reached[i] : i \in DOMAIN reached} = HopsInstalled
    BY DEF Walk, HopsReached
  <2>2. ASSUME NEW i \in DOMAIN reached, NEW j \in DOMAIN reached, i # j
        PROVE  reached[i] # reached[j]
    <3>0. reached \in Seq(Objs) /\ DOMAIN reached = 1..Len(reached) /\ Objs \subseteq Nat
      BY ChainConstants DEF ChainTypeOK, Objs
    <3>1. i \in Nat /\ j \in Nat /\ reached[i] \in Nat /\ reached[j] \in Nat
      <4>1. i \in 1..Len(reached) /\ j \in 1..Len(reached) /\ Len(reached) \in Nat
        BY <3>0
      <4>2. reached[i] \in Objs /\ reached[j] \in Objs
        BY <3>0, <4>1
      <4>3. i \in Nat /\ j \in Nat
        BY <4>1
      <4>4. reached[i] \in Nat /\ reached[j] \in Nat
        BY <3>0, <4>2
      <4> QED BY <4>3, <4>4
    <3>2. i < j => reached[i] > reached[j]
      BY DEF Walk
    <3>3. j < i => reached[j] > reached[i]
      BY DEF Walk
    <3> QED BY <2>2, <3>1, <3>2, <3>3
  <2> QED BY <2>1, <2>2 DEF RouteThroughAllHops
<1> QED BY <1>1, WalkInvariant, ChainTypeCorrect, PTL

(* A failed connect() contacted no hop beyond the one it blames.           *)
THEOREM FailureStops == ChainSpec => []FailureStopsTheWalk
<1>1. Walk => FailureStopsTheWalk
  BY DEF Walk, FailureStopsTheWalk, HopsReached
<1> QED BY <1>1, WalkInvariant, PTL
=============================================================================
