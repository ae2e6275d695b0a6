--------------------------- MODULE SocketSession ---------------------------
(***************************************************************************)
(* What a Socket promises a caller that calls close() before it connects   *)
(* again: a life in six states, and in each of them the descriptors of the *)
(* process that are the Socket's.                                          *)
(***************************************************************************)
CONSTANT Descriptors   \* the descriptors a connection may be given

VARIABLES
  state,   \* what the caller can do with the Socket
  held     \* the descriptors it holds

session == <<state, held>>

SessionInit == state = "closed" /\ held = {}

(* A connect() is in progress until it gives up, or leaves a connection in *)
(* the clear, a secure one, or a broken one that is only good for close(). *)
Connect == state = "closed" /\ state' = "connecting" /\ UNCHANGED held

Open ==
  /\ state = "connecting" /\ held = {}
  /\ \E d \in Descriptors : held' = {d}
  /\ UNCHANGED state

GiveUp == state = "connecting" /\ held = {} /\ state' = "closed" /\ UNCHANGED held

Establish ==
  /\ state = "connecting" /\ held # {}
  /\ state' \in {"clear", "secure", "broken"}
  /\ UNCHANGED held

(* startSSL() secures the connection it was called on, or ends it.         *)
Upgrade      == state = "clear" /\ state' = "secure" /\ UNCHANGED held
UpgradeFails == state = "clear" /\ state' = "closed" /\ held' = {}

(* A TLS session can break, and one whose handshake was cut off can still  *)
(* come up.  Nothing leads back into the clear.                            *)
Break  == state = "secure" /\ state' = "broken" /\ UNCHANGED held
Mend   == state = "broken" /\ state' = "secure" /\ UNCHANGED held

AtRest == state \in {"closed", "clear", "secure", "broken"}

Close   == AtRest /\ state' = "closed" /\ held' = {}
Destroy == AtRest /\ state' = "gone" /\ held' = {}

SessionNext ==
  \/ Connect
  \/ Open
  \/ GiveUp
  \/ Establish
  \/ Upgrade
  \/ UpgradeFails
  \/ Break
  \/ Mend
  \/ Close
  \/ Destroy

SessionSpec == SessionInit /\ [][SessionNext]_session
=============================================================================
