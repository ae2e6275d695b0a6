--------------------------- MODULE ClientSession ---------------------------
(***************************************************************************)
(* The client implements SocketSession: its six states, read off d_sock,   *)
(* the comm and the progress of a connect().                               *)
(***************************************************************************)
EXTENDS TcpClient

InTheClear == d_comm.fd # NoSock /\ d_comm.kind = "plain"
Secured    == d_comm.fd # NoSock /\ d_comm.ssl = "up"

SessionState ==
  CASE gone                       -> "gone"
    [] ~gone /\ pc # "idle"       -> "connecting"
    [] ClientIdle /\ d_sock = NoSock                              -> "closed"
    [] ClientIdle /\ d_sock # NoSock /\ InTheClear                -> "clear"
    [] ClientIdle /\ d_sock # NoSock /\ Secured                   -> "secure"
    [] ClientIdle /\ d_sock # NoSock /\ ~InTheClear /\ ~Secured   -> "broken"

Held == {f \in Fds : fds[f] = "lib"}

Session == INSTANCE SocketSession
             WITH Descriptors <- Fds \ {NoSock}, state <- SessionState, held <- Held

(* For a caller that closes before it connects again, every call and every *)
(* stage of a connect() is a step of a session: one descriptor at most,    *)
(* held from the moment it is opened to the close(), the failed startSSL() *)
(* or the destructor that releases it; a failed startSSL() ends the        *)
(* connection; no call leads from a secure or a broken connection back to  *)
(* one in the clear.                                                       *)
ImplementsSession == Session!SessionSpec
=============================================================================
