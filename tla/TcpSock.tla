------------------------------- MODULE TcpSock -------------------------------
(***************************************************************************)
(* tcp_sock: the link to the other player over TCP.  The bulk OUT thread   *)
(* dials out through connect(); in server mode a listen thread, started by *)
(* the constructor, takes callers in.  Both publish the same comm_fd and   *)
(* the same recv_thread_ptr.                                               *)
(*                                                                         *)
(* ::connect() may succeed or fail, whatever the address, which is the     *)
(* matter of Dialling.  Running out of descriptors (socket() < 0) is not   *)
(* modelled.                                                               *)
(***************************************************************************)
EXTENDS LinkDevice

CONSTANTS
  IsServer,          \* started with -s
  MaxCallers         \* callers that arrive at the listening socket

ASSUME ServerAssumption == IsServer \in BOOLEAN /\ MaxCallers \in Nat

VARIABLE lsn         \* the listen thread

SockInit == lsn = [pc |-> IF IsServer THEN "accept" ELSE "off",
                   fd |-> NoFd, conn |-> NoConn, callers |-> 0]

-----------------------------------------------------------------------------
(* connect(), on the bulk OUT thread.                                      *)

SockSocket ==
  /\ out.pc = "socket"
  /\ \E f \in Fd, c \in Conn :
       /\ OpenFd(f, c, "sock", "connecting")
       /\ out' = [out EXCEPT !.pc = "connect", !.link = "sock", !.fd = f, !.conn = c]
  /\ UNCHANGED <<ctxVars, rcv, linkFd, linkThr, hang, lsn, aborted>>

SockConnected ==
  /\ out.pc = "connect"
  /\ conns' = [conns EXCEPT ![out.conn].peer = "open"]
  /\ out' = [out EXCEPT !.pc = "publish"]
  /\ UNCHANGED <<ctxVars, fdTab, rcv, linkFd, linkThr, hang, lsn, aborted>>

\* Mutants: connect() does not close the socket after the failure, or returns
\* without an answer.
SockRefusedNoClose ==
  /\ out.pc = "connect"
  /\ out' = [out EXCEPT !.pc = "reply", !.reply = "BUSY", !.fd = NoFd, !.conn = NoConn]
  /\ UNCHANGED <<ctxVars, linkVars, hang, lsn, aborted>>

SockRefusedSilently ==
  /\ out.pc = "connect"
  /\ CloseFd(out.fd)
  /\ conns' = [conns EXCEPT ![out.conn] = Forgotten(out.conn, "closed")]
  /\ out' = [out EXCEPT !.pc = "reply", !.fd = NoFd, !.conn = NoConn]
  /\ UNCHANGED <<ctxVars, rcv, linkFd, linkThr, hang, lsn, aborted>>

\* ::connect() fails: close the socket, return false.
SockRefused ==
  /\ out.pc = "connect"
  /\ CloseFd(out.fd)
  /\ conns' = [conns EXCEPT ![out.conn] = Forgotten(out.conn, "closed")]
  /\ out' = [out EXCEPT !.pc = "reply", !.reply = "BUSY", !.fd = NoFd, !.conn = NoConn]
  /\ UNCHANGED <<ctxVars, rcv, linkFd, linkThr, hang, lsn, aborted>>

SockConnect == SockSocket \/ SockConnected \/ SockRefused

-----------------------------------------------------------------------------
(* listen_thread().                                                        *)

ListenAccept ==
  /\ lsn.pc = "accept"
  /\ lsn.callers < MaxCallers
  /\ \E f \in Fd, c \in Conn :
       /\ OpenFd(f, c, "sock", "open")
       /\ lsn' = [lsn EXCEPT !.pc = "check", !.fd = f, !.conn = c,
                             !.callers = @ + 1]
  /\ UNCHANGED <<ctxVars, rcv, linkFd, linkThr, hang, out, aborted>>

\* accept() < 0 is thrown, and nobody catches it on this thread.
ListenFails ==
  /\ lsn.pc = "accept"
  /\ lsn.callers < MaxCallers
  /\ aborted' = "accept"
  /\ UNCHANGED <<ctxVars, linkVars, hang, out, lsn>>

\* comm_fd.load() == 0 ?
ListenCheck ==
  /\ lsn.pc = "check"
  /\ lsn' = [lsn EXCEPT !.pc = IF linkFd["sock"] = NoFd THEN "publish" ELSE "refuse"]
  /\ UNCHANGED <<ctxVars, linkVars, hang, out, aborted>>

\* Mutants: the caller in the line is closed in place of the new one, or the
\* new one is not closed.
ListenRefuseOther ==
  /\ lsn.pc = "refuse"
  /\ CloseFd(linkFd["sock"])
  /\ lsn' = [lsn EXCEPT !.pc = "accept", !.fd = NoFd, !.conn = NoConn]
  /\ UNCHANGED <<ctxVars, conns, rcv, linkFd, linkThr, hang, out, aborted>>

ListenRefuseNoClose ==
  /\ lsn.pc = "refuse"
  /\ lsn' = [lsn EXCEPT !.pc = "accept", !.fd = NoFd, !.conn = NoConn]
  /\ UNCHANGED <<ctxVars, linkVars, hang, out, aborted>>

\* The line is taken: the caller is closed at once, which he does not notice
\* while a receive thread waits on the connection.
ListenRefuse ==
  /\ lsn.pc = "refuse"
  /\ CloseFd(lsn.fd)
  /\ conns' = [conns EXCEPT ![lsn.conn] = Forgotten(lsn.conn, conns[lsn.conn].peer)]
  /\ lsn' = [lsn EXCEPT !.pc = "accept", !.fd = NoFd, !.conn = NoConn]
  /\ UNCHANGED <<ctxVars, rcv, linkFd, linkThr, hang, out, aborted>>

ListenPublish ==
  /\ lsn.pc = "publish"
  /\ linkFd' = [linkFd EXCEPT !["sock"] = lsn.fd]
  /\ lsn' = [lsn EXCEPT !.pc = "ring", !.fd = NoFd]
  /\ UNCHANGED <<ctxVars, fdTab, conns, rcv, linkThr, hang, out, aborted>>

ListenRing ==
  /\ lsn.pc = "ring"
  /\ ring_callback(lsn.conn)
  /\ lsn' = [lsn EXCEPT !.pc = "spawn"]
  /\ UNCHANGED <<connected, linkVars, hang, out, aborted>>

ListenSpawn ==
  /\ lsn.pc = "spawn"
  /\ SpawnFor(lsn.conn, "sock")
  /\ lsn' = [lsn EXCEPT !.pc = "pointer"]
  /\ UNCHANGED <<ctxVars, fdTab, conns, linkFd, linkThr, hang, out, aborted>>

ListenPointer ==
  /\ lsn.pc = "pointer"
  /\ linkThr' = [linkThr EXCEPT !["sock"] = lsn.conn]
  /\ lsn' = [lsn EXCEPT !.pc = "accept", !.conn = NoConn]
  /\ UNCHANGED <<ctxVars, fdTab, conns, rcv, linkFd, hang, out, aborted>>

\* What the thread does once accept() has returned.
ListenTail ==
  \/ ListenCheck
  \/ ListenRefuse
  \/ ListenPublish
  \/ ListenRing
  \/ ListenSpawn
  \/ ListenPointer

=============================================================================
