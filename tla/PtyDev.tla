-------------------------------- MODULE PtyDev --------------------------------
(***************************************************************************)
(* pty_dev: the link to a program on this machine (pppd, minicom, socat)   *)
(* over a pseudo-terminal that connect() creates.  disconnect(), send(),   *)
(* recv_thread() and the end of connect() are the steps of LinkDevice.     *)
(***************************************************************************)
EXTENDS LinkDevice

CONSTANT SlaveReopens    \* whether a program opens the slave after another left

ASSUME SlaveAssumption == SlaveReopens \in BOOLEAN

-----------------------------------------------------------------------------
(* The program at the slave side.  A master whose slave nobody has opened  *)
(* yet has nothing to read; it reports EIO after the last program closed   *)
(* the slave, until one opens it again.                                    *)

SlaveOpen(c) ==
  /\ conns[c].link = "pty"
  /\ \/ conns[c].peer = "unopened"
     \/ conns[c].peer = "closed" /\ SlaveReopens
  /\ FileHeld(c)
  /\ conns' = [conns EXCEPT ![c].peer = "open"]
  /\ UNCHANGED <<ctxVars, fdTab, rcv, linkFd, linkThr, hang, out, aborted>>

-----------------------------------------------------------------------------
(* connect(), up to the point where the descriptor is published.           *)

PtyOpened ==
  /\ out.pc = "pty"
  /\ \E f \in Fd, c \in Conn :
       /\ OpenFd(f, c, "pty", "unopened")
       /\ out' = [out EXCEPT !.pc = "publish", !.link = "pty", !.fd = f, !.conn = c]
  /\ UNCHANGED <<ctxVars, rcv, linkFd, linkThr, hang, aborted>>

\* posix_openpt(), or one of the calls after it, fails; whatever was opened
\* is closed again, and the host is told BUSY.
PtyFailed ==
  /\ out.pc = "pty"
  /\ out' = [out EXCEPT !.pc = "reply", !.reply = "BUSY"]
  /\ UNCHANGED <<ctxVars, linkVars, hang, aborted>>

PtyConnect == PtyOpened \/ PtyFailed

\* ISP::setupISP(): sysctl and iptables, then pppd on the slave, each waited
\* for; pppd puts itself into the background once its link is up.
setupISP ==
  /\ out.pc = "isp"
  /\ out' = [out EXCEPT !.pc = "reply"]
  /\ UNCHANGED <<ctxVars, linkVars, hang, aborted>>

=============================================================================
