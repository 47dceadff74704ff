------------------------------ MODULE LinkDevice ------------------------------
(***************************************************************************)
(* What tcp_sock and pty_dev have in common: a descriptor that is 0 while  *)
(* there is no link, a receive thread per link, disconnect() and send().   *)
(* The two classes are written line for line alike, so the steps are       *)
(* parameterised by the link; TcpSock and PtyDev add how each one is set   *)
(* up, and PtyDev points at its own copy of the code.                      *)
(*                                                                         *)
(* Below it lies the part of the operating system the classes use: the     *)
(* process's descriptor table, where a closed number is handed out again   *)
(* to the next open(), and the far end of each connection.                 *)
(*                                                                         *)
(* One step is what happens between two accesses to state another thread   *)
(* may touch (std::atomic descriptors, the plain recv_thread_ptr, the      *)
(* descriptor table, ctx).                                                 *)
(***************************************************************************)
EXTENDS AppContext

CONSTANT MaxSend     \* pieces of payload a far end sends on one connection

ASSUME MaxSendAssumption == MaxSend \in Nat

Link == {"sock", "pty"}
Fd == 1..MaxConn     \* descriptor numbers above the ones main() opened
NoFd == 0            \* "not connected"; to the kernel it is standard input

VARIABLES
  fdTab,             \* [Fd -> open connection or NoConn]
  conns,             \* [Conn -> the connection and its far end]
  rcv,               \* [Conn -> the receive thread started for it]
  linkFd,            \* comm_fd of tcp_sock, master_fd of pty_dev
  linkThr,           \* recv_thread_ptr of each: the thread it points to
  hang,              \* the thread in handle_disconnect(): main, or SmartSCM's ep1
  out,               \* the modem's bulk OUT thread
  aborted            \* how the process died, "no" while it runs

linkVars == <<fdTab, conns, rcv, linkFd, linkThr>>

UnusedConn == [link |-> "none", peer |-> "none", sent |-> 0, read |-> 0]
NoThread == [pc |-> "none", link |-> "sock", fd |-> NoFd,
             sel |-> NoConn, n |-> 0, obj |-> "none"]

LinkInit ==
  /\ fdTab = [f \in Fd |-> NoConn]
  /\ conns = [c \in Conn |-> UnusedConn]
  /\ rcv = [c \in Conn |-> NoThread]
  /\ linkFd = [k \in Link |-> NoFd]
  /\ linkThr = [k \in Link |-> NoConn]
  /\ hang = [pc |-> "idle", link |-> "sock", fd |-> NoFd, thr |-> NoConn]
  /\ aborted = "no"

-----------------------------------------------------------------------------
(* The operating system.                                                   *)

FreeFd == {f \in Fd : fdTab[f] = NoConn}
FreshConn == {c \in Conn : conns[c].link = "none"}

\* The file behind a descriptor; standard input is no connection.
FileOf(f) == IF f = NoFd THEN NoConn ELSE fdTab[f]

\* open(): the lowest free number, for connection c of link k.
OpenFd(f, c, k, peer) ==
  /\ f \in FreeFd /\ \A g \in FreeFd : f <= g
  /\ c \in FreshConn /\ \A d \in FreshConn : c <= d
  /\ fdTab' = [fdTab EXCEPT ![f] = c]
  /\ conns' = [conns EXCEPT ![c] = [UnusedConn EXCEPT !.link = k, !.peer = peer]]

CloseFd(f) == fdTab' = [fdTab EXCEPT ![f] = NoConn]

HasData(c) == c # NoConn /\ conns[c].read < conns[c].sent
\* End of file on a socket, EIO on a master whose slave was closed.
HungUp(c) == c # NoConn /\ conns[c].peer = "closed"
Readable(c) == HasData(c) \/ HungUp(c)

\* A file lives while a descriptor or a system call in progress refers to it.
FileHeld(c) ==
  \/ \E f \in Fd : fdTab[f] = c
  \/ \E t \in Conn : rcv[t].pc \in {"wait", "recv"} /\ rcv[t].sel = c

\* A connection that nothing refers to any more may be forgotten, so that its
\* number serves again; one a receive thread still waits on keeps a far end.
Forgotten(c, peer) == IF \E t \in Conn : rcv[t].sel = c
                      THEN [conns[c] EXCEPT !.peer = peer] ELSE UnusedConn

\* The far end sends one more piece.
PeerSend(c) ==
  /\ conns[c].peer = "open"
  /\ conns[c].sent < MaxSend
  /\ FileHeld(c)
  /\ conns' = [conns EXCEPT ![c].sent = @ + 1]
  /\ UNCHANGED <<ctxVars, fdTab, rcv, linkFd, linkThr, hang, out, aborted>>

\* The far end goes away: the peer's socket, or the last process that had
\* the slave open.
PeerClose(c) ==
  /\ conns[c].peer = "open"
  /\ FileHeld(c)
  /\ conns' = [conns EXCEPT ![c].peer = "closed"]
  /\ UNCHANGED <<ctxVars, fdTab, rcv, linkFd, linkThr, hang, out, aborted>>

-----------------------------------------------------------------------------
(* recv_thread(), one instance per std::thread, named by the connection it *)
(* was started for.  rcv[t].fd is the thread's own copy of the descriptor, *)
(* rcv[t].sel the file the system call in progress holds.                  *)

\* The thread function returns; the std::thread stays joinable.
Ended(t) == [rcv EXCEPT ![t] = [NoThread EXCEPT !.pc = "exit", !.link = rcv[t].link,
                                                !.obj = rcv[t].obj]]

RecvStart(t) ==
  /\ rcv[t].pc = "start"
  /\ rcv' = [rcv EXCEPT ![t].pc = "select", ![t].fd = linkFd[rcv[t].link]]
  /\ UNCHANGED <<ctxVars, fdTab, conns, linkFd, linkThr, hang, out, aborted>>

\* Mutant: an error of select() is taken for a timeout.
RecvSelectRetries(t) ==
  /\ rcv[t].pc = "select"
  /\ LET file == FileOf(rcv[t].fd)
     IN  rcv' = IF rcv[t].fd # NoFd /\ file = NoConn THEN rcv
                ELSE [rcv EXCEPT ![t].pc = "wait", ![t].sel = file]
  /\ UNCHANGED <<ctxVars, fdTab, conns, linkFd, linkThr, hang, out, aborted>>

\* select() looks the descriptor up; a closed one is EBADF.
RecvSelect(t) ==
  /\ rcv[t].pc = "select"
  /\ LET file == FileOf(rcv[t].fd)
     IN  rcv' = IF rcv[t].fd # NoFd /\ file = NoConn
                THEN Ended(t)
                ELSE [rcv EXCEPT ![t].pc = "wait", ![t].sel = file]
  /\ UNCHANGED <<ctxVars, fdTab, conns, linkFd, linkThr, hang, out, aborted>>

RecvReadable(t) ==
  /\ rcv[t].pc = "wait" /\ Readable(rcv[t].sel)
  /\ rcv' = [rcv EXCEPT ![t].pc = "read", ![t].sel = NoConn]
  /\ UNCHANGED <<ctxVars, fdTab, conns, linkFd, linkThr, hang, out, aborted>>

\* Mutant: the thread stops when nothing came for 100 ms.
RecvTimeoutStops(t) ==
  /\ rcv[t].pc = "wait" /\ ~Readable(rcv[t].sel)
  /\ rcv' = Ended(t)
  /\ UNCHANGED <<ctxVars, fdTab, conns, linkFd, linkThr, hang, out, aborted>>

\* 100 ms without data: stop if the link was closed, whichever link that is.
RecvTimeout(t) ==
  /\ rcv[t].pc = "wait" /\ ~Readable(rcv[t].sel)
  /\ rcv' = IF linkFd[rcv[t].link] = NoFd THEN Ended(t)
            ELSE [rcv EXCEPT ![t].pc = "select", ![t].sel = NoConn]
  /\ UNCHANGED <<ctxVars, fdTab, conns, linkFd, linkThr, hang, out, aborted>>

\* recv() and read() look the descriptor up again.
RecvLookup(t) ==
  /\ rcv[t].pc = "read"
  /\ rcv' = IF FileOf(rcv[t].fd) = NoConn
            THEN Ended(t)
            ELSE [rcv EXCEPT ![t].pc = "recv", ![t].sel = fdTab[rcv[t].fd]]
  /\ UNCHANGED <<ctxVars, fdTab, conns, linkFd, linkThr, hang, out, aborted>>

RecvData(t) ==
  /\ rcv[t].pc = "recv" /\ HasData(rcv[t].sel)
  /\ LET c == rcv[t].sel
     IN  /\ conns' = [conns EXCEPT ![c].read = @ + 1]
         /\ rcv' = [rcv EXCEPT ![t].pc = "callback", ![t].n = conns[c].read + 1]
  /\ UNCHANGED <<ctxVars, fdTab, linkFd, linkThr, hang, out, aborted>>

\* recv() <= 0: the thread ends and leaves the descriptor as it is.
RecvEnd(t) ==
  /\ rcv[t].pc = "recv" /\ ~HasData(rcv[t].sel) /\ HungUp(rcv[t].sel)
  /\ rcv' = Ended(t)
  /\ UNCHANGED <<ctxVars, fdTab, conns, linkFd, linkThr, hang, out, aborted>>

\* Mutant: the carrier is not looked at.
RecvCallbackAlways(t) ==
  /\ rcv[t].pc = "callback"
  /\ rcv' = [rcv EXCEPT ![t].pc = "enqueue"]
  /\ UNCHANGED <<ctxVars, fdTab, conns, linkFd, linkThr, hang, out, aborted>>

\* recv_callback(): payload is for the host only while the carrier is up ...
recv_callback(t) ==
  /\ rcv[t].pc = "callback"
  /\ rcv' = IF connected THEN [rcv EXCEPT ![t].pc = "enqueue"]
            ELSE [rcv EXCEPT ![t].pc = "select", ![t].sel = NoConn, ![t].n = 0]
  /\ UNCHANGED <<ctxVars, fdTab, conns, linkFd, linkThr, hang, out, aborted>>

\* ... and goes into the buffer in a later step.
RecvEnqueue(t) ==
  /\ rcv[t].pc = "enqueue"
  /\ Enqueue("DATA", rcv[t].sel, rcv[t].n)
  /\ rcv' = [rcv EXCEPT ![t].pc = "select", ![t].sel = NoConn, ![t].n = 0]
  /\ UNCHANGED <<connected, fdTab, conns, linkFd, linkThr, hang, out, aborted>>

RecvThread(t) ==
  \/ RecvStart(t)
  \/ RecvSelect(t)
  \/ RecvReadable(t)
  \/ RecvTimeout(t)
  \/ RecvLookup(t)
  \/ RecvData(t)
  \/ RecvEnd(t)
  \/ recv_callback(t)
  \/ RecvEnqueue(t)

-----------------------------------------------------------------------------
(* disconnect(), run by the thread in handle_disconnect(): first for the   *)
(* socket, then for the pseudo-terminal.                                   *)

\* Mutant: handle_disconnect() forgets the pseudo-terminal.
NextLinkForgetsPty == [hang EXCEPT !.pc = "idle", !.link = "sock"]

\* Where handle_disconnect() goes after the link of this disconnect().
NextLink ==
  IF hang.link = "sock" THEN [hang EXCEPT !.pc = "check", !.link = "pty"]
                        ELSE [hang EXCEPT !.pc = "idle", !.link = "sock"]

\* Mutant: the receive thread is joined before the descriptor is closed.
DisconnectJoinsFirst ==
  /\ hang.pc = "check"
  /\ hang' = IF linkFd[hang.link] = NoFd THEN NextLink
             ELSE [hang EXCEPT !.pc = "thread", !.fd = linkFd[hang.link]]
  /\ UNCHANGED <<ctxVars, linkVars, out, aborted>>

\* is_connected(), and the load of the same descriptor that follows it.
DisconnectLoad ==
  /\ hang.pc = "check"
  /\ hang' = IF linkFd[hang.link] = NoFd THEN NextLink
             ELSE [hang EXCEPT !.pc = "close", !.fd = linkFd[hang.link]]
  /\ UNCHANGED <<ctxVars, linkVars, out, aborted>>

\* Mutant: the descriptor is not closed.
DisconnectNoClose ==
  /\ hang.pc = "close"
  /\ hang' = [hang EXCEPT !.pc = "zero", !.fd = NoFd]
  /\ UNCHANGED <<ctxVars, linkVars, out, aborted>>

DisconnectClose ==
  /\ hang.pc = "close"
  /\ CloseFd(hang.fd)
  /\ hang' = [hang EXCEPT !.pc = "zero", !.fd = NoFd]
  /\ UNCHANGED <<ctxVars, conns, rcv, linkFd, linkThr, out, aborted>>

\* Mutant: the descriptor is not set to 0 behind the close().
DisconnectNoZero ==
  /\ hang.pc = "zero"
  /\ hang' = [hang EXCEPT !.pc = "thread"]
  /\ UNCHANGED <<ctxVars, linkVars, out, aborted>>

DisconnectZero ==
  /\ hang.pc = "zero"
  /\ linkFd' = [linkFd EXCEPT ![hang.link] = NoFd]
  /\ hang' = [hang EXCEPT !.pc = "thread"]
  /\ UNCHANGED <<ctxVars, fdTab, conns, rcv, linkThr, out, aborted>>

\* Mutant: no join().
DisconnectNoJoin ==
  /\ hang.pc = "thread"
  /\ hang' = IF linkThr[hang.link] = NoConn THEN NextLink ELSE [hang EXCEPT !.pc = "delete"]
  /\ UNCHANGED <<ctxVars, linkVars, out, aborted>>

\* recv_thread_ptr != nullptr, joinable().
DisconnectThread ==
  /\ hang.pc = "thread"
  /\ LET t == linkThr[hang.link]
     IN  hang' = IF t = NoConn THEN NextLink
                 ELSE IF rcv[t].obj = "joinable"
                      THEN [hang EXCEPT !.pc = "join", !.thr = t]
                      ELSE [hang EXCEPT !.pc = "delete"]
  /\ UNCHANGED <<ctxVars, linkVars, out, aborted>>

DisconnectJoin ==
  /\ hang.pc = "join"
  /\ rcv[hang.thr].pc = "exit"
  /\ rcv' = [rcv EXCEPT ![hang.thr].obj = "joined"]
  /\ hang' = [hang EXCEPT !.pc = "delete", !.thr = NoConn]
  /\ UNCHANGED <<ctxVars, fdTab, conns, linkFd, linkThr, out, aborted>>

\* delete recv_thread_ptr reads the pointer again; the destructor of a
\* std::thread that is still joinable is std::terminate().
DisconnectDelete ==
  /\ hang.pc = "delete"
  /\ LET t == linkThr[hang.link]
     IN  IF rcv[t].obj = "joinable"
         THEN aborted' = "terminate" /\ UNCHANGED <<rcv, hang>>
         ELSE /\ rcv' = [rcv EXCEPT ![t].obj = "deleted"]
              /\ hang' = [hang EXCEPT !.pc = "null"]
              /\ UNCHANGED aborted
  /\ UNCHANGED <<ctxVars, fdTab, conns, linkFd, linkThr, out>>

DisconnectNull ==
  /\ hang.pc = "null"
  /\ linkThr' = [linkThr EXCEPT ![hang.link] = NoConn]
  /\ hang' = NextLink
  /\ UNCHANGED <<ctxVars, fdTab, conns, rcv, linkFd, out, aborted>>

Disconnect ==
  \/ DisconnectLoad
  \/ DisconnectClose
  \/ DisconnectZero
  \/ DisconnectThread
  \/ DisconnectJoin
  \/ DisconnectDelete
  \/ DisconnectNull

-----------------------------------------------------------------------------
(* send(), run by the bulk OUT thread: it loads the descriptor and writes  *)
(* to it in a later step.  What the far end receives is not modelled.      *)

SendLoad(k) == out' = [out EXCEPT !.pc = IF linkFd[k] = NoFd THEN "sent" ELSE "send",
                                  !.fd = linkFd[k]]

\* write() or send(); a descriptor closed meanwhile is an error, and ignored.
SendWrite ==
  /\ out.pc = "send"
  /\ out' = [out EXCEPT !.pc = "sent", !.fd = NoFd]
  /\ UNCHANGED <<ctxVars, linkVars, hang, aborted>>

-----------------------------------------------------------------------------
(* The end of connect(), once the bulk OUT thread holds an open descriptor *)
(* out.fd for connection out.conn.                                         *)

\* comm_fd.store(), master_fd.store().
ConnectPublish ==
  /\ out.pc = "publish"
  /\ linkFd' = [linkFd EXCEPT ![out.link] = out.fd]
  /\ out' = [out EXCEPT !.pc = "spawn", !.fd = NoFd]
  /\ UNCHANGED <<ctxVars, fdTab, conns, rcv, linkThr, hang, aborted>>

SpawnFor(c, k) == rcv' = [rcv EXCEPT ![c] = [NoThread EXCEPT !.pc = "start",
                                     !.link = k, !.obj = "joinable"]]

\* new std::thread(): the thread runs before the pointer to it is stored.
ConnectSpawn ==
  /\ out.pc = "spawn"
  /\ SpawnFor(out.conn, out.link)
  /\ out' = [out EXCEPT !.pc = "pointer"]
  /\ UNCHANGED <<ctxVars, fdTab, conns, linkFd, linkThr, hang, aborted>>

\* Mutant: the pointer goes into a local variable.
ConnectPointerLocal ==
  /\ out.pc = "pointer"
  /\ out' = [out EXCEPT !.pc = IF out.link = "pty" THEN "isp" ELSE "reply",
                        !.reply = "CONNECT"]
  /\ UNCHANGED <<ctxVars, linkVars, hang, aborted>>

\* recv_thread_ptr = ...; return true.
ConnectPointer ==
  /\ out.pc = "pointer"
  /\ linkThr' = [linkThr EXCEPT ![out.link] = out.conn]
  /\ out' = [out EXCEPT !.pc = IF out.link = "pty" THEN "isp" ELSE "reply",
                        !.reply = "CONNECT"]
  /\ UNCHANGED <<ctxVars, fdTab, conns, rcv, linkFd, hang, aborted>>

ConnectTail == ConnectPublish \/ ConnectSpawn \/ ConnectPointer

=============================================================================
