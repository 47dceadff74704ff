-------------------------- MODULE CallSessionProofs --------------------------
(***************************************************************************)
(* Theorems about CallSession, for every number of connections, callers,   *)
(* transfers and hang-ups, in client and in server mode, for a patient and *)
(* an impatient host.                                                      *)
(***************************************************************************)
EXTENDS CallSession, TLAPS

\* By the time process_at() writes its answer it has one; the two ways of
\* bringing up a link arrive there through ConnectPointer.
ReplyKnown ==
  /\ out.pc = "isp" => out.reply = "CONNECT"
  /\ out.pc = "reply" => out.reply # "none"

-----------------------------------------------------------------------------
(* Types.                                                                  *)

\* The history variable of collisions stays Boolean.
LEMMA GhostTyped ==
  ASSUME collided \in BOOLEAN, Ghost
  PROVE  collided' \in BOOLEAN
  BY Zenon DEF Ghost

\* What becomes of a std::thread object, whatever the pointer points to.
LEMMA ObjTyped ==
  ASSUME NEW r \in [Conn -> RcvType], NEW t, NEW o \in {"joinable", "joined", "deleted"}
  PROVE  [r EXCEPT ![t].obj = o] \in [Conn -> RcvType]
<1>1. CASE t \in Conn
  <2>1. [r[t] EXCEPT !.obj = o] \in RcvType
    BY <1>1, Zenon DEF RcvType
  <2> QED BY <1>1, <2>1, Zenon
<1>2. CASE t \notin Conn
  BY <1>2, Zenon
<1> QED BY <1>1, <1>2

\* The initial state is typed.
LEMMA InitTyped == Init => TypeOK
<1> SUFFICES ASSUME Init PROVE TypeOK
  OBVIOUS
<1>1. connected \in BOOLEAN /\ collided \in BOOLEAN /\ echo \in BOOLEAN
      /\ aborted \in {"no", "terminate", "out_of_range", "accept"}
  BY Zenon DEF Init, CtxInit, LinkInit
<1>2. fdTab \in [Fd -> Conn \cup {NoConn}]
  BY SMT DEF Init, LinkInit
<1>3. conns \in [Conn -> ConnType]
  BY Zenon DEF Init, LinkInit, UnusedConn, ConnType
<1>4. rcv \in [Conn -> RcvType]
  BY Zenon DEF Init, LinkInit, NoThread, RcvType, Link
<1>5. linkFd \in [Link -> Fd \cup {NoFd}] /\ linkThr \in [Link -> Conn \cup {NoConn}]
  BY SMT DEF Init, LinkInit
<1>6. hang \in HangType /\ out \in OutType
  BY Zenon DEF Init, LinkInit, HangType, OutType, OutPc, Link
<1>7. lsn \in LsnType
  BY Zenon DEF Init, SockInit, LsnType
<1>8. tx \in Seq(Piece) /\ buffer \in Seq(Token)
  BY SMT DEF Init, CtxInit
<1>9. used \in [packets : Nat, hooks : Nat]
  BY SMT DEF Init
<1> QED BY <1>1, <1>2, <1>3, <1>4, <1>5, <1>6, <1>7, <1>8, <1>9 DEF TypeOK

\* Opening, closing and forgetting a connection.
LEMMA OpenTyped ==
  ASSUME TypeOK, NEW f \in Fd, NEW c \in Conn, NEW k \in Link,
         NEW p \in {"connecting", "unopened", "open"}, OpenFd(f, c, k, p)
  PROVE  fdTab' \in [Fd -> Conn \cup {NoConn}] /\ conns' \in [Conn -> ConnType]
<1>1. 0 \in Nat
  BY SMT
<1>2. [UnusedConn EXCEPT !.link = k, !.peer = p] \in ConnType
  BY <1>1, Zenon DEF UnusedConn, ConnType
<1>3. conns' = [conns EXCEPT ![c] = [UnusedConn EXCEPT !.link = k, !.peer = p]]
  BY Zenon DEF OpenFd
<1>4. conns' \in [Conn -> ConnType]
  BY <1>2, <1>3, Zenon DEF TypeOK
<1>5. fdTab' \in [Fd -> Conn \cup {NoConn}]
  BY Zenon DEF OpenFd, TypeOK
<1> QED BY <1>4, <1>5

\* close() keeps the type of the descriptor table.
LEMMA CloseTyped ==
  ASSUME TypeOK, NEW f, CloseFd(f)
  PROVE  fdTab' \in [Fd -> Conn \cup {NoConn}]
  BY Zenon DEF CloseFd, TypeOK

\* A connection whose last descriptor is gone keeps its type.
LEMMA ForgetTyped ==
  ASSUME TypeOK, NEW c,
         NEW p, p \in {"none", "connecting", "unopened", "open", "closed"} \/ p = conns[c].peer
  PROVE  [conns EXCEPT ![c] = Forgotten(c, p)] \in [Conn -> ConnType]
<1>1. CASE c \in Conn
  <2>1. 0 \in Nat
    BY SMT
  <2>2. conns[c] \in ConnType
    BY <1>1, Zenon DEF TypeOK
  <2>3. [conns[c] EXCEPT !.peer = p] \in ConnType
    BY <2>2, Zenon DEF ConnType
  <2>4. UnusedConn \in ConnType
    BY <2>1, Zenon DEF UnusedConn, ConnType
  <2>5. Forgotten(c, p) \in ConnType
    BY <2>3, <2>4, Zenon DEF Forgotten
  <2> QED BY <1>1, <2>5, Zenon DEF TypeOK
<1>2. CASE c \notin Conn
  BY <1>2, Zenon DEF TypeOK
<1> QED BY <1>1, <1>2

\* A new receive thread has the type of one.
LEMMA SpawnTyped ==
  ASSUME TypeOK, NEW c, NEW k \in Link, SpawnFor(c, k)
  PROVE  rcv' \in [Conn -> RcvType]
<1>1. NoFd \in Fd \cup {NoFd} /\ NoConn \in Conn \cup {NoConn} /\ 0 \in Nat
  BY SMT
<1>2. [NoThread EXCEPT !.pc = "start", !.link = k, !.obj = "joinable"] \in RcvType
  BY <1>1, Zenon DEF NoThread, RcvType
<1>3. rcv' = [rcv EXCEPT ![c] = [NoThread EXCEPT !.pc = "start", !.link = k, !.obj = "joinable"]]
  BY Zenon DEF SpawnFor
<1> QED BY <1>2, <1>3, Zenon DEF TypeOK

\* A piece of command output.
LEMMA EnqueueTyped ==
  ASSUME TypeOK, NEW code \in ResultCode \cup {"RING", "ECHO", "DATA"},
         NEW c \in Conn \cup {NoConn}, NEW n \in Nat, Enqueue(code, c, n)
  PROVE  tx' \in Seq(Piece)
<1>1. [code |-> code, conn |-> c, n |-> n] \in Piece
  BY SMT DEF Piece
<1> QED BY <1>1, SMT DEF Enqueue, TypeOK

\* The hang-up thread keeps the types.
LEMMA HangUpTyped ==
  ASSUME TypeOK, HangUpNext
  PROVE  TypeOK'
<1> USE DEF sessionVars, linkVars, ctxVars
<1>0. collided' \in BOOLEAN /\ UNCHANGED <<lsn, buffer, echo, used>>
  BY GhostTyped, Zenon DEF HangUpNext, TypeOK
<1>1. /\ hang.link \in Link /\ hang.fd \in Fd \cup {NoFd}
      /\ hang.thr \in Conn \cup {NoConn} /\ hang \in HangType
  BY Zenon DEF TypeOK, HangType
<1>2. NextLink \in HangType
  BY <1>1, Zenon DEF NextLink, HangType, Link
<1>3. linkFd[hang.link] \in Fd \cup {NoFd} /\ linkThr[hang.link] \in Conn \cup {NoConn}
  BY <1>1, Zenon DEF TypeOK
<1>4. CASE DisconnectLoad
  <2>1. [hang EXCEPT !.pc = "close", !.fd = linkFd[hang.link]] \in HangType
    BY <1>1, <1>3, Zenon DEF HangType
  <2> QED BY <1>0, <1>2, <1>4, <2>1, SMT DEF DisconnectLoad, TypeOK
<1>5. CASE DisconnectClose
  <2>1. [hang EXCEPT !.pc = "zero", !.fd = NoFd] \in HangType
    BY <1>1, Zenon DEF HangType
  <2>2. [fdTab EXCEPT ![hang.fd] = NoConn] \in [Fd -> Conn \cup {NoConn}]
    BY Zenon DEF TypeOK
  <2> QED BY <1>0, <1>5, <2>1, <2>2, SMT DEF DisconnectClose, CloseFd, TypeOK
<1>6. CASE DisconnectZero
  <2>1. [hang EXCEPT !.pc = "thread"] \in HangType
    BY <1>1, Zenon DEF HangType
  <2>2. [linkFd EXCEPT ![hang.link] = NoFd] \in [Link -> Fd \cup {NoFd}]
    BY Zenon DEF TypeOK
  <2> QED BY <1>0, <1>6, <2>1, <2>2, SMT DEF DisconnectZero, TypeOK
<1>7. CASE DisconnectThread
  <2>1. [hang EXCEPT !.pc = "join", !.thr = linkThr[hang.link]] \in HangType
        /\ [hang EXCEPT !.pc = "delete"] \in HangType
    BY <1>1, <1>3, Zenon DEF HangType
  <2> QED BY <1>0, <1>2, <1>7, <2>1, SMT DEF DisconnectThread, TypeOK
<1>8. CASE DisconnectJoin
  <2>1. [hang EXCEPT !.pc = "delete", !.thr = NoConn] \in HangType
    BY <1>1, Zenon DEF HangType
  <2>2. [rcv EXCEPT ![hang.thr].obj = "joined"] \in [Conn -> RcvType]
    BY ObjTyped, Zenon DEF TypeOK
  <2> QED BY <1>0, <1>8, <2>1, <2>2, SMT DEF DisconnectJoin, TypeOK
<1>9. CASE DisconnectDelete
  <2>1. [hang EXCEPT !.pc = "null"] \in HangType
    BY <1>1, Zenon DEF HangType
  <2>2. [rcv EXCEPT ![linkThr[hang.link]].obj = "deleted"] \in [Conn -> RcvType]
    BY ObjTyped, Zenon DEF TypeOK
  <2>3. hang' \in HangType /\ rcv' \in [Conn -> RcvType]
        /\ aborted' \in {"no", "terminate", "out_of_range", "accept"}
    BY <1>9, <2>1, <2>2, Zenon DEF DisconnectDelete, TypeOK
  <2> QED BY <1>0, <1>9, <2>3, SMT DEF DisconnectDelete, TypeOK
<1>10. CASE DisconnectNull
  <2>1. [linkThr EXCEPT ![hang.link] = NoConn] \in [Link -> Conn \cup {NoConn}]
    BY Zenon DEF TypeOK
  <2> QED BY <1>0, <1>2, <1>10, <2>1, SMT DEF DisconnectNull, TypeOK
<1> QED BY <1>4, <1>5, <1>6, <1>7, <1>8, <1>9, <1>10 DEF HangUpNext, Disconnect

\* So do the receive threads.
LEMMA RecvTyped ==
  ASSUME TypeOK, NEW t \in Conn, RecvNext(t)
  PROVE  TypeOK'
<1> USE DEF sessionVars, linkVars, ctxVars
<1>0. collided' \in BOOLEAN /\ UNCHANGED <<lsn, buffer, echo, used, hang, out, linkFd,
                                          linkThr, fdTab, aborted, connected>>
  BY GhostTyped, Zenon DEF RecvNext, TypeOK, RecvThread, RecvStart, RecvSelect, RecvReadable,
       RecvTimeout, RecvLookup, RecvData, RecvEnd, recv_callback, RecvEnqueue
<1>1. /\ rcv[t] \in RcvType /\ rcv[t].link \in Link
      /\ rcv[t].fd \in Fd \cup {NoFd} /\ rcv[t].sel \in Conn \cup {NoConn}
      /\ rcv[t].n \in Nat /\ rcv[t].obj \in {"none", "joinable", "joined", "deleted"}
  BY Zenon DEF TypeOK, RcvType
<1>2. NoFd \in Fd \cup {NoFd} /\ NoConn \in Conn \cup {NoConn} /\ 0 \in Nat
  BY SMT
<1>3. Ended(t) \in [Conn -> RcvType]
  <2>1. [NoThread EXCEPT !.pc = "exit", !.link = rcv[t].link, !.obj = rcv[t].obj] \in RcvType
    BY <1>1, <1>2, Zenon DEF NoThread, RcvType
  <2> QED BY <2>1, Zenon DEF Ended, TypeOK
\* rcv, conns and tx are all a receive thread writes to.
<1>4. SUFFICES rcv' \in [Conn -> RcvType] /\ conns' \in [Conn -> ConnType] /\ tx' \in Seq(Piece)
  BY <1>0, SMT DEF TypeOK
<1>5. ASSUME NEW r \in RcvType
      PROVE  [rcv EXCEPT ![t] = r] \in [Conn -> RcvType]
  BY <1>5, Zenon DEF TypeOK
<1>6. CASE RecvStart(t)
  <2>1. linkFd[rcv[t].link] \in Fd \cup {NoFd}
    BY <1>1, Zenon DEF TypeOK
  <2>2. [rcv[t] EXCEPT !.pc = "select", !.fd = linkFd[rcv[t].link]] \in RcvType
    BY <1>1, <2>1, Zenon DEF RcvType
  <2>3. rcv' = [rcv EXCEPT ![t] = [rcv[t] EXCEPT !.pc = "select", !.fd = linkFd[rcv[t].link]]]
    BY <1>6, Zenon DEF RecvStart
  <2> QED BY <1>5, <1>6, <2>2, <2>3, SMT DEF RecvStart, TypeOK
<1>7. CASE RecvSelect(t)
  <2>1. FileOf(rcv[t].fd) \in Conn \cup {NoConn}
    BY <1>1, SMT DEF FileOf, TypeOK
  <2>2. [rcv[t] EXCEPT !.pc = "wait", !.sel = FileOf(rcv[t].fd)] \in RcvType
    BY <1>1, <2>1, Zenon DEF RcvType
  <2>3. rcv' \in {Ended(t), [rcv EXCEPT ![t] = [rcv[t] EXCEPT !.pc = "wait",
                                                             !.sel = FileOf(rcv[t].fd)]]}
    BY <1>7, Zenon DEF RecvSelect
  <2> QED BY <1>3, <1>5, <1>7, <2>2, <2>3, SMT DEF RecvSelect, TypeOK
<1>8. CASE RecvReadable(t)
  <2>1. [rcv[t] EXCEPT !.pc = "read", !.sel = NoConn] \in RcvType
    BY <1>1, Zenon DEF RcvType
  <2>2. rcv' = [rcv EXCEPT ![t] = [rcv[t] EXCEPT !.pc = "read", !.sel = NoConn]]
    BY <1>8, Zenon DEF RecvReadable
  <2> QED BY <1>5, <1>8, <2>1, <2>2, SMT DEF RecvReadable, TypeOK
<1>9. CASE RecvTimeout(t)
  <2>1. [rcv[t] EXCEPT !.pc = "select", !.sel = NoConn] \in RcvType
    BY <1>1, Zenon DEF RcvType
  <2>2. rcv' \in {Ended(t), [rcv EXCEPT ![t] = [rcv[t] EXCEPT !.pc = "select", !.sel = NoConn]]}
    BY <1>9, Zenon DEF RecvTimeout
  <2> QED BY <1>3, <1>5, <1>9, <2>1, <2>2, SMT DEF RecvTimeout, TypeOK
<1>10. CASE RecvLookup(t)
  <2>1. CASE FileOf(rcv[t].fd) = NoConn
    BY <1>3, <1>10, <2>1, SMT DEF RecvLookup, TypeOK
  <2>2. CASE FileOf(rcv[t].fd) # NoConn
    <3>1. fdTab[rcv[t].fd] \in Conn \cup {NoConn}
      BY <1>1, <2>2, SMT DEF FileOf, TypeOK
    <3>2. [rcv[t] EXCEPT !.pc = "recv", !.sel = fdTab[rcv[t].fd]] \in RcvType
      BY <1>1, <3>1, Zenon DEF RcvType
    <3>3. rcv' = [rcv EXCEPT ![t] = [rcv[t] EXCEPT !.pc = "recv", !.sel = fdTab[rcv[t].fd]]]
      BY <1>10, <2>2, Zenon DEF RecvLookup
    <3> QED BY <1>5, <1>10, <3>2, <3>3, SMT DEF RecvLookup, TypeOK
  <2> QED BY <2>1, <2>2
<1>11. CASE RecvData(t)
  <2> DEFINE c == rcv[t].sel
  <2>1. c \in Conn
    BY <1>1, <1>11, Zenon DEF RecvData, HasData
  <2>2. conns[c] \in ConnType /\ conns[c].read + 1 \in Nat
    BY <2>1, SMT DEF TypeOK, ConnType
  <2>3. [rcv[t] EXCEPT !.pc = "callback", !.n = conns[c].read + 1] \in RcvType
    BY <1>1, <2>2, Zenon DEF RcvType
  <2>4. [conns[c] EXCEPT !.read = conns[c].read + 1] \in ConnType
    BY <2>2, Zenon DEF ConnType
  <2>5. [conns EXCEPT ![c] = [conns[c] EXCEPT !.read = conns[c].read + 1]] \in [Conn -> ConnType]
    BY <2>4, Zenon DEF TypeOK
  <2>6. /\ rcv' = [rcv EXCEPT ![t] = [rcv[t] EXCEPT !.pc = "callback", !.n = conns[c].read + 1]]
        /\ conns' = [conns EXCEPT ![c] = [conns[c] EXCEPT !.read = conns[c].read + 1]]
    BY <1>11, Zenon DEF RecvData
  <2> QED BY <1>5, <1>11, <2>3, <2>5, <2>6, SMT DEF RecvData, TypeOK
<1>12. CASE RecvEnd(t)
  BY <1>3, <1>12, SMT DEF RecvEnd, TypeOK
<1>13. CASE recv_callback(t)
  <2>1. [rcv[t] EXCEPT !.pc = "enqueue"] \in RcvType
        /\ [rcv[t] EXCEPT !.pc = "select", !.sel = NoConn, !.n = 0] \in RcvType
    BY <1>1, <1>2, Zenon DEF RcvType
  <2>2. rcv' \in {[rcv EXCEPT ![t] = [rcv[t] EXCEPT !.pc = "enqueue"]],
                  [rcv EXCEPT ![t] = [rcv[t] EXCEPT !.pc = "select", !.sel = NoConn, !.n = 0]]}
    BY <1>13, Zenon DEF recv_callback
  <2> QED BY <1>5, <1>13, <2>1, <2>2, SMT DEF recv_callback, TypeOK
<1>14. CASE RecvEnqueue(t)
  <2>1. [rcv[t] EXCEPT !.pc = "select", !.sel = NoConn, !.n = 0] \in RcvType
    BY <1>1, <1>2, Zenon DEF RcvType
  <2>2. rcv' = [rcv EXCEPT ![t] = [rcv[t] EXCEPT !.pc = "select", !.sel = NoConn, !.n = 0]]
    BY <1>14, Zenon DEF RecvEnqueue
  <2>4. tx' \in Seq(Piece)
    BY <1>1, <1>14, EnqueueTyped, Zenon DEF RecvEnqueue
  <2> QED BY <1>5, <1>14, <2>1, <2>2, <2>4, SMT DEF RecvEnqueue, TypeOK
<1> QED BY <1>6, <1>7, <1>8, <1>9, <1>10, <1>11, <1>12, <1>13, <1>14 DEF RecvNext, RecvThread

\* So does the bulk OUT thread: setting up a link ...
LEMMA ConnectTyped ==
  ASSUME TypeOK, Ghost,
         \/ SockConnect
         \/ (PtyConnect \/ setupISP \/ ConnectTail \/ SendWrite) /\ UNCHANGED lsn,
         UNCHANGED sessionVars
  PROVE  TypeOK'
<1> USE DEF sessionVars, linkVars, ctxVars
<1>0. collided' \in BOOLEAN
  BY GhostTyped DEF TypeOK
<1>1. /\ out \in OutType /\ out.link \in Link /\ out.fd \in Fd \cup {NoFd}
      /\ out.conn \in Conn \cup {NoConn}
  BY Zenon DEF TypeOK, OutType
<1>2. CASE SockSocket
  <2>1. PICK f \in Fd, c \in Conn :
          /\ OpenFd(f, c, "sock", "connecting")
          /\ out' = [out EXCEPT !.pc = "connect", !.link = "sock", !.fd = f, !.conn = c]
    BY <1>2, Zenon DEF SockSocket
  <2>2. fdTab' \in [Fd -> Conn \cup {NoConn}] /\ conns' \in [Conn -> ConnType]
    BY <2>1, OpenTyped, Zenon DEF Link
  <2>3. out' \in OutType
    BY <1>1, <2>1, Zenon DEF OutType, OutPc, Link
  <2> QED BY <1>0, <1>2, <2>2, <2>3, SMT DEF SockSocket, TypeOK
<1>3. CASE SockConnected
  <2>1. conns' \in [Conn -> ConnType]
    <3>1. CASE out.conn \in Conn
      <4>1. conns[out.conn] \in ConnType
        BY <3>1, Zenon DEF TypeOK
      <4>2. [conns[out.conn] EXCEPT !.peer = "open"] \in ConnType
        BY <4>1, Zenon DEF ConnType
      <4> QED BY <1>3, <3>1, <4>2, Zenon DEF SockConnected, TypeOK
    <3>2. CASE out.conn \notin Conn
      BY <1>3, <3>2, Zenon DEF SockConnected, TypeOK
    <3> QED BY <3>1, <3>2
  <2>2. out' \in OutType
    BY <1>1, <1>3, Zenon DEF SockConnected, OutType, OutPc
  <2> QED BY <1>0, <1>3, <2>1, <2>2, SMT DEF SockConnected, TypeOK
<1>4. CASE SockRefused
  <2>1. conns' \in [Conn -> ConnType] /\ fdTab' \in [Fd -> Conn \cup {NoConn}]
    BY <1>4, ForgetTyped, CloseTyped, Zenon DEF SockRefused
  <2>2. out' \in OutType
    BY <1>1, <1>4, Zenon DEF SockRefused, OutType, OutPc, ResultCode
  <2> QED BY <1>0, <1>4, <2>1, <2>2, SMT DEF SockRefused, TypeOK
<1>5. CASE PtyOpened /\ UNCHANGED lsn
  <2>1. PICK f \in Fd, c \in Conn :
          /\ OpenFd(f, c, "pty", "unopened")
          /\ out' = [out EXCEPT !.pc = "publish", !.link = "pty", !.fd = f, !.conn = c]
    BY <1>5, Zenon DEF PtyOpened
  <2>2. fdTab' \in [Fd -> Conn \cup {NoConn}] /\ conns' \in [Conn -> ConnType]
    BY <2>1, OpenTyped, Zenon DEF Link
  <2>3. out' \in OutType
    BY <1>1, <2>1, Zenon DEF OutType, OutPc, Link
  <2> QED BY <1>0, <1>5, <2>2, <2>3, SMT DEF PtyOpened, TypeOK
<1>6. CASE PtyFailed /\ UNCHANGED lsn
  <2>1. out' \in OutType
    BY <1>1, <1>6, Zenon DEF PtyFailed, OutType, OutPc, ResultCode
  <2> QED BY <1>0, <1>6, <2>1, SMT DEF PtyFailed, TypeOK
<1>7. CASE setupISP /\ UNCHANGED lsn
  <2>1. out' \in OutType
    BY <1>1, <1>7, Zenon DEF setupISP, OutType, OutPc
  <2> QED BY <1>0, <1>7, <2>1, SMT DEF setupISP, TypeOK
<1>8. CASE ConnectPublish /\ UNCHANGED lsn
  <2>1. out' \in OutType
    BY <1>1, <1>8, Zenon DEF ConnectPublish, OutType, OutPc
  <2>2. linkFd' \in [Link -> Fd \cup {NoFd}]
    BY <1>1, <1>8, Zenon DEF ConnectPublish, TypeOK
  <2> QED BY <1>0, <1>8, <2>1, <2>2, SMT DEF ConnectPublish, TypeOK
<1>9. CASE ConnectSpawn /\ UNCHANGED lsn
  <2>1. out' \in OutType
    BY <1>1, <1>9, Zenon DEF ConnectSpawn, OutType, OutPc
  <2>2. rcv' \in [Conn -> RcvType]
    BY <1>1, <1>9, SpawnTyped, Zenon DEF ConnectSpawn
  <2> QED BY <1>0, <1>9, <2>1, <2>2, SMT DEF ConnectSpawn, TypeOK
<1>10. CASE ConnectPointer /\ UNCHANGED lsn
  <2>1. (IF out.link = "pty" THEN "isp" ELSE "reply") \in OutPc
    BY Zenon DEF OutPc
  <2>2. out' \in OutType
    BY <1>1, <1>10, <2>1, Zenon DEF ConnectPointer, OutType, ResultCode
  <2>3. linkThr' \in [Link -> Conn \cup {NoConn}]
    BY <1>1, <1>10, Zenon DEF ConnectPointer, TypeOK
  <2> QED BY <1>0, <1>10, <2>2, <2>3, SMT DEF ConnectPointer, TypeOK
<1>11. CASE SendWrite /\ UNCHANGED lsn
  <2>1. out' \in OutType
    BY <1>1, <1>11, Zenon DEF SendWrite, OutType, OutPc
  <2> QED BY <1>0, <1>11, <2>1, SMT DEF SendWrite, TypeOK
<1> QED BY <1>2, <1>3, <1>4, <1>5, <1>6, <1>7, <1>8, <1>9, <1>10, <1>11
         DEF SockConnect, PtyConnect, ConnectTail

\* ... running the AT commands ...
LEMMA CommandTyped ==
  ASSUME TypeOK, ReplyKnown, Ghost,
         \/ OfflineDone \/ TakeLine \/ AtEcho \/ AtExt \/ AtPlain \/ AtAnswer
         \/ AtPpp \/ AtNoSock \/ AtDial \/ AtReply \/ AtRaise
  PROVE  TypeOK'
<1> USE DEF sessionVars, linkVars, ctxVars
<1>0. collided' \in BOOLEAN
  BY GhostTyped DEF TypeOK
<1>1. /\ out \in OutType /\ out.conn \in Conn \cup {NoConn}
      /\ out.line \in Lines \cup {"none"} /\ out.reply \in ResultCode \cup {"none"}
  BY Zenon DEF TypeOK, OutType
<1>2. 0 \in Nat /\ NoConn \in Conn \cup {NoConn}
  BY SMT
<1>3. CASE OfflineDone
  <2>1. out' \in OutType
    BY <1>1, <1>3, Zenon DEF OfflineDone, OutType, OutPc
  <2> QED BY <1>0, <1>3, <2>1, SMT DEF OfflineDone, TypeOK
<1>4. CASE TakeLine
  <2>1. PICK i \in LineEnds(buffer) :
          /\ LET line == IF i = 1 THEN buffer[1] ELSE "garbled"
             IN  out' = IF line = "CR" THEN out
                        ELSE [out EXCEPT !.line = line,
                                         !.pc = IF echo THEN "echo" ELSE "cmd"]
          /\ buffer' = SubSeq(buffer, i + 1, Len(buffer))
    BY <1>4, Zenon DEF TakeLine
  <2>2. i \in 1..Len(buffer) /\ buffer[i] \in Token /\ buffer[i] # "data"
    BY SMT DEF LineEnds, TypeOK
  <2> DEFINE line == IF i = 1 THEN buffer[1] ELSE "garbled"
  <2>3. line \in Lines \cup {"CR"}
    BY <2>2, Zenon DEF Token, Lines, PlainLines
  <2>4. (IF echo THEN "echo" ELSE "cmd") \in OutPc
    BY Zenon DEF OutPc
  <2>5. out' \in OutType
    <3>1. CASE line = "CR"
      BY <1>1, <2>1, <3>1, Zenon
    <3>2. CASE line # "CR"
      <4>1. line \in Lines \cup {"none"}
        BY <2>3, <3>2, Zenon
      <4>2. out' = [out EXCEPT !.line = line, !.pc = IF echo THEN "echo" ELSE "cmd"]
        BY <2>1, <3>2, Zenon
      <4> HIDE DEF line
      <4> QED BY <1>1, <2>4, <4>1, <4>2, Zenon DEF OutType
    <3> QED BY <3>1, <3>2
  <2>6. buffer' \in Seq(Token)
    BY <2>1, <2>2, SMT DEF TypeOK
  <2> QED BY <1>0, <1>4, <2>5, <2>6, Zenon DEF TakeLine, TypeOK
<1>5. CASE AtEcho
  <2>1. out' \in OutType
    BY <1>1, <1>5, Zenon DEF AtEcho, OutType, OutPc
  <2>2. tx' \in Seq(Piece)
    BY <1>2, <1>5, EnqueueTyped, Zenon DEF AtEcho
  <2> QED BY <1>0, <1>5, <2>1, <2>2, SMT DEF AtEcho, TypeOK
<1>6. CASE AtExt
  <2>1. ExtReply[out.line] \in ResultCode
    BY <1>6, SessionAssumption, Zenon DEF AtExt, ResultCode
  <2>2. out' \in OutType
    BY <1>1, <1>6, Zenon DEF AtExt, OutType, OutPc
  <2>3. tx' \in Seq(Piece)
    BY <1>2, <1>6, <2>1, EnqueueTyped, Zenon DEF AtExt
  <2> QED BY <1>0, <1>6, <2>2, <2>3, SMT DEF AtExt, TypeOK
<1>7. CASE AtPlain
  <2>1. out' \in OutType
    BY <1>1, <1>7, Zenon DEF AtPlain, OutType, OutPc, ResultCode
  <2>2. echo' \in BOOLEAN
    BY <1>7, Zenon DEF AtPlain, TypeOK
  <2> QED BY <1>0, <1>7, <2>1, <2>2, Zenon DEF AtPlain, TypeOK
<1>8. CASE AtAnswer
  <2>1. linkFd["sock"] \in Fd \cup {NoFd}
    BY Zenon DEF TypeOK, Link
  <2>2. FileOf(linkFd["sock"]) \in Conn \cup {NoConn}
    BY <2>1, SMT DEF FileOf, TypeOK
  <2>3. out' \in OutType
    BY <1>1, <1>8, <2>2, Zenon DEF AtAnswer, OutType, OutPc, ResultCode
  <2> QED BY <1>0, <1>8, <2>3, SMT DEF AtAnswer, TypeOK
<1>9. CASE AtPpp
  <2>1. out' \in OutType
    BY <1>1, <1>9, Zenon DEF AtPpp, OutType, OutPc
  <2> QED BY <1>0, <1>9, <2>1, SMT DEF AtPpp, TypeOK
<1>10. CASE AtNoSock
  <2>1. out' \in OutType
    BY <1>1, <1>10, Zenon DEF AtNoSock, OutType, OutPc, ResultCode
  <2> QED BY <1>0, <1>10, <2>1, SMT DEF AtNoSock, TypeOK
<1>11. CASE AtDial
  <2>1. out' \in OutType
    BY <1>1, <1>11, Zenon DEF AtDial, OutType, OutPc
  <2>2. aborted' \in {"no", "terminate", "out_of_range", "accept"}
    BY <1>11, Zenon DEF AtDial, TypeOK
  <2> QED BY <1>0, <1>11, <2>1, <2>2, SMT DEF AtDial, TypeOK
<1>12. CASE AtReply
  <2>1. (IF out.reply = "CONNECT" THEN "raise" ELSE "offline") \in OutPc
    BY Zenon DEF OutPc
  <2>2. out' \in OutType
    BY <1>1, <1>12, <2>1, Zenon DEF AtReply, OutType
  <2>3. out.reply \in ResultCode
    BY <1>1, <1>12, Zenon DEF AtReply, ReplyKnown
  <2>4. tx' \in Seq(Piece)
    BY <1>1, <1>2, <1>12, <2>3, EnqueueTyped, Zenon DEF AtReply
  <2> QED BY <1>0, <1>12, <2>2, <2>4, SMT DEF AtReply, TypeOK
<1>13. CASE AtRaise
  <2>1. out' \in OutType
    BY <1>1, <1>13, Zenon DEF AtRaise, OutType, OutPc
  <2> QED BY <1>0, <1>13, <2>1, SMT DEF AtRaise, TypeOK
<1> QED BY <1>3, <1>4, <1>5, <1>6, <1>7, <1>8, <1>9, <1>10, <1>11, <1>12, <1>13

\* ... and forwarding payload.
LEMMA PayloadTyped ==
  ASSUME TypeOK, Ghost, OnlineDone \/ Route \/ ClearBuffer
  PROVE  TypeOK'
<1> USE DEF sessionVars, linkVars, ctxVars
<1>0. collided' \in BOOLEAN
  BY GhostTyped DEF TypeOK
<1>1. out \in OutType
  BY DEF TypeOK
<1>2. CASE OnlineDone
  <2>1. out' \in OutType
    BY <1>1, <1>2, Zenon DEF OnlineDone, OutType, OutPc
  <2> QED BY <1>0, <1>2, <2>1, SMT DEF OnlineDone, TypeOK
<1>3. CASE Route
  <2>1. ASSUME NEW k \in Link, SendLoad(k)
        PROVE  out' \in OutType
    <3>1. linkFd[k] \in Fd \cup {NoFd}
      BY <2>1, Zenon DEF TypeOK
    <3>2. (IF linkFd[k] = NoFd THEN "sent" ELSE "send") \in OutPc
      BY Zenon DEF OutPc
    <3> QED BY <1>1, <2>1, <3>1, <3>2, Zenon DEF SendLoad, OutType
  <2>2. [out EXCEPT !.pc = "sent"] \in OutType
    BY <1>1, Zenon DEF OutType, OutPc
  <2>3. out' \in OutType
    BY <1>3, <2>1, <2>2, Zenon DEF Route, Link
  <2> QED BY <1>0, <1>3, <2>3, SMT DEF Route, TypeOK
<1>4. CASE ClearBuffer
  <2>1. out' \in OutType
    BY <1>1, <1>4, Zenon DEF ClearBuffer, OutType, OutPc
  <2>2. buffer' \in Seq(Token)
    BY <1>4, SMT DEF ClearBuffer
  <2> QED BY <1>0, <1>4, <2>1, <2>2, SMT DEF ClearBuffer, TypeOK
<1> QED BY <1>2, <1>3, <1>4

\* The bulk OUT thread keeps the type; it needs ReplyKnown for what it enqueues.
LEMMA BulkOutTyped ==
  ASSUME TypeOK, ReplyKnown, BulkOutNext
  PROVE  TypeOK'
<1>1. CASE \/ OfflineDone \/ TakeLine \/ AtEcho \/ AtExt \/ AtPlain \/ AtAnswer
           \/ AtPpp \/ AtNoSock \/ AtDial \/ AtReply \/ AtRaise
  BY <1>1, CommandTyped DEF BulkOutNext
<1>2. CASE OnlineDone \/ Route \/ ClearBuffer
  BY <1>2, PayloadTyped DEF BulkOutNext
<1>3. CASE \/ SockConnect /\ UNCHANGED sessionVars
           \/ PtyConnect /\ UNCHANGED <<lsn, sessionVars>>
           \/ setupISP /\ UNCHANGED <<lsn, sessionVars>>
           \/ ConnectTail /\ UNCHANGED <<lsn, sessionVars>>
           \/ SendWrite /\ UNCHANGED <<lsn, sessionVars>>
  BY <1>3, ConnectTyped DEF BulkOutNext, sessionVars
<1> QED BY <1>1, <1>2, <1>3 DEF BulkOutNext, BulkOut

\* So does the listen thread.
LEMMA ListenTyped ==
  ASSUME TypeOK, Ghost, ListenTail \/ ListenAccept \/ ListenFails, UNCHANGED sessionVars
  PROVE  TypeOK'
<1> USE DEF sessionVars, linkVars, ctxVars
<1>0. collided' \in BOOLEAN
  BY GhostTyped DEF TypeOK
<1>1. /\ lsn \in LsnType /\ lsn.fd \in Fd \cup {NoFd} /\ lsn.conn \in Conn \cup {NoConn}
      /\ lsn.callers \in Nat
  BY Zenon DEF TypeOK, LsnType
<1>2. CASE ListenAccept
  <2>1. PICK f \in Fd, c \in Conn :
          /\ OpenFd(f, c, "sock", "open")
          /\ lsn' = [lsn EXCEPT !.pc = "check", !.fd = f, !.conn = c, !.callers = @ + 1]
    BY <1>2, Zenon DEF ListenAccept
  <2>2. fdTab' \in [Fd -> Conn \cup {NoConn}] /\ conns' \in [Conn -> ConnType]
    BY <2>1, OpenTyped, Zenon DEF Link
  <2>3. lsn.callers + 1 \in Nat
    BY <1>1, SMT
  <2>4. lsn' \in LsnType
    BY <1>1, <2>1, <2>3, Zenon DEF LsnType
  <2> QED BY <1>0, <1>2, <2>2, <2>4, Zenon DEF ListenAccept, TypeOK
<1>3. CASE ListenCheck
  <2>1. (IF linkFd["sock"] = NoFd THEN "publish" ELSE "refuse") \in {"publish", "refuse"}
    BY Zenon
  <2>2. lsn' \in LsnType
    BY <1>1, <1>3, <2>1, Zenon DEF ListenCheck, LsnType
  <2> QED BY <1>0, <1>3, <2>2, SMT DEF ListenCheck, TypeOK
<1>4. CASE ListenRefuse
  <2>1. conns' \in [Conn -> ConnType] /\ fdTab' \in [Fd -> Conn \cup {NoConn}]
    BY <1>4, ForgetTyped, CloseTyped, Zenon DEF ListenRefuse
  <2>2. lsn' \in LsnType
    BY <1>1, <1>4, Zenon DEF ListenRefuse, LsnType
  <2> QED BY <1>0, <1>4, <2>1, <2>2, SMT DEF ListenRefuse, TypeOK
<1>5. CASE ListenPublish
  <2>1. lsn' \in LsnType
    BY <1>1, <1>5, Zenon DEF ListenPublish, LsnType
  <2>2. linkFd' \in [Link -> Fd \cup {NoFd}]
    BY <1>1, <1>5, Zenon DEF ListenPublish, TypeOK
  <2> QED BY <1>0, <1>5, <2>1, <2>2, SMT DEF ListenPublish, TypeOK
<1>6. CASE ListenRing
  <2>1. lsn' \in LsnType
    BY <1>1, <1>6, Zenon DEF ListenRing, LsnType
  <2>2. 0 \in Nat
    BY SMT
  <2>3. tx' \in Seq(Piece)
    BY <1>1, <1>6, <2>2, EnqueueTyped, Zenon DEF ListenRing, ring_callback
  <2> QED BY <1>0, <1>6, <2>1, <2>3, SMT DEF ListenRing, TypeOK
<1>7. CASE ListenSpawn
  <2>1. lsn' \in LsnType
    BY <1>1, <1>7, Zenon DEF ListenSpawn, LsnType
  <2>2. rcv' \in [Conn -> RcvType]
    BY <1>7, SpawnTyped, Zenon DEF ListenSpawn, Link
  <2> QED BY <1>0, <1>7, <2>1, <2>2, SMT DEF ListenSpawn, TypeOK
<1>8. CASE ListenPointer
  <2>1. lsn' \in LsnType
    BY <1>1, <1>8, Zenon DEF ListenPointer, LsnType
  <2>2. linkThr' \in [Link -> Conn \cup {NoConn}]
    BY <1>1, <1>8, Zenon DEF ListenPointer, TypeOK
  <2> QED BY <1>0, <1>8, <2>1, <2>2, SMT DEF ListenPointer, TypeOK
<1>9. CASE ListenFails
  BY <1>0, <1>9, SMT DEF ListenFails, TypeOK
<1> QED BY <1>2, <1>3, <1>4, <1>5, <1>6, <1>7, <1>8, <1>9 DEF ListenTail

\* So do the host and the far ends.
LEMMA OutsideTyped ==
  ASSUME TypeOK, HostNext \/ \E c \in Conn : FarEndNext(c)
  PROVE  TypeOK'
<1> USE DEF sessionVars, linkVars, ctxVars
<1>0. collided' \in BOOLEAN
  BY GhostTyped, Zenon DEF TypeOK, HostNext, FarEndNext
<1>4. /\ [used EXCEPT !.packets = @ + 1] \in [packets : Nat, hooks : Nat]
      /\ [used EXCEPT !.hooks = @ + 1] \in [packets : Nat, hooks : Nat]
  <2>1. used.packets \in Nat /\ used.hooks \in Nat /\ used \in [packets : Nat, hooks : Nat]
    BY Zenon DEF TypeOK
  <2>2. used.packets + 1 \in Nat /\ used.hooks + 1 \in Nat
    BY <2>1, SMT
  <2> QED BY <2>1, <2>2, Zenon
<1>1. ASSUME NEW p \in Packets, HostPacket(p)
      PROVE  TypeOK'
  <2>1. out' \in OutType
    BY <1>1, Zenon DEF HostPacket, TypeOK, OutType, OutPc
  <2>2. buffer' \in Seq(Token)
    BY <1>1, SessionAssumption, SMT DEF HostPacket, TypeOK
  <2>3. used' \in [packets : Nat, hooks : Nat]
    BY <1>1, <1>4, Zenon DEF HostPacket
  <2> QED BY <1>0, <1>1, <2>1, <2>2, <2>3, Zenon DEF HostPacket, TypeOK
<1>2. CASE OnHook
  <2>1. hang' \in HangType
    BY <1>2, Zenon DEF OnHook, TypeOK, HangType
  <2>2. used' \in [packets : Nat, hooks : Nat]
    BY <1>2, <1>4, Zenon DEF OnHook
  <2> QED BY <1>0, <1>2, <2>1, <2>2, Zenon DEF OnHook, TypeOK
<1>3. ASSUME NEW c \in Conn, FarEndNext(c)
      PROVE  TypeOK'
  <2>1. conns[c] \in ConnType /\ conns[c].sent \in Nat
    BY Zenon DEF TypeOK, ConnType
  <2>2. ASSUME NEW r \in ConnType
        PROVE  [conns EXCEPT ![c] = r] \in [Conn -> ConnType]
    BY <2>2, Zenon DEF TypeOK
  <2>3. CASE PeerSend(c)
    <3>1. conns[c].sent + 1 \in Nat
      BY <2>1, SMT
    <3>2. [conns[c] EXCEPT !.sent = conns[c].sent + 1] \in ConnType
      BY <2>1, <3>1, Zenon DEF ConnType
    <3>3. conns' = [conns EXCEPT ![c] = [conns[c] EXCEPT !.sent = conns[c].sent + 1]]
      BY <2>3, Zenon DEF PeerSend
    <3> QED BY <1>0, <1>3, <2>2, <2>3, <3>2, <3>3, SMT DEF PeerSend, FarEndNext, TypeOK
  <2>4. CASE PeerClose(c)
    <3>1. [conns[c] EXCEPT !.peer = "closed"] \in ConnType
      BY <2>1, Zenon DEF ConnType
    <3>2. conns' = [conns EXCEPT ![c] = [conns[c] EXCEPT !.peer = "closed"]]
      BY <2>4, Zenon DEF PeerClose
    <3> QED BY <1>0, <1>3, <2>2, <2>4, <3>1, <3>2, SMT DEF PeerClose, FarEndNext, TypeOK
  <2>5. CASE SlaveOpen(c)
    <3>1. [conns[c] EXCEPT !.peer = "open"] \in ConnType
      BY <2>1, Zenon DEF ConnType
    <3>2. conns' = [conns EXCEPT ![c] = [conns[c] EXCEPT !.peer = "open"]]
      BY <2>5, Zenon DEF SlaveOpen
    <3> QED BY <1>0, <1>3, <2>2, <2>5, <3>1, <3>2, SMT DEF SlaveOpen, FarEndNext, TypeOK
  <2> QED BY <1>3, <2>3, <2>4, <2>5 DEF FarEndNext, FarEndStep
<1> QED BY <1>1, <1>2, <1>3 DEF HostNext, HostStep

\* Besides the bulk OUT thread only a transfer from the host touches out.
LEMMA OutOwner ==
  ASSUME [Next]_vars, out' # out
  PROVE  BulkOutNext \/ \E p \in Packets : HostPacket(p)
<1> USE DEF linkVars, sessionVars, ctxVars
<1>1. ASSUME Disconnect
      PROVE  UNCHANGED out
  BY <1>1, Zenon DEF Disconnect, DisconnectLoad, DisconnectClose, DisconnectZero,
     DisconnectThread, DisconnectJoin, DisconnectDelete, DisconnectNull
<1>2. ASSUME NEW t \in Conn, RecvThread(t)
      PROVE  UNCHANGED out
  BY <1>2, Zenon DEF RecvThread, RecvStart, RecvSelect, RecvReadable, RecvTimeout,
     RecvLookup, RecvData, RecvEnd, recv_callback, RecvEnqueue
<1>3. ASSUME ListenTail \/ ListenAccept \/ ListenFails
      PROVE  UNCHANGED out
  BY <1>3, Zenon DEF ListenTail, ListenAccept, ListenFails, ListenCheck, ListenRefuse, ListenPublish,
     ListenRing, ListenSpawn, ListenPointer
<1>4. ASSUME NEW c \in Conn, FarEndStep(c)
      PROVE  UNCHANGED out
  BY <1>4, Zenon DEF FarEndStep, PeerSend, PeerClose, SlaveOpen
<1>5. ASSUME OnHook
      PROVE  UNCHANGED out
  BY <1>5, Zenon DEF OnHook
<1>6. UNCHANGED vars => UNCHANGED out
  BY Zenon DEF vars
<1> QED BY <1>1, <1>2, <1>3, <1>4, <1>5, <1>6, Zenon
        DEF Next, HangUpNext, RecvNext, ListenNext, CallerNext, AcceptFails, FarEndNext, HostNext,
            HostStep, WaitForOutside

\* Every step keeps ReplyKnown: only the step that ends in "reply" sets the reply.
LEMMA ReplyKnownInductive ==
  ASSUME TypeOK, ReplyKnown, [Next]_vars
  PROVE  ReplyKnown'
<1>0. out \in OutType
  BY DEF TypeOK
<1>1. CASE UNCHANGED out
  BY <1>1 DEF ReplyKnown
<1>2. ASSUME NEW p \in Packets, HostPacket(p)
      PROVE  ReplyKnown'
  BY <1>0, <1>2, Zenon DEF HostPacket, ReplyKnown, OutType
<1>3. CASE BulkOutNext
  <2>1. CASE \/ SockConnect \/ PtyConnect \/ setupISP \/ ConnectTail \/ SendWrite
    BY <1>0, <2>1, Zenon DEF SockConnect, SockSocket, SockConnected, SockRefused, PtyConnect,
       PtyOpened, PtyFailed, setupISP, ConnectTail, ConnectPublish, ConnectSpawn,
       ConnectPointer, SendWrite, ReplyKnown, OutType
  <2>2. CASE TakeLine
    <3>1. out'.reply = out.reply /\ out'.pc \in {out.pc, "echo", "cmd"}
      BY <1>0, <2>2, Zenon DEF TakeLine, OutType
    <3> QED BY <2>2, <3>1, Zenon DEF TakeLine, ReplyKnown
  <2>3. CASE AtDial
    BY <1>0, <2>3, Zenon DEF AtDial, Cmd, ReplyKnown, OutType
  <2>4. CASE AtReply
    <3>1. out'.pc \in {"raise", "offline"}
      BY <1>0, <2>4, Zenon DEF AtReply, OutType
    <3> QED BY <3>1, Zenon DEF ReplyKnown
  <2>5. CASE \/ OfflineDone \/ AtEcho \/ AtExt \/ AtPlain \/ AtAnswer \/ AtPpp
             \/ AtNoSock \/ AtRaise
    BY <1>0, <2>5, Zenon DEF OfflineDone, AtEcho, AtExt, AtPlain, AtAnswer, AtPpp,
       AtNoSock, AtRaise, ReplyKnown, OutType
  <2>6. CASE OnlineDone \/ Route \/ ClearBuffer
    BY <1>0, <2>6, Zenon DEF OnlineDone, Route, SendLoad, ClearBuffer, ReplyKnown, OutType
  <2> QED BY <1>3, <2>1, <2>2, <2>3, <2>4, <2>5, <2>6 DEF BulkOutNext, BulkOut
<1> QED BY <1>1, <1>2, <1>3, OutOwner

\* The types are inductive together with ReplyKnown: the code that is sent
\* has a type because process_at() has its answer by then.
THEOREM TypesAndReply == Spec => [](TypeOK /\ ReplyKnown)
<1>1. Init => TypeOK /\ ReplyKnown
  BY InitTyped DEF Init, ReplyKnown
<1>2. TypeOK /\ ReplyKnown /\ [Next]_vars => TypeOK' /\ ReplyKnown'
  <2> SUFFICES ASSUME TypeOK, ReplyKnown, [Next]_vars PROVE TypeOK'
    BY ReplyKnownInductive
  <2>1. CASE UNCHANGED vars
    BY <2>1 DEF vars, ctxVars, linkVars, sessionVars, TypeOK
  <2>2. CASE HangUpNext
    BY <2>2, HangUpTyped
  <2>3. CASE BulkOutNext
    BY <2>3, BulkOutTyped
  <2>4. CASE ListenNext \/ CallerNext \/ AcceptFails
    BY <2>4, ListenTyped DEF ListenNext, CallerNext, AcceptFails
  <2>5. CASE \E t \in Conn : RecvNext(t)
    BY <2>5, RecvTyped
  <2>6. CASE HostNext \/ \E c \in Conn : FarEndNext(c)
    BY <2>6, OutsideTyped
  <2> QED BY <2>1, <2>2, <2>3, <2>4, <2>5, <2>6 DEF Next, WaitForOutside
<1> QED BY <1>1, <1>2, PTL DEF Spec

\* Every reachable state is typed.
THEOREM TypeCorrect == Spec => []TypeOK
  BY TypesAndReply, PTL

-----------------------------------------------------------------------------
(* What the host is promised: the session implements HostView, and the     *)
(* carrier is up only under an announced call.                             *)

\* Off the command path the phase is "command", whatever the thread does.
LEMMA PhaseCases ==
  /\ out.pc \in {"read", "offline", "online", "send", "sent"} => HostPhase = "command"
  /\ out.pc \in {"echo", "cmd", "socket", "connect", "pty", "publish", "spawn",
                 "pointer", "isp", "reply"} => HostPhase = "executing"
  /\ out.pc = "raise" => HostPhase = "announced"
  BY Zenon DEF HostPhase, Executing

\* A piece goes behind everything that was sent before.
LEMMA EnqueueSent ==
  ASSUME tx \in Seq(Piece), NEW code, NEW c, NEW n, Enqueue(code, c, n)
  PROVE  /\ Len(tx') = Len(tx) + 1 /\ SubSeq(tx', 1, Len(tx)) = tx
         /\ tx'[Len(tx')] = [code |-> code, conn |-> c, n |-> n]
         /\ \A i \in 1..Len(tx) : tx'[i] = tx[i]
<1> DEFINE e == [code |-> code, conn |-> c, n |-> n]
<1>1. tx' = Append(tx, e)
  BY DEF Enqueue
<1> HIDE DEF e
<1>2. /\ Len(Append(tx, e)) = Len(tx) + 1
      /\ Append(tx, e)[Len(tx) + 1] = e
      /\ \A i \in 1..Len(tx) : Append(tx, e)[i] = tx[i]
  BY SMT
<1>3. SubSeq(Append(tx, e), 1, Len(tx)) = tx
  BY SMT
<1> QED BY <1>1, <1>2, <1>3 DEF e

\* What is enqueued is the one new piece the host is sent.
LEMMA EnqueueMaps ==
  ASSUME tx \in Seq(Piece), NEW code, NEW c, NEW n, Enqueue(code, c, n),
         NEW codes, code \in codes
  PROVE  Host!Sent(codes)
<1>1. tx'[Len(tx')] = [code |-> code, conn |-> c, n |-> n]
  BY EnqueueSent
<1>2. Len(tx') = Len(tx) + 1 /\ SubSeq(tx', 1, Len(tx)) = tx
  BY EnqueueSent
<1>3. tx'[Len(tx')].code = code
  BY <1>1, SMT
<1> QED BY <1>2, <1>3, SMT DEF Host!Sent

-----------------------------------------------------------------------------
(* The threads that run no command: they drop the carrier or send what     *)
(* answers no command.                                                     *)

OtherSent == \E code, c, n : code \in {"RING", "DATA"} /\ Enqueue(code, c, n)

\* What the other threads do to what the host sees: nothing, the carrier dropped,
\* or a ring or payload sent; the bulk OUT thread is at most told to go off-line.
LEMMA OthersEffect ==
  ASSUME [Next]_vars, ~BulkOutNext
  PROVE  /\ \/ UNCHANGED <<connected, tx>>
            \/ connected' = FALSE /\ UNCHANGED tx
            \/ UNCHANGED connected /\ OtherSent
         /\ \/ UNCHANGED out
            \/ out.pc = "read" /\ out' = [out EXCEPT !.pc = "offline"]
<1> USE DEF linkVars, sessionVars, ctxVars
<1>1. ASSUME Disconnect
      PROVE  UNCHANGED <<connected, tx, out>>
  BY <1>1, Zenon DEF Disconnect, DisconnectLoad, DisconnectClose, DisconnectZero,
     DisconnectThread, DisconnectJoin, DisconnectDelete, DisconnectNull
<1>2. ASSUME NEW t \in Conn, RecvThread(t)
      PROVE  UNCHANGED <<connected, out>> /\ (UNCHANGED tx \/ OtherSent)
  <2>1. ASSUME RecvEnqueue(t)
        PROVE  OtherSent /\ UNCHANGED <<connected, out>>
    <3>1. Enqueue("DATA", rcv[t].sel, rcv[t].n) /\ UNCHANGED <<connected, out>>
      BY <2>1, Zenon DEF RecvEnqueue
    <3> QED BY <3>1 DEF OtherSent
  <2> QED BY <1>2, <2>1, Zenon DEF RecvThread, RecvStart, RecvSelect, RecvReadable,
             RecvTimeout, RecvLookup, RecvData, RecvEnd, recv_callback
<1>3. ASSUME ListenTail \/ ListenAccept \/ ListenFails
      PROVE  UNCHANGED <<connected, out>> /\ (UNCHANGED tx \/ OtherSent)
  <2>1. ASSUME ListenRing
        PROVE  OtherSent /\ UNCHANGED <<connected, out>>
    <3>1. Enqueue("RING", lsn.conn, 0) /\ UNCHANGED <<connected, out>>
      BY <2>1, Zenon DEF ListenRing, ring_callback
    <3> QED BY <3>1 DEF OtherSent
  <2> QED BY <1>3, <2>1, Zenon DEF ListenTail, ListenAccept, ListenFails, ListenCheck, ListenRefuse,
             ListenPublish, ListenSpawn, ListenPointer
<1>4. ASSUME NEW c \in Conn, FarEndStep(c)
      PROVE  UNCHANGED <<connected, tx, out>>
  BY <1>4, Zenon DEF FarEndStep, PeerSend, PeerClose, SlaveOpen
<1>5. ASSUME OnHook
      PROVE  connected' = FALSE /\ UNCHANGED <<tx, out>>
  BY <1>5, Zenon DEF OnHook
<1>6. ASSUME NEW p \in Packets, HostPacket(p)
      PROVE  /\ UNCHANGED <<connected, tx>>
             /\ out.pc = "read" /\ out' = [out EXCEPT !.pc = "offline"]
  BY <1>6, Zenon DEF HostPacket
<1>7. UNCHANGED vars => UNCHANGED <<connected, tx, out>>
  BY Zenon DEF vars
<1> QED BY <1>1, <1>2, <1>3, <1>4, <1>5, <1>6, <1>7, Zenon
        DEF Next, HangUpNext, RecvNext, ListenNext, CallerNext, AcceptFails, FarEndNext, HostNext,
            HostStep, WaitForOutside

\* The phase after a step, like PhaseCases.
LEMMA PhaseCasesNext ==
  /\ out'.pc \in {"read", "offline", "online", "send", "sent"} => HostPhase' = "command"
  /\ out'.pc \in {"echo", "cmd", "socket", "connect", "pty", "publish", "spawn",
                  "pointer", "isp", "reply"} => HostPhase' = "executing"
  /\ out'.pc = "raise" => HostPhase' = "announced"
  BY Zenon DEF HostPhase, Executing

\* The steps of the other threads are steps of HostView or stutters.
LEMMA OthersMap ==
  ASSUME TypeOK, [Next]_vars, ~BulkOutNext
  PROVE  [Host!HostNext]_(Host!hostVars)
<1>1. HostPhase' = HostPhase
  <2>1. CASE UNCHANGED out
    BY <2>1 DEF HostPhase, Executing
  <2>2. CASE out.pc = "read" /\ out' = [out EXCEPT !.pc = "offline"]
    <3>1. out'.pc = "offline"
      BY <2>2, Zenon DEF TypeOK, OutType
    <3> QED BY <2>2, <3>1, PhaseCases, PhaseCasesNext
  <2> QED BY <2>1, <2>2, OthersEffect
<1>2. CASE UNCHANGED <<connected, tx>>
  BY <1>1, <1>2 DEF Host!hostVars
<1>3. CASE connected' = FALSE /\ UNCHANGED tx
  BY <1>1, <1>3 DEF Host!HostNext, Host!Drop
<1>4. CASE UNCHANGED connected /\ OtherSent
  <2>1. PICK code, c, n : code \in {"RING", "DATA"} /\ Enqueue(code, c, n)
    BY <1>4 DEF OtherSent
  <2>2. Host!Sent({"RING", "ECHO", "DATA"})
    BY <2>1, EnqueueMaps DEF TypeOK
  <2> QED BY <1>1, <1>4, <2>2 DEF Host!HostNext, Host!Other
<1> QED BY <1>2, <1>3, <1>4, OthersEffect

-----------------------------------------------------------------------------
(* The bulk OUT thread.                                                    *)

\* So are those of the bulk OUT thread.
LEMMA BulkOutMaps ==
  ASSUME TypeOK, ReplyKnown, BulkOutNext
  PROVE  [Host!HostNext]_(Host!hostVars)
<1> USE DEF linkVars, sessionVars, ctxVars
<1>0. out \in OutType /\ tx \in Seq(Piece)
  BY DEF TypeOK
\* Most of its steps show the host nothing.
<1>1. ASSUME UNCHANGED <<connected, tx>>, HostPhase' = HostPhase
      PROVE  [Host!HostNext]_(Host!hostVars)
  BY <1>1 DEF Host!hostVars
<1>2. CASE SockConnect \/ PtyConnect \/ setupISP \/ ConnectTail
  <2>1. UNCHANGED <<connected, tx>>
    BY <1>2, Zenon DEF SockConnect, SockSocket, SockConnected, SockRefused, PtyConnect,
       PtyOpened, PtyFailed, setupISP, ConnectTail, ConnectPublish, ConnectSpawn, ConnectPointer
  <2>2. out.pc \in {"socket", "connect", "pty", "isp", "publish", "spawn", "pointer"}
    BY <1>2, Zenon DEF SockConnect, SockSocket, SockConnected, SockRefused, PtyConnect,
       PtyOpened, PtyFailed, setupISP, ConnectTail, ConnectPublish, ConnectSpawn, ConnectPointer
  <2>3. out'.pc \in {"connect", "publish", "reply", "spawn", "pointer", "isp"}
    BY <1>0, <1>2, Zenon DEF OutType, SockConnect, SockSocket, SockConnected, SockRefused,
       PtyConnect, PtyOpened, PtyFailed, setupISP, ConnectTail, ConnectPublish, ConnectSpawn,
       ConnectPointer
  <2>4. HostPhase' = "executing" /\ HostPhase = "executing"
    BY <2>2, <2>3, PhaseCases, PhaseCasesNext
  <2> QED BY <1>1, <2>1, <2>4
<1>3. CASE OfflineDone \/ OnlineDone \/ Route \/ ClearBuffer \/ SendWrite
  <2>1. UNCHANGED <<connected, tx>>
    BY <1>3, Zenon DEF OfflineDone, OnlineDone, Route, ClearBuffer, SendWrite
  <2>2. out.pc \in {"offline", "online", "sent", "send"}
    BY <1>3, Zenon DEF OfflineDone, OnlineDone, Route, ClearBuffer, SendWrite
  <2>3. out'.pc \in {"online", "read", "sent", "send"}
    BY <1>0, <1>3, Zenon DEF OutType, OfflineDone, OnlineDone, Route, SendLoad, ClearBuffer,
       SendWrite
  <2>4. HostPhase' = "command" /\ HostPhase = "command"
    BY <2>2, <2>3, PhaseCases, PhaseCasesNext
  <2> QED BY <1>1, <2>1, <2>4
<1>4. CASE AtPlain \/ AtAnswer \/ AtPpp \/ AtNoSock \/ AtDial
  <2>1. UNCHANGED <<connected, tx>> /\ out.pc = "cmd"
    BY <1>4, Zenon DEF AtPlain, AtAnswer, AtPpp, AtNoSock, AtDial, Cmd
  <2>2. out' = out \/ out'.pc \in {"reply", "pty", "socket"}
    BY <1>0, <1>4, Zenon DEF OutType, AtPlain, AtAnswer, AtPpp, AtNoSock, AtDial
  <2>3. HostPhase' = "executing" /\ HostPhase = "executing"
    BY <2>1, <2>2, PhaseCases, PhaseCasesNext
  <2> QED BY <1>1, <2>1, <2>3
\* A line is taken ...
<1>5. CASE TakeLine
  <2>1. UNCHANGED <<connected, tx>> /\ ~connected /\ out.pc = "offline"
    BY <1>5, Zenon DEF TakeLine
  <2>2. out' = out \/ out'.pc \in {"echo", "cmd"}
    BY <1>0, <1>5, Zenon DEF TakeLine, OutType
  <2>3. HostPhase = "command" /\ (HostPhase' = "command" \/ HostPhase' = "executing")
    BY <2>1, <2>2, PhaseCases, PhaseCasesNext
  <2>4. CASE HostPhase' = "command"
    BY <1>1, <2>1, <2>3, <2>4
  <2>5. CASE HostPhase' = "executing"
    BY <2>1, <2>3, <2>5 DEF Host!HostNext, Host!Take
  <2> QED BY <2>3, <2>4, <2>5
\* ... echoed ...
<1>6. CASE AtEcho
  <2>1. out.pc = "echo" /\ out'.pc = "cmd"
    BY <1>0, <1>6, Zenon DEF AtEcho, OutType
  <2>2. Host!Sent({"RING", "ECHO", "DATA"}) /\ UNCHANGED connected
    BY <1>0, <1>6, EnqueueMaps DEF AtEcho
  <2> QED BY <2>1, <2>2, PhaseCases, PhaseCasesNext DEF Host!HostNext, Host!Other
\* ... and answered.
<1>7. CASE AtExt
  <2>1. out.pc = "cmd" /\ out'.pc = "offline"
    BY <1>0, <1>7, Zenon DEF AtExt, OutType
  <2>2. ExtReply[out.line] \in Host!Codes \ {"CONNECT"}
    BY <1>7, SessionAssumption, Zenon DEF AtExt, Host!Codes
  <2>3. Host!Sent(Host!Codes \ {"CONNECT"}) /\ UNCHANGED connected
    BY <1>0, <1>7, <2>2, EnqueueMaps DEF AtExt
  <2> QED BY <2>1, <2>3, PhaseCases, PhaseCasesNext DEF Host!HostNext, Host!Refuse
<1>8. CASE AtReply
  <2>1. out.pc = "reply" /\ UNCHANGED connected /\ Enqueue(out.reply, out.conn, 0)
    BY <1>8, Zenon DEF AtReply
  <2>2. out.reply \in Host!Codes
    BY <1>0, <2>1, Zenon DEF ReplyKnown, OutType, ResultCode, Host!Codes
  <2>3. CASE out.reply = "CONNECT"
    <3>1. out'.pc = "raise"
      BY <1>0, <1>8, <2>3, Zenon DEF AtReply, OutType
    <3>2. Host!Sent({"CONNECT"})
      BY <1>0, <2>1, <2>3, EnqueueMaps
    <3> QED BY <2>1, <3>1, <3>2, PhaseCases, PhaseCasesNext DEF Host!HostNext, Host!Announce
  <2>4. CASE out.reply # "CONNECT"
    <3>1. out'.pc = "offline"
      BY <1>0, <1>8, <2>4, Zenon DEF AtReply, OutType
    <3>2. Host!Sent(Host!Codes \ {"CONNECT"})
      BY <1>0, <2>1, <2>2, <2>4, EnqueueMaps
    <3> QED BY <2>1, <3>1, <3>2, PhaseCases, PhaseCasesNext DEF Host!HostNext, Host!Refuse
  <2> QED BY <2>3, <2>4
<1>9. CASE AtRaise
  <2>1. out.pc = "raise" /\ out'.pc = "offline" /\ connected' = TRUE /\ UNCHANGED tx
    BY <1>0, <1>9, Zenon DEF AtRaise, OutType
  <2> QED BY <2>1, PhaseCases, PhaseCasesNext DEF Host!HostNext, Host!Raise
<1> QED BY <1>2, <1>3, <1>4, <1>5, <1>6, <1>7, <1>8, <1>9 DEF BulkOutNext, BulkOut

\* Whatever the interleaving, the session keeps the promise of HostView: a
\* line is taken only off-line, gets one result code, no result code comes
\* that answers no line, and the carrier rises only after CONNECT.
THEOREM KeepsPromise == Spec => HostPromise
<1>1. Init => Host!HostInit
  <2>1. Init => out.pc = "read"
    BY SMT DEF Init
  <2> QED BY <2>1, PhaseCases DEF Init, CtxInit, Host!HostInit
<1>2. TypeOK /\ ReplyKnown /\ [Next]_vars => [Host!HostNext]_(Host!hostVars)
  BY OthersMap, BulkOutMaps
<1>3. Spec => [](TypeOK /\ ReplyKnown)
  BY TypesAndReply
<1> QED BY <1>1, <1>2, <1>3, PTL DEF Spec, HostPromise, Host!HostSpec

-----------------------------------------------------------------------------
(* The carrier is announced.                                               *)

\* No command runs while the carrier is up, although the hang-up thread may
\* take it down at any moment; and CONNECT is still the last answer when
\* process_at() is about to raise it.
CarrierInv ==
  /\ connected => ~Executing
  /\ connected \/ out.pc = "raise" => Announced

\* A ring or payload behind CONNECT leaves CONNECT the last result code.
LEMMA AnnouncedStays ==
  ASSUME tx \in Seq(Piece), Announced, NEW code \in {"DATA", "RING"}, NEW c, NEW n,
         Enqueue(code, c, n)
  PROVE  Announced'
<1>1. PICK i \in 1..Len(tx) :
        /\ tx[i].code = "CONNECT"
        /\ \A j \in i + 1 .. Len(tx) : tx[j].code \in {"DATA", "RING"}
  BY DEF Announced
<1>2. /\ Len(tx') = Len(tx) + 1 /\ \A j \in 1..Len(tx) : tx'[j] = tx[j]
      /\ tx'[Len(tx')] = [code |-> code, conn |-> c, n |-> n]
  BY EnqueueSent
<1>3. tx'[Len(tx) + 1].code = code
  BY <1>2
<1>4. Len(tx) \in Nat
  BY SMT
<1>5. i \in 1..Len(tx') /\ tx'[i].code = "CONNECT"
  BY <1>1, <1>2, <1>4, SMT
<1>6. ASSUME NEW j \in i + 1 .. Len(tx')
      PROVE  tx'[j].code \in {"DATA", "RING"}
  <2>1. CASE j = Len(tx) + 1
    BY <1>3, <2>1
  <2>2. CASE j # Len(tx) + 1
    <3>1. j \in i + 1 .. Len(tx) /\ j \in 1..Len(tx)
      BY <1>1, <1>2, <1>4, <2>2, SMT
    <3> QED BY <1>1, <1>2, <3>1
  <2> QED BY <2>1, <2>2
<1> QED BY <1>5, <1>6, Zenon DEF Announced

\* Sending CONNECT announces the carrier.
LEMMA ConnectAnnounces ==
  ASSUME tx \in Seq(Piece), NEW c, NEW n, Enqueue("CONNECT", c, n)
  PROVE  Announced'
<1>1. /\ Len(tx') = Len(tx) + 1
      /\ tx'[Len(tx')] = [code |-> "CONNECT", conn |-> c, n |-> n]
  BY EnqueueSent
<1>2. Len(tx) \in Nat
  BY SMT
<1>3. Len(tx') \in 1..Len(tx') /\ tx'[Len(tx')].code = "CONNECT"
  BY <1>1, <1>2, SMT
<1>4. \A j \in Len(tx') + 1 .. Len(tx') : tx'[j].code \in {"DATA", "RING"}
  BY <1>1, <1>2, SMT
<1> QED BY <1>3, <1>4, Zenon DEF Announced

\* Every step keeps the invariant behind ConnectAnnounced.
LEMMA CarrierInvInductive ==
  ASSUME TypeOK, CarrierInv, [Next]_vars
  PROVE  CarrierInv'
<1> USE DEF linkVars, sessionVars, ctxVars
<1>0. out \in OutType /\ tx \in Seq(Piece)
  BY DEF TypeOK
<1>1. ASSUME UNCHANGED tx PROVE Announced' = Announced
  BY <1>1 DEF Announced
\* While a command runs the carrier is down, and stays down ...
<1>2. ASSUME ~connected', out'.pc # "raise" PROVE CarrierInv'
  BY <1>2, Zenon DEF CarrierInv
\* ... and while none runs, nothing but the hang-up touches it.
<1>3. ASSUME UNCHANGED <<connected, tx>>, ~Executing', Executing => ~connected
      PROVE  CarrierInv'
  BY <1>1, <1>3, Zenon DEF CarrierInv, Executing
<1>4. CASE BulkOutNext
  <2>1. CASE \/ AtEcho \/ AtExt \/ AtPlain \/ AtAnswer \/ AtPpp \/ AtNoSock \/ AtDial
             \/ SockConnect \/ PtyConnect \/ setupISP \/ ConnectTail
    <3>1. Executing /\ UNCHANGED connected
      BY <2>1, Zenon DEF Executing, AtEcho, AtExt, AtPlain, AtAnswer, AtPpp, AtNoSock, AtDial,
         Cmd, SockConnect, SockSocket, SockConnected, SockRefused, PtyConnect, PtyOpened,
         PtyFailed, setupISP, ConnectTail, ConnectPublish, ConnectSpawn, ConnectPointer
    <3>2. out'.pc # "raise"
      BY <1>0, <2>1, Zenon DEF OutType, AtEcho, AtExt, AtPlain, AtAnswer, AtPpp, AtNoSock,
         AtDial, Cmd, SockConnect, SockSocket, SockConnected, SockRefused, PtyConnect, PtyOpened,
         PtyFailed, setupISP, ConnectTail, ConnectPublish, ConnectSpawn, ConnectPointer
    <3>3. ~connected'
      BY <3>1, Zenon DEF CarrierInv
    <3> QED BY <1>2, <3>2, <3>3
  <2>2. CASE TakeLine
    <3>1. ~connected' /\ out'.pc \in {"offline", "echo", "cmd"}
      BY <1>0, <2>2, Zenon DEF TakeLine, OutType
    <3> QED BY <1>2, <3>1
  <2>3. CASE OfflineDone \/ OnlineDone \/ Route \/ ClearBuffer \/ SendWrite
    <3>1. UNCHANGED <<connected, tx>>
      BY <2>3, Zenon DEF OfflineDone, OnlineDone, Route, ClearBuffer, SendWrite
    <3>2. out.pc \in {"offline", "online", "sent", "send"}
      BY <2>3, Zenon DEF OfflineDone, OnlineDone, Route, ClearBuffer, SendWrite
    <3>3. out'.pc \in {"online", "read", "sent", "send"}
      BY <1>0, <2>3, Zenon DEF OutType, OfflineDone, OnlineDone, Route, SendLoad,
         ClearBuffer, SendWrite
    <3>4. ~Executing' /\ ~Executing
      BY <3>2, <3>3 DEF Executing
    <3> QED BY <1>3, <3>1, <3>4
  <2>4. CASE AtReply
    <3>1. out.pc = "reply" /\ UNCHANGED connected /\ Enqueue(out.reply, out.conn, 0)
      BY <2>4, Zenon DEF AtReply
    <3>2. ~connected'
      BY <3>1, Zenon DEF CarrierInv, Executing
    <3>3. CASE out.reply = "CONNECT"
      <4>1. Announced'
        BY <1>0, <3>1, <3>3, ConnectAnnounces
      <4> QED BY <3>2, <4>1, Zenon DEF CarrierInv
    <3>4. CASE out.reply # "CONNECT"
      <4>1. out'.pc = "offline"
        BY <1>0, <2>4, <3>4, Zenon DEF AtReply, OutType
      <4> QED BY <1>2, <3>2, <4>1
    <3> QED BY <3>3, <3>4
  <2>5. CASE AtRaise
    <3>1. out.pc = "raise" /\ out'.pc = "offline" /\ UNCHANGED tx
      BY <1>0, <2>5, Zenon DEF AtRaise, OutType
    <3>2. Announced' /\ ~Executing'
      BY <1>1, <3>1, Zenon DEF CarrierInv, Executing
    <3> QED BY <3>2, Zenon DEF CarrierInv
  <2> QED BY <1>4, <2>1, <2>2, <2>3, <2>4, <2>5 DEF BulkOutNext, BulkOut
<1>5. CASE ~BulkOutNext
  <2>1. Executing' = Executing /\ (out'.pc = "raise" <=> out.pc = "raise")
    <3>1. CASE UNCHANGED out
      BY <3>1 DEF Executing
    <3>2. CASE out.pc = "read" /\ out' = [out EXCEPT !.pc = "offline"]
      <4>1. out'.pc = "offline"
        BY <1>0, <3>2, Zenon DEF OutType
      <4> QED BY <3>2, <4>1 DEF Executing
    <3> QED BY <1>5, <3>1, <3>2, OthersEffect
  <2>2. CASE UNCHANGED <<connected, tx>>
    BY <1>1, <2>1, <2>2, Zenon DEF CarrierInv
  <2>3. CASE connected' = FALSE /\ UNCHANGED tx
    BY <1>1, <2>1, <2>3, Zenon DEF CarrierInv
  <2>4. CASE UNCHANGED connected /\ OtherSent
    <3>1. PICK code, c, n : code \in {"RING", "DATA"} /\ Enqueue(code, c, n)
      BY <2>4 DEF OtherSent
    <3>2. Announced => Announced'
      BY <1>0, <3>1, AnnouncedStays
    <3> QED BY <2>1, <2>4, <3>2, Zenon DEF CarrierInv
  <2> QED BY <1>5, <2>2, <2>3, <2>4, OthersEffect
<1> QED BY <1>4, <1>5

\* While the carrier is up the last answer the host got is CONNECT, however
\* hang-ups, callers and receive threads interleave with the bulk OUT thread.
THEOREM CarrierAnnounced == Spec => []ConnectAnnounced
<1>1. Init => CarrierInv
  <2>1. Init => out.pc = "read"
    BY SMT DEF Init
  <2> QED BY <2>1 DEF Init, CtxInit, CarrierInv
<1>2. TypeOK /\ CarrierInv /\ [Next]_vars => CarrierInv'
  BY CarrierInvInductive
<1>3. CarrierInv => ConnectAnnounced
  BY Zenon DEF CarrierInv, ConnectAnnounced
<1> QED BY <1>1, <1>2, <1>3, TypeCorrect, PTL DEF Spec

=============================================================================
