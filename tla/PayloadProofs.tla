---------------------------- MODULE PayloadProofs ----------------------------
(***************************************************************************)
(* Where payload goes.  Without a collision each receive thread reads the  *)
(* connection it was started for, so that what reaches the host belongs to *)
(* the call it was told of, in order and without a gap; and what the host  *)
(* sends is written to the connection of that call.                        *)
(***************************************************************************)
EXTENDS HangUpProofs

-----------------------------------------------------------------------------
(* Receive threads and what they hold.                                     *)

\* A thread that runs was not joined; one that does not, holds nothing.
ThreadsAlive ==
  \A t \in Conn :
    /\ rcv[t].pc \notin {"none", "exit"} => rcv[t].obj = "joinable"
    /\ rcv[t].pc \in {"none", "start", "exit"} => rcv[t].fd = NoFd
    /\ rcv[t].pc \notin {"wait", "recv", "callback", "enqueue"} => rcv[t].sel = NoConn
    /\ rcv[t].pc \in {"recv", "callback", "enqueue"} => rcv[t].sel \in Conn

\* A thread was started for a connection of its link, once; what is pointed
\* to, was started.
Started ==
  /\ \A t \in Conn : rcv[t].obj # "none" =>
       /\ conns[t].link = rcv[t].link
       /\ \A w \in Party : Phase[w] \in {"has", "half"} => ConnOf[w] # t
  /\ \A k \in Link : linkThr[k] \in Conn => rcv[linkThr[k]].obj # "none"
  /\ \A w \in Party : Phase[w] = "pointer" => rcv[ConnOf[w]].obj # "none"

\* The link of a thread that was not joined is its own connection, as long as
\* it is up.
Owned ==
  \A t \in Conn : rcv[t].obj = "joinable" =>
    LET k == rcv[t].link
    IN  linkFd[k] # NoFd /\ ~Clearing(k) => fdTab[linkFd[k]] = t

\* A thread's copy of the descriptor is that of its link, until a hang-up sets
\* that to 0 ...
Copied ==
  \A t \in Conn : rcv[t].fd # NoFd =>
    \/ rcv[t].fd = linkFd[rcv[t].link]
    \/ hang.link = rcv[t].link /\ hang.pc \in {"thread", "join"}

\* ... and it reads its own connection, until a hang-up closes that: the number
\* may be a caller's by then.
OwnFile ==
  \A t \in Conn : rcv[t].sel # NoConn =>
    \/ rcv[t].sel = t
    \/ hang.link = rcv[t].link /\ hang.pc \in {"zero", "thread", "join"}

\* What a thread has in hand is the last piece that was read, and it is on the
\* way to the host only in a call or in the hang-up that ends it.
Counted ==
  /\ hang.pc = "idle" => \A t \in Conn :
       rcv[t].pc \in {"callback", "enqueue"} => rcv[t].n = conns[t].read
  /\ \A t \in Conn : rcv[t].pc = "enqueue" =>
       rcv[t].sel = t /\ (connected \/ hang.pc # "idle")

\* The socket is closed by the time the pseudo-terminal's turn comes.
SockFirst ==
  /\ hang.pc = "idle" => hang.link = "sock"
  /\ hang.pc # "idle" /\ hang.link = "pty" => linkFd["sock"] = NoFd

Threads == ThreadsAlive /\ Started /\ Owned /\ Copied /\ OwnFile /\ Counted /\ SockFirst

-----------------------------------------------------------------------------
(* One link at a time.                                                     *)

\* The two parties do not share the player's time: in server mode the host
\* makes no PPP calls.  Where it does, a caller is heard in the middle of one
\* (PppCallHearsPtyOnly is violated), and in its place.
OnePartyAtATime == IsServer => \A p \in Packets : \A i \in DOMAIN p : p[i] \notin PppLines

\* A server that makes no PPP calls has no pseudo-terminal.
ServerHasNoPty ==
  IsServer =>
    /\ \A i \in DOMAIN buffer : buffer[i] \notin PppLines
    /\ out.line \notin PppLines
    /\ out.pc \notin {"pty", "isp"}
    /\ out.pc \in {"connect", "publish", "spawn", "pointer"} => out.link = "sock"
    /\ linkFd["pty"] = NoFd

\* A link is up, or the thread that brought it up is on the way to say so.
Up == Rising \/ Telling \/ Phase["dial"] \in Published

\* A player that dials has a link only from the time it is set up.
ClientDialsFirst ==
  ~IsServer =>
    /\ lsn.pc = "off"
    /\ hang.pc = "idle" =>
         /\ \A k \in Link : linkFd[k] # NoFd => Up
         /\ \E k \in Link : \A j \in Link \ {k} : linkFd[j] = NoFd

OneLink == ClientDialsFirst /\ (OnePartyAtATime => ServerHasNoPty)

-----------------------------------------------------------------------------
(* Payload in the transmit buffer.                                         *)

DataIn(s, c) == {i \in 1..Len(s) : s[i].code = "DATA" /\ s[i].conn = c}

\* Piece n of connection c continues what the host has of it in s.
Follows(s, c, n) ==
  \A i \in DataIn(s, c) : \/ s[i].n = n - 1
                          \/ \E k \in DataIn(s, c) : i < k /\ s[k].n = n - 1

\* The host was last told of c, or of nobody.
ToldOf(s, c) ==
  \E i \in 1..Len(s) :
    /\ s[i].code = "CONNECT" /\ s[i].conn \in {c, NoConn}
    /\ \A j \in i + 1 .. Len(s) : s[j].code # "CONNECT"

WithinCalls(s) ==
  \A j \in 1..Len(s) : s[j].code = "DATA" =>
    /\ \E i \in 1..j - 1 :
         /\ s[i].code = "CONNECT" /\ s[i].conn \in {s[j].conn, NoConn}
         /\ \A k \in i + 1 .. j - 1 : s[k].code # "CONNECT"
    /\ \A i \in 1..j - 1 : s[i].code = "DATA" /\ s[i].conn = s[j].conn =>
         \/ s[i].n = s[j].n - 1
         \/ \E k \in i + 1 .. j - 1 : s[k].code = "DATA" /\ s[k].conn = s[j].conn
                                      /\ s[k].n = s[j].n - 1

\* The place of the next piece a thread will send.
Due(t) == IF rcv[t].pc \in {"callback", "enqueue"} THEN conns[t].read ELSE conns[t].read + 1

Payload ==
  /\ WithinCalls(tx)
  /\ \A c \in Conn : DataIn(tx, c) # {} => rcv[c].obj # "none"
  /\ \A t \in Conn : rcv[t].obj = "joinable" =>
       /\ hang.pc = "idle" /\ ~connected => DataIn(tx, t) = {}
       /\ connected => Follows(tx, t, Due(t))
  /\ \A t \in Conn : rcv[t].pc = "enqueue" => Follows(tx, t, rcv[t].n) /\ ToldOf(tx, t)

-----------------------------------------------------------------------------
(* The host's payload.                                                     *)

\* The number that send() has loaded is that of the call's connection, or was.
SentToCall ==
  ~IsServer /\ out.pc = "send" =>
    /\ out.fd \in Fd
    /\ \A i \in 1..Len(tx) : IsLastConnect(i) /\ tx[i].conn # NoConn =>
         fdTab[out.fd] \in {NoConn, tx[i].conn}

-----------------------------------------------------------------------------
(* What a receive thread does in a step.                                   *)

\* To others, nothing.
Apiece(t) ==
  /\ UNCHANGED <<connected, buffer, fdTab, linkFd, linkThr, hang, out, lsn>>
  /\ LinksKept /\ ObjsKept
  /\ \A u \in Conn \ {t} : rcv'[u] = rcv[u]
  /\ rcv[t].pc \notin {"none", "exit"}
\* To its own state, one of these.
Copies(t) == /\ rcv[t].pc = "start" /\ rcv'[t].pc = "select"
             /\ rcv'[t].fd = linkFd[rcv[t].link] /\ rcv'[t].sel = rcv[t].sel
             /\ UNCHANGED <<conns, tx>>
Ends(t) == /\ rcv[t].pc \notin {"callback", "enqueue"}
           /\ rcv'[t].pc = "exit" /\ rcv'[t].fd = NoFd /\ rcv'[t].sel = NoConn
           /\ UNCHANGED <<conns, tx>>
LooksUp(t) == /\ rcv[t].pc \in {"select", "read"}
              /\ rcv'[t].pc \in {"wait", "recv"} /\ rcv'[t].fd = rcv[t].fd
              /\ rcv'[t].sel = FileOf(rcv[t].fd)
              /\ rcv'[t].pc = "recv" => rcv'[t].sel # NoConn
              /\ UNCHANGED <<conns, tx>>
Rests(t) == /\ rcv'[t].pc \in {"select", "read"} /\ rcv'[t].fd = rcv[t].fd
            /\ rcv'[t].sel = NoConn
            /\ rcv[t].pc = "callback" => ~connected
            /\ rcv[t].pc # "enqueue"
            /\ UNCHANGED <<conns, tx>>
ReadsOne(t) == /\ rcv[t].pc = "recv" /\ rcv'[t].pc = "callback"
               /\ rcv'[t].fd = rcv[t].fd /\ rcv'[t].sel = rcv[t].sel
               /\ LET c == rcv[t].sel
                  IN  /\ c \in Conn => conns'[c].read = conns[c].read + 1
                      /\ rcv'[t].n = conns[c].read + 1
                      /\ \A d \in Conn \ {c} : conns'[d] = conns[d]
               /\ UNCHANGED tx
Passes(t) == /\ rcv[t].pc = "callback" /\ rcv'[t].pc = "enqueue" /\ connected
             /\ rcv'[t].fd = rcv[t].fd /\ rcv'[t].sel = rcv[t].sel /\ rcv'[t].n = rcv[t].n
             /\ UNCHANGED <<conns, tx>>
Sends(t) == /\ rcv[t].pc = "enqueue" /\ rcv'[t].pc = "select"
            /\ rcv'[t].fd = rcv[t].fd /\ rcv'[t].sel = NoConn
            /\ Enqueue("DATA", rcv[t].sel, rcv[t].n)
            /\ UNCHANGED conns

ThreadMoves(t) ==
  /\ Apiece(t)
  /\ Copies(t) \/ Ends(t) \/ LooksUp(t) \/ Rests(t) \/ ReadsOne(t) \/ Passes(t) \/ Sends(t)

\* Its actions, one by one.
LEMMA RecvMoves ==
  ASSUME TypeOK, NEW t \in Conn, RecvNext(t)
  PROVE  ThreadMoves(t)
<1> USE DEF ctxVars, sessionVars
<1>0. /\ conns \in [Conn -> ConnType] /\ rcv \in [Conn -> RcvType]
      /\ rcv[t] \in RcvType
      /\ fdTab \in [Fd -> Conn \cup {NoConn}] /\ linkFd \in [Link -> Fd \cup {NoFd}]
  <2>1. conns \in [Conn -> ConnType] /\ rcv \in [Conn -> RcvType]
    BY Zenon DEF TypeOK
  <2>2. fdTab \in [Fd -> Conn \cup {NoConn}] /\ linkFd \in [Link -> Fd \cup {NoFd}]
    BY Zenon DEF TypeOK
  <2> QED BY <2>1, <2>2, Zenon
<1>1. RecvThread(t) /\ UNCHANGED <<lsn, buffer>>
  BY Zenon DEF RecvNext
<1>2. LinksKept /\ ObjsKept
  BY OutsideMoves, Zenon DEF Goes
<1>3. /\ UNCHANGED <<connected, fdTab, linkFd, linkThr, hang, out>>
      /\ rcv[t].pc \notin {"none", "exit"}
  BY <1>1, SMT DEF RecvThread, RecvStart, RecvSelect, RecvReadable, RecvTimeout,
     RecvLookup, RecvData, RecvEnd, recv_callback, RecvEnqueue
<1>4. \A u \in Conn \ {t} : rcv'[u] = rcv[u] /\ Ended(t)[u] = rcv[u]
  BY <1>0, <1>1, SMT DEF Ended, RecvThread, RecvStart, RecvSelect, RecvReadable, RecvTimeout,
     RecvLookup, RecvData, RecvEnd, recv_callback, RecvEnqueue
<1>5. Apiece(t)
  BY <1>1, <1>2, <1>3, <1>4 DEF Apiece
<1>6. Ended(t)[t].pc = "exit" /\ Ended(t)[t].fd = NoFd /\ Ended(t)[t].sel = NoConn
  BY <1>0, SMT DEF Ended, NoThread
<1>7. CASE RecvStart(t)
  <2>1. Copies(t)
    BY <1>0, <1>7, SMT DEF RecvStart, Copies, RcvType
  <2> QED BY <1>5, <2>1 DEF ThreadMoves
<1>8. CASE RecvSelect(t)
  <2>1. CASE rcv' = Ended(t)
    <3>1. rcv[t].pc = "select" /\ UNCHANGED <<conns, tx>>
      BY <1>8, Zenon DEF RecvSelect
    <3>2. Ends(t)
      BY <1>6, <2>1, <3>1, SMT DEF Ends
    <3> QED BY <1>5, <3>2 DEF ThreadMoves
  <2>2. CASE rcv' = [rcv EXCEPT ![t].pc = "wait", ![t].sel = FileOf(rcv[t].fd)]
    <3>1. LooksUp(t)
      BY <1>0, <1>8, <2>2, SMT DEF LooksUp, RecvSelect, RcvType
    <3> QED BY <1>5, <3>1 DEF ThreadMoves
  <2> QED BY <1>8, <2>1, <2>2, Zenon DEF RecvSelect
<1>9. CASE RecvReadable(t)
  <2>1. Rests(t)
    BY <1>0, <1>9, SMT DEF RecvReadable, Rests, RcvType
  <2> QED BY <1>5, <2>1 DEF ThreadMoves
<1>10. CASE RecvTimeout(t)
  <2>1. CASE rcv' = Ended(t)
    <3>1. rcv[t].pc = "wait" /\ UNCHANGED <<conns, tx>>
      BY <1>10, Zenon DEF RecvTimeout
    <3>2. Ends(t)
      BY <1>6, <2>1, <3>1, SMT DEF Ends
    <3> QED BY <1>5, <3>2 DEF ThreadMoves
  <2>2. CASE rcv' = [rcv EXCEPT ![t].pc = "select", ![t].sel = NoConn]
    <3>1. Rests(t)
      BY <1>0, <1>10, <2>2, SMT DEF Rests, RecvTimeout, RcvType
    <3> QED BY <1>5, <3>1 DEF ThreadMoves
  <2> QED BY <1>10, <2>1, <2>2, Zenon DEF RecvTimeout
<1>11. CASE RecvLookup(t)
  <2>1. CASE rcv' = Ended(t)
    <3>1. rcv[t].pc = "read" /\ UNCHANGED <<conns, tx>>
      BY <1>11, Zenon DEF RecvLookup
    <3>2. Ends(t)
      BY <1>6, <2>1, <3>1, SMT DEF Ends
    <3> QED BY <1>5, <3>2 DEF ThreadMoves
  <2>2. CASE /\ rcv' = [rcv EXCEPT ![t].pc = "recv", ![t].sel = fdTab[rcv[t].fd]]
             /\ FileOf(rcv[t].fd) # NoConn
    <3>1. fdTab[rcv[t].fd] = FileOf(rcv[t].fd)
      BY <2>2, Zenon DEF FileOf
    <3>2. LooksUp(t)
      BY <1>0, <1>11, <2>2, <3>1, SMT DEF LooksUp, RecvLookup, RcvType
    <3> QED BY <1>5, <3>2 DEF ThreadMoves
  <2> QED BY <1>11, <2>1, <2>2, Zenon DEF RecvLookup
<1>12. CASE RecvData(t)
  <2> DEFINE c == rcv[t].sel
  <2>1. /\ rcv[t].pc = "recv" /\ conns' = [conns EXCEPT ![c].read = conns[c].read + 1]
        /\ rcv' = [rcv EXCEPT ![t].pc = "callback", ![t].n = conns[c].read + 1]
        /\ UNCHANGED tx
    BY <1>12, Zenon DEF RecvData
  <2>2. /\ rcv'[t].pc = "callback" /\ rcv'[t].fd = rcv[t].fd /\ rcv'[t].sel = rcv[t].sel
        /\ rcv'[t].n = conns[c].read + 1
    BY <1>0, <2>1, SMT DEF RcvType
  <2>3. /\ c \in Conn => conns'[c].read = conns[c].read + 1
        /\ \A d \in Conn \ {c} : conns'[d] = conns[d]
    BY <1>0, <2>1, SMT DEF ConnType
  <2>4. ReadsOne(t)
    BY <2>1, <2>2, <2>3, Zenon DEF ReadsOne
  <2> QED BY <1>5, <2>4 DEF ThreadMoves
<1>13. CASE RecvEnd(t)
  <2>1. Ends(t)
    BY <1>6, <1>13, SMT DEF Ends, RecvEnd
  <2> QED BY <1>5, <2>1 DEF ThreadMoves
<1>14. CASE recv_callback(t)
  <2>1. CASE connected
    <3>1. rcv' = [rcv EXCEPT ![t].pc = "enqueue"] /\ rcv[t].pc = "callback" /\ UNCHANGED <<conns, tx>>
      BY <1>14, <2>1, Zenon DEF recv_callback
    <3>2. /\ rcv'[t].pc = "enqueue" /\ rcv'[t].fd = rcv[t].fd /\ rcv'[t].sel = rcv[t].sel
          /\ rcv'[t].n = rcv[t].n
      BY <1>0, <3>1, SMT DEF RcvType
    <3>3. Passes(t)
      BY <2>1, <3>1, <3>2 DEF Passes
    <3> QED BY <1>5, <3>3 DEF ThreadMoves
  <2>2. CASE ~connected
    <3>1. /\ rcv' = [rcv EXCEPT ![t].pc = "select", ![t].sel = NoConn, ![t].n = 0]
          /\ rcv[t].pc = "callback" /\ UNCHANGED <<conns, tx>>
      BY <1>14, <2>2, Zenon DEF recv_callback
    <3>2. rcv'[t].pc = "select" /\ rcv'[t].fd = rcv[t].fd /\ rcv'[t].sel = NoConn
      BY <1>0, <3>1, SMT DEF RcvType
    <3>3. Rests(t)
      BY <2>2, <3>1, <3>2, SMT DEF Rests
    <3> QED BY <1>5, <3>3 DEF ThreadMoves
  <2> QED BY <2>1, <2>2
<1>15. CASE RecvEnqueue(t)
  <2>1. /\ rcv' = [rcv EXCEPT ![t].pc = "select", ![t].sel = NoConn, ![t].n = 0]
        /\ rcv[t].pc = "enqueue" /\ UNCHANGED conns /\ Enqueue("DATA", rcv[t].sel, rcv[t].n)
    BY <1>15, Zenon DEF RecvEnqueue
  <2>2. rcv'[t].pc = "select" /\ rcv'[t].fd = rcv[t].fd /\ rcv'[t].sel = NoConn
    BY <1>0, <2>1, SMT DEF RcvType
  <2>3. Sends(t)
    BY <2>1, <2>2 DEF Sends
  <2> QED BY <1>5, <2>3 DEF ThreadMoves
<1> QED BY <1>1, <1>7, <1>8, <1>9, <1>10, <1>11, <1>12, <1>13, <1>14, <1>15 DEF RecvThread

-----------------------------------------------------------------------------
(* What the others do.                                                     *)

\* A hang-up lets go of links and joins or deletes threads, and does nothing
\* else to them.
HangsUp ==
  /\ UNCHANGED <<connected, tx, conns, out, lsn, buffer>>
  /\ \A t \in Conn :
       /\ rcv'[t].pc = rcv[t].pc /\ rcv'[t].fd = rcv[t].fd /\ rcv'[t].sel = rcv[t].sel
       /\ rcv'[t].n = rcv[t].n /\ rcv'[t].link = rcv[t].link
       /\ \/ rcv'[t].obj = rcv[t].obj
          \/ rcv'[t].obj = "joined" /\ hang.pc = "join" /\ hang.thr = t /\ rcv[t].pc = "exit"
          \/ rcv'[t].obj = "deleted" /\ hang.pc = "delete" /\ linkThr[hang.link] = t
             /\ rcv[t].obj # "joinable"
  /\ \A k \in Link : linkFd'[k] \in {linkFd[k], NoFd} /\ linkThr'[k] \in {linkThr[k], NoConn}
  /\ hang.pc = "zero" => linkFd'[hang.link] = NoFd
  /\ hang.pc # "idle"
  /\ hang'.pc # "zero" => UNCHANGED fdTab

\* Its actions, one by one.
LEMMA HangUpMoves ==
  ASSUME TypeOK, HangUpNext
  PROVE  HangsUp
<1> USE DEF ctxVars, sessionVars, linkVars
<1>0. /\ rcv \in [Conn -> RcvType] /\ hang \in HangType /\ hang.link \in Link
      /\ linkFd \in [Link -> Fd \cup {NoFd}] /\ linkThr \in [Link -> Conn \cup {NoConn}]
  BY Zenon DEF TypeOK, HangType
<1>1. Disconnect /\ UNCHANGED <<lsn, buffer>>
  BY Zenon DEF HangUpNext
<1>2. UNCHANGED <<connected, tx, conns, out>> /\ hang.pc # "idle"
  BY <1>1, SMT DEF Disconnect, DisconnectLoad, DisconnectClose, DisconnectZero,
     DisconnectThread, DisconnectJoin, DisconnectDelete, DisconnectNull
<1>3. CASE DisconnectLoad \/ DisconnectThread
  <2>1. UNCHANGED <<fdTab, rcv, linkFd, linkThr>> /\ hang.pc # "zero"
    BY <1>3, SMT DEF DisconnectLoad, DisconnectThread
  <2> QED BY <1>1, <1>2, <2>1, Zenon DEF HangsUp
<1>4. CASE DisconnectClose
  <2>1. UNCHANGED <<rcv, linkFd, linkThr>> /\ hang.pc = "close" /\ hang'.pc = "zero"
    BY <1>0, <1>4, Zenon DEF DisconnectClose, HangType
  <2> QED BY <1>1, <1>2, <2>1, SMT DEF HangsUp
<1>5. CASE DisconnectZero
  <2>1. UNCHANGED <<fdTab, rcv, linkThr>> /\ linkFd' = [linkFd EXCEPT ![hang.link] = NoFd]
    BY <1>5, Zenon DEF DisconnectZero
  <2>2. \A k \in Link : linkFd'[k] \in {linkFd[k], NoFd}
    BY <1>0, <2>1, SMT
  <2>3. linkFd'[hang.link] = NoFd
    BY <1>0, <2>1, SMT
  <2> QED BY <1>1, <1>2, <2>1, <2>2, <2>3, Zenon DEF HangsUp
<1>6. CASE DisconnectJoin
  <2>1. /\ UNCHANGED <<fdTab, linkFd, linkThr>> /\ hang.pc = "join"
        /\ rcv' = [rcv EXCEPT ![hang.thr].obj = "joined"] /\ rcv[hang.thr].pc = "exit"
    BY <1>6, Zenon DEF DisconnectJoin
  <2>2. \A t \in Conn :
          /\ rcv'[t].pc = rcv[t].pc /\ rcv'[t].fd = rcv[t].fd /\ rcv'[t].sel = rcv[t].sel
          /\ rcv'[t].n = rcv[t].n /\ rcv'[t].link = rcv[t].link
          /\ \/ rcv'[t].obj = rcv[t].obj
             \/ rcv'[t].obj = "joined" /\ hang.thr = t
    BY <1>0, <2>1, SMT DEF RcvType
  <2>3. hang.pc # "zero"
    BY <2>1
  <2> QED BY <1>1, <1>2, <2>1, <2>2, <2>3, Zenon DEF HangsUp
<1>7. CASE DisconnectDelete
  <2>0. UNCHANGED <<fdTab, linkFd, linkThr>> /\ hang.pc = "delete" /\ hang.pc # "zero"
    BY <1>7, SMT DEF DisconnectDelete
  <2>1. CASE UNCHANGED rcv
    BY <1>1, <1>2, <2>0, <2>1, Zenon DEF HangsUp
  <2>2. CASE /\ rcv' = [rcv EXCEPT ![linkThr[hang.link]].obj = "deleted"]
             /\ rcv[linkThr[hang.link]].obj # "joinable"
    <3>1. \A t \in Conn :
            /\ rcv'[t].pc = rcv[t].pc /\ rcv'[t].fd = rcv[t].fd /\ rcv'[t].sel = rcv[t].sel
            /\ rcv'[t].n = rcv[t].n /\ rcv'[t].link = rcv[t].link
            /\ \/ rcv'[t].obj = rcv[t].obj
               \/ rcv'[t].obj = "deleted" /\ linkThr[hang.link] = t
      BY <1>0, <2>2, SMT DEF RcvType
    <3> QED BY <1>1, <1>2, <2>0, <2>2, <3>1, Zenon DEF HangsUp
  <2> QED BY <1>7, <2>1, <2>2, Zenon DEF DisconnectDelete
<1>8. CASE DisconnectNull
  <2>1. UNCHANGED <<fdTab, rcv, linkFd>> /\ linkThr' = [linkThr EXCEPT ![hang.link] = NoConn]
        /\ hang.pc # "zero"
    BY <1>8, SMT DEF DisconnectNull
  <2>2. \A k \in Link : linkThr'[k] \in {linkThr[k], NoConn}
    BY <1>0, <2>1, SMT
  <2> QED BY <1>1, <1>2, <2>1, <2>2, Zenon DEF HangsUp
<1> QED BY <1>1, <1>3, <1>4, <1>5, <1>6, <1>7, <1>8 DEF Disconnect

\* Where the sending threads are not heard of, and nobody hangs up, a party
\* starts a thread or leaves the threads alone, and what was read.
Aside(w) ==
  /\ Spawns(w) \/ UNCHANGED rcv
  /\ Goes(w) => \A c \in Conn : conns'[c].read = conns[c].read

\* Those steps are moves of one party.
LEMMA AsideMoves ==
  ASSUME TypeOK, ~Collision, [Next]_vars, ~HangUpNext, ~\E t \in Conn : RecvNext(t)
  PROVE  \E w \in Party : \E v \in Party \ {w} :
           HangStays /\ Stays(v) /\ Moves(w) /\ Aside(w)
<1> USE DEF ctxVars, sessionVars, linkVars
<1>0. /\ conns \in [Conn -> ConnType] /\ out \in OutType /\ lsn \in LsnType
  BY Zenon DEF TypeOK
<1>1. "dial" \in Party /\ "listen" \in Party /\ "dial" # "listen"
  BY SMT DEF Party
<1>2. CASE BulkOutNext
  <2>1. HangStays /\ Stays("listen") /\ Moves("dial") /\ BulkOut
    BY <1>2, BulkOutMoves DEF BulkOutNext, HangStays
  <2>2. Spawns("dial") \/ UNCHANGED rcv
    <3>1. CASE ConnectSpawn
      <4>1. out'.pc = "pointer" /\ out.pc = "spawn"
        BY <1>0, <3>1, Zenon DEF ConnectSpawn, OutType
      <4>2. Phase["dial"] = "half" /\ Phase'["dial"] = "pointer"
        BY <4>1, SMT DEF Phase, Party, OutHas
      <4> QED BY <2>1, <4>2, SMT DEF Moves, Opens, Closes, Publishes, Points, Goes
    <3> QED BY <2>1, <3>1, Zenon DEF BulkOut, OfflineDone, TakeLine, AtEcho, AtExt,
            AtPlain, AtAnswer, AtPpp, AtNoSock, AtDial, AtReply, AtRaise, OnlineDone, Route,
            ClearBuffer, SockConnect, SockSocket, SockConnected, SockRefused, PtyConnect,
            PtyOpened, PtyFailed, setupISP, ConnectTail, ConnectPublish, ConnectPointer, SendWrite
  <2>3. Goes("dial") => \A c \in Conn : conns'[c].read = conns[c].read
    <3>1. CASE SockSocket \/ PtyOpened \/ SockRefused
      <4>1. \/ out.pc \in {"socket", "pty"} /\ out'.pc \in {"connect", "publish"}
            \/ out.pc = "connect" /\ out'.pc = "reply"
        BY <1>0, <3>1, Zenon DEF SockSocket, PtyOpened, SockRefused, OutType
      <4> QED BY <4>1, SMT DEF Goes, Phase, Party, OutHas
    <3>2. CASE SockConnected
      BY <1>0, <3>2, SMT DEF SockConnected, ConnType
    <3> QED BY <2>1, <3>1, <3>2, Zenon DEF BulkOut, OfflineDone, TakeLine, AtEcho, AtExt,
            AtPlain, AtAnswer, AtPpp, AtNoSock, AtDial, AtReply, AtRaise, OnlineDone, Route,
            ClearBuffer, SockConnect, PtyConnect,
            PtyFailed, setupISP, ConnectTail, ConnectPublish, ConnectSpawn, ConnectPointer, SendWrite
  <2> QED BY <1>1, <2>1, <2>2, <2>3 DEF Aside
<1>3. CASE ListenNext \/ CallerNext
  <2>1. HangStays /\ Stays("dial") /\ Moves("listen") /\ (ListenTail \/ ListenAccept)
    BY <1>3, ListenMoves DEF ListenNext, CallerNext, HangStays
  <2>2. Spawns("listen") \/ UNCHANGED rcv
    <3>1. CASE ListenSpawn
      <4>1. lsn'.pc = "pointer" /\ lsn.pc = "spawn"
        BY <1>0, <3>1, Zenon DEF ListenSpawn, LsnType
      <4>2. Phase["listen"] = "half" /\ Phase'["listen"] = "pointer"
        BY <4>1, SMT DEF Phase, Party, LsnHas
      <4> QED BY <2>1, <4>2, SMT DEF Moves, Opens, Closes, Publishes, Points, Goes
    <3> QED BY <2>1, <3>1, Zenon DEF ListenTail, ListenAccept, ListenCheck, ListenRefuse,
            ListenPublish, ListenRing, ListenPointer
  <2>3. Goes("listen") => \A c \in Conn : conns'[c].read = conns[c].read
    <3>1. CASE ListenAccept \/ ListenRefuse
      <4>1. \/ lsn.pc = "accept" /\ lsn'.pc = "check"
            \/ lsn.pc = "refuse" /\ lsn'.pc = "accept"
        BY <1>0, <3>1, Zenon DEF ListenAccept, ListenRefuse, LsnType
      <4> QED BY <4>1, SMT DEF Goes, Phase, Party, LsnHas
    <3> QED BY <2>1, <3>1, Zenon DEF ListenTail, ListenCheck,
            ListenPublish, ListenRing, ListenSpawn, ListenPointer
  <2> QED BY <1>1, <2>1, <2>2, <2>3 DEF Aside
<1>4. CASE (\E c \in Conn : FarEndNext(c)) \/ HostNext \/ AcceptFails \/ UNCHANGED vars
  <2>1. HangStays /\ Stays("listen") /\ Goes("dial")
    BY <1>4, OutsideMoves
  <2>2. UNCHANGED rcv
    BY <1>4, Zenon DEF FarEndNext, FarEndStep, PeerSend, PeerClose, SlaveOpen, HostNext,
       HostStep, OnHook, HostPacket, AcceptFails, ListenFails, linkVars, vars
  <2>3. \A c \in Conn : conns'[c].read = conns[c].read
    <3>1. CASE UNCHANGED conns
      BY <3>1
    <3>2. ASSUME NEW c \in Conn, FarEndStep(c)
          PROVE  \A d \in Conn : conns'[d].read = conns[d].read
      BY <1>0, <3>2, SMT DEF FarEndStep, PeerSend, PeerClose, SlaveOpen, ConnType
    <3> QED BY <1>4, <3>1, <3>2, Zenon DEF FarEndNext, HostNext, HostStep, OnHook, HostPacket,
         AcceptFails, ListenFails, vars
  <2> QED BY <1>1, <2>1, <2>2, <2>3 DEF Aside, Moves
<1> QED BY <1>2, <1>3, <1>4, Zenon DEF Next, WaitForOutside

-----------------------------------------------------------------------------
(* Each thread has its own connection.                                     *)

\* A thread that is started holds nothing yet.
LEMMA SpawnFacts ==
  ASSUME TypeOK, NEW w \in Party, Spawns(w), ConnOf[w] \in Conn, LinkOf[w] \in Link
  PROVE  /\ \A t \in Conn \ {ConnOf[w]} : rcv'[t] = rcv[t]
         /\ rcv'[ConnOf[w]].pc = "start" /\ rcv'[ConnOf[w]].fd = NoFd
         /\ rcv'[ConnOf[w]].sel = NoConn /\ rcv'[ConnOf[w]].obj = "joinable"
         /\ rcv'[ConnOf[w]].link = LinkOf[w]
<1>1. rcv \in [Conn -> RcvType]
  BY Zenon DEF TypeOK
<1> QED BY <1>1, SMT DEF Spawns, SpawnFor, NoThread

\* Who runs was not joined.
LEMMA AliveInductive ==
  ASSUME TypeOK, InHand, ~Collision, Tracked, ThreadsAlive, [Next]_vars
  PROVE  ThreadsAlive'
<1> USE DEF ThreadsAlive
<1>0. /\ fdTab \in [Fd -> Conn \cup {NoConn}]
      /\ \A t \in Conn : rcv[t].fd \in Fd \cup {NoFd} /\ rcv[t].sel \in Conn \cup {NoConn}
  <2>1. fdTab \in [Fd -> Conn \cup {NoConn}]
    BY Zenon DEF TypeOK
  <2>2. \A t \in Conn : rcv[t] \in RcvType
    BY Zenon DEF TypeOK
  <2> QED BY <2>1, <2>2, Zenon DEF RcvType
<1>1. ASSUME NEW t \in Conn, RecvNext(t)
      PROVE  ThreadsAlive'
  <2>1. ThreadMoves(t)
    BY <1>1, RecvMoves
  <2>2. \A u \in Conn \ {t} : rcv'[u] = rcv[u]
    BY <2>1 DEF ThreadMoves, Apiece
  <2>3. rcv[t].obj = "joinable" /\ rcv'[t].obj = "joinable"
    BY <2>1, SMT DEF ThreadMoves, Apiece, ObjsKept
  <2>4. FileOf(rcv[t].fd) \in Conn \cup {NoConn}
    BY <1>0, Zenon DEF FileOf
  <2>5. CASE Copies(t) \/ Ends(t) \/ Rests(t)
    BY <2>2, <2>3, <2>5, SMT DEF Copies, Ends, Rests
  <2>6. CASE LooksUp(t)
    BY <2>2, <2>3, <2>4, <2>6, SMT DEF LooksUp
  <2>7. CASE ReadsOne(t)
    BY <2>2, <2>3, <2>7, SMT DEF ReadsOne
  <2>8. CASE Passes(t) \/ Sends(t)
    BY <2>2, <2>3, <2>8, SMT DEF Passes, Sends
  <2> QED BY <2>1, <2>5, <2>6, <2>7, <2>8 DEF ThreadMoves
<1>2. CASE HangUpNext
  <2>1. HangsUp
    BY <1>2, HangUpMoves
  <2> QED BY <2>1, SMT DEF HangsUp
<1>3. CASE ~HangUpNext /\ ~\E t \in Conn : RecvNext(t)
  <2>1. PICK w \in Party : Moves(w) /\ Aside(w)
    BY <1>3, AsideMoves, Zenon
  <2>2. CASE UNCHANGED rcv
    BY <2>2
  <2>3. CASE Spawns(w)
    <3>1. ConnOf[w] \in Conn /\ LinkOf[w] \in Link
      BY <2>3, SMT DEF Spawns, Tracked, HalfTracked, Published, InHand
    <3>2. /\ \A t \in Conn \ {ConnOf[w]} : rcv'[t] = rcv[t]
          /\ rcv'[ConnOf[w]].pc = "start" /\ rcv'[ConnOf[w]].fd = NoFd
          /\ rcv'[ConnOf[w]].sel = NoConn /\ rcv'[ConnOf[w]].obj = "joinable"
      BY <2>3, <3>1, SpawnFacts, Zenon
    <3> QED BY <3>1, <3>2, SMT
  <2> QED BY <2>1, <2>2, <2>3 DEF Aside
<1> QED BY <1>1, <1>2, <1>3

\* No thread is started twice.
LEMMA StartedInductive ==
  ASSUME TypeOK, InHand, InHand', Parted, ~Collision, Tracked, LinkFiles, Started, [Next]_vars,
         hang.pc = "join" => linkThr[hang.link] = hang.thr
  PROVE  Started'
<1> USE DEF Started
<1>0. /\ \A t \in Conn : rcv[t].link \in Link
      /\ NoConn \notin Conn /\ "none" \notin Link
      /\ linkThr \in [Link -> Conn \cup {NoConn}] /\ hang.link \in Link
      /\ linkFd \in [Link -> Fd \cup {NoFd}]
  <2>1. \A t \in Conn : rcv[t] \in RcvType
    BY Zenon DEF TypeOK
  <2>2. \A t \in Conn : rcv[t].link \in Link
    BY <2>1, Zenon DEF RcvType
  <2>3. linkThr \in [Link -> Conn \cup {NoConn}] /\ hang.link \in Link /\ linkFd \in [Link -> Fd \cup {NoFd}]
    BY Zenon DEF TypeOK, HangType
  <2> QED BY <2>2, <2>3, Apartness, SMT DEF Link
<1>1. CASE HangUpNext
  <2>1. HangsUp
    BY <1>1, HangUpMoves
  <2>2. \A w \in Party : Phase'[w] = Phase[w] /\ ConnOf'[w] = ConnOf[w]
    BY <2>1, PartyStays, SMT DEF HangsUp, Stays, Party
  <2>3. \A t \in Conn : rcv'[t].obj # "none" <=> rcv[t].obj # "none"
    BY <1>0, <2>1, SMT DEF HangsUp
  <2>4. UNCHANGED conns /\ \A t \in Conn : rcv'[t].link = rcv[t].link
    BY <2>1 DEF HangsUp
  <2>5. \A k \in Link : linkThr'[k] \in {linkThr[k], NoConn}
    BY <2>1 DEF HangsUp
  <2>6. \A w \in Party : Phase[w] = "pointer" => ConnOf[w] \in Conn
    BY SMT DEF Tracked, HalfTracked, Published
  <2> QED BY <1>0, <2>2, <2>3, <2>4, <2>5, <2>6, SMT
<1>2. ASSUME NEW t \in Conn, RecvNext(t)
      PROVE  Started'
  <2>1. /\ ThreadMoves(t) /\ \A w \in Party : Stays(w)
    BY <1>2, RecvMoves, OutsideMoves, SMT DEF Party
  <2>2. \A u \in Conn : rcv'[u].obj = rcv[u].obj /\ rcv'[u].link = rcv[u].link
    BY <2>1 DEF ThreadMoves, Apiece, ObjsKept
  <2>3. UNCHANGED linkThr /\ \A c \in Conn : conns'[c].link = conns[c].link
    BY <2>1 DEF ThreadMoves, Apiece, LinksKept
  <2>4. \A w \in Party : Phase[w] = "pointer" => ConnOf[w] \in Conn
    BY SMT DEF Tracked, HalfTracked, Published
  <2> QED BY <1>0, <2>1, <2>2, <2>3, <2>4, SMT DEF Stays
<1>3. CASE ~HangUpNext /\ ~\E t \in Conn : RecvNext(t)
  <2>1. PICK w \in Party, v \in Party : v # w /\ Stays(v) /\ Moves(w) /\ Aside(w)
    BY <1>3, AsideMoves, SMT
  <2>2. \A u \in Party : u = w \/ u = v
    BY <2>1, SMT DEF Party
  <2>3. /\ Phase'[v] = Phase[v] /\ ConnOf'[v] = ConnOf[v]
        /\ \A u \in Party : Phase[u] = "pointer" => ConnOf[u] \in Conn
    BY <2>1, SMT DEF Stays, Tracked, HalfTracked, Published
  <2>4. CASE Opens(w)
    <3>1. PICK f \in Fd, c \in Conn : Opening(w, f, c)
      BY <2>4, MoveFacts, Zenon
    <3>2. rcv[c].obj = "none"
      BY <1>0, <3>1, SMT DEF Opening
    <3>3. UNCHANGED <<rcv, linkThr>> /\ Phase'[w] = "has"
      BY <2>4, Zenon DEF Opens
    <3>4. \A d \in Conn : rcv[d].obj # "none" => d # c /\ conns'[d].link = conns[d].link
      BY <3>1, <3>2, SMT DEF Opening
    <3>5. ConnOf'[w] = c
      BY <3>1 DEF Opening
    <3> QED BY <1>0, <2>2, <2>3, <3>3, <3>4, <3>5, SMT
  <2>5. CASE Closes(w)
    <3>1. /\ Phase[w] = "has" /\ Phase'[w] = "none" /\ UNCHANGED <<rcv, linkThr>>
          /\ \A d \in Conn \ {ConnOf[w]} : conns'[d].link = conns[d].link
      BY <2>5, MoveFacts, Zenon DEF Closes
    <3> QED BY <1>0, <2>2, <2>3, <3>1, SMT
  <2>6. CASE Publishes(w)
    <3>1. /\ Phase[w] = "has" /\ Phase'[w] = "half" /\ UNCHANGED <<rcv, linkThr, conns>>
          /\ ConnOf'[w] = ConnOf[w]
      BY <2>6, Zenon DEF Publishes
    <3> QED BY <1>0, <2>2, <2>3, <3>1, SMT
  <2>7. CASE Spawns(w)
    <3> DEFINE t == ConnOf[w]
    <3>1. /\ Phase[w] = "half" /\ Phase'[w] = "pointer" /\ UNCHANGED <<conns, linkThr, fdTab, linkFd>>
          /\ ConnOf'[w] = t
      BY <2>7, Zenon DEF Spawns
    <3>2. /\ t \in Conn /\ LinkOf[w] \in Link /\ conns[t].link = LinkOf[w]
          /\ linkFd[LinkOf[w]] \in Fd /\ fdTab[linkFd[LinkOf[w]]] = t
      BY <3>1, SMT DEF Tracked, HalfTracked, Published, InHand
    <3>3. /\ rcv'[t].obj = "joinable" /\ rcv'[t].link = LinkOf[w]
          /\ \A u \in Conn \ {t} : rcv'[u] = rcv[u]
      BY <2>7, <3>2, SpawnFacts, Zenon
    <3>4. hang.pc = "idle"
      BY <3>1, HalfIsIdle, SMT DEF IdleAtHalf, Published
    \* The other party has another connection.
    <3>5. Phase[v] = "has" => ConnOf[v] # t
      <4>1. Phase[v] = "has" => /\ FdOf[v] \in Fd /\ fdTab[FdOf[v]] = ConnOf[v] /\ ConnOf[v] \in Conn
                                /\ linkFd[LinkOf[w]] # FdOf[v]
        BY <3>2, <3>4, SMT DEF InHand
      <4> QED BY <1>0, <3>2, <4>1, SMT DEF Tracked, Files
    <3>6. Phase[v] = "half" => ConnOf[v] # t
      <4>1. Phase[v] = "half" => LinkOf[v] # LinkOf[w] /\ conns[ConnOf[v]].link = LinkOf[v]
        BY <2>1, <3>1, SMT DEF Tracked, HalfTracked, Published
      <4> QED BY <3>2, <4>1, SMT
    <3> HIDE DEF t
    <3>7. \A u \in Conn : rcv'[u].obj # "none" =>
            /\ conns'[u].link = rcv'[u].link
            /\ \A x \in Party : Phase'[x] \in {"has", "half"} => ConnOf'[x] # u
      BY <2>2, <2>3, <3>1, <3>2, <3>3, <3>5, <3>6, SMT
    <3>8. \A u \in Conn : rcv[u].obj # "none" => rcv'[u].obj # "none"
      BY <3>3, SMT
    <3> QED BY <1>0, <2>2, <2>3, <3>1, <3>2, <3>3, <3>7, <3>8, SMT DEF t
  <2>8. CASE Points(w)
    <3>1. /\ Phase[w] = "pointer" /\ Phase'[w] = "none" /\ UNCHANGED <<conns, rcv, fdTab, linkFd>>
          /\ linkThr' = [linkThr EXCEPT ![LinkOf[w]] = ConnOf[w]]
      BY <2>8, Zenon DEF Points
    <3> QED BY <1>0, <2>2, <2>3, <3>1, SMT
  <2>9. CASE Goes(w)
    <3>1. /\ UNCHANGED linkThr /\ LinksKept /\ ObjsKept /\ Phase'[w] = Phase[w]
          /\ Phase[w] # "none" => ConnOf'[w] = ConnOf[w]
      BY <2>9, SMT DEF Goes, Stays
    <3> QED BY <1>0, <2>2, <2>3, <3>1, SMT DEF LinksKept, ObjsKept
  <2> QED BY <2>1, <2>4, <2>5, <2>6, <2>7, <2>8, <2>9 DEF Moves
<1> QED BY <1>1, <1>2, <1>3

\* A hang-up goes on with its link until that is closed, and then with the next.
LEMMA HangUpGoes ==
  ASSUME TypeOK, Tracked, HangUpNext
  PROVE  \/ hang' = NextLink /\ linkFd[hang.link] = NoFd
         \/ hang'.link = hang.link /\ hang'.pc # "idle"
<1>0. hang \in HangType
  BY Zenon DEF TypeOK
<1>1. CASE DisconnectNull
  <2>1. hang.pc = "null" /\ hang' = NextLink
    BY <1>1, Zenon DEF DisconnectNull
  <2> QED BY <2>1, SMT DEF Tracked, HangUpTracked
<1>2. CASE DisconnectThread
  <2>1. hang.pc = "thread"
    BY <1>2, Zenon DEF DisconnectThread
  <2>2. hang' = NextLink \/ (hang'.link = hang.link /\ hang'.pc \in {"join", "delete"})
    BY <1>0, <1>2, Zenon DEF DisconnectThread, HangType
  <2> QED BY <2>1, <2>2, SMT DEF Tracked, HangUpTracked
<1>3. CASE DisconnectLoad
  <2>1. \/ hang' = NextLink /\ linkFd[hang.link] = NoFd
        \/ hang'.link = hang.link /\ hang'.pc = "close"
    BY <1>0, <1>3, Zenon DEF DisconnectLoad, HangType
  <2> QED BY <2>1
<1>4. CASE DisconnectClose \/ DisconnectZero \/ DisconnectJoin \/ DisconnectDelete
  <2>1. hang'.link = hang.link /\ hang'.pc \in {"zero", "thread", "delete", "null"}
    BY <1>0, <1>4, Zenon DEF DisconnectClose, DisconnectZero, DisconnectJoin, DisconnectDelete,
       HangType
  <2> QED BY <2>1
<1> QED BY <1>1, <1>2, <1>3, <1>4 DEF HangUpNext, Disconnect

\* The pseudo-terminal comes second.
LEMMA SockFirstInductive ==
  ASSUME TypeOK, ~Collision, Tracked, SockFirst, [Next]_vars
  PROVE  SockFirst'
<1> USE DEF SockFirst
<1>0. hang \in HangType /\ hang.link \in Link /\ "sock" \in Link /\ linkFd \in [Link -> Fd \cup {NoFd}]
  BY Zenon DEF TypeOK, HangType, Link
<1>1. CASE HangUpNext
  <2>1. HangsUp
    BY <1>1, HangUpMoves
  <2>2. linkFd'["sock"] \in {linkFd["sock"], NoFd}
    BY <1>0, <2>1, Zenon DEF HangsUp
  <2>3. \/ hang' = NextLink /\ linkFd[hang.link] = NoFd
        \/ hang'.link = hang.link /\ hang'.pc # "idle"
    BY <1>1, HangUpGoes
  <2>4. CASE hang' = NextLink /\ linkFd[hang.link] = NoFd
    <3>1. CASE hang.link = "sock"
      BY <1>0, <2>2, <2>4, <3>1, SMT DEF NextLink, HangType
    <3>2. CASE hang.link = "pty"
      BY <1>0, <2>4, <3>2, SMT DEF NextLink, HangType
    <3> QED BY <1>0, <3>1, <3>2 DEF Link
  <2>5. CASE hang'.link = hang.link /\ hang'.pc # "idle"
    BY <2>1, <2>2, <2>5, SMT DEF HangsUp
  <2> QED BY <2>3, <2>4, <2>5
<1>2. CASE ~HangUpNext
  <2>1. PICK w \in Party : HangStays /\ Moves(w)
    BY <1>2, StepMoves, SMT DEF Party
  <2>2. hang.pc # "idle" => UNCHANGED linkFd
    BY <2>1, SMT DEF Moves, Opens, Closes, Publishes, Spawns, Points, Goes
  <2> QED BY <2>1, <2>2, SMT DEF HangStays
<1> QED BY <1>1, <1>2

\* By the time a hang-up is done no thread is left: both were joined.
LEMMA NoneAfterHangUp ==
  ASSUME TypeOK, HangUpNext, Tracked, Tracked', SockFirst, hang'.pc = "idle"
  PROVE  /\ \A k \in Link : linkFd'[k] = NoFd
         /\ \A t \in Conn : rcv'[t].obj # "joinable"
<1>0. /\ hang \in HangType /\ hang.link \in Link /\ linkFd \in [Link -> Fd \cup {NoFd}]
      /\ \A t \in Conn : rcv[t].link \in Link
  <2>1. \A t \in Conn : rcv[t] \in RcvType
    BY Zenon DEF TypeOK
  <2> QED BY <2>1, Zenon DEF TypeOK, HangType, RcvType
<1>1. HangsUp
  BY HangUpMoves
<1>2. hang.link = "pty" /\ linkFd["pty"] = NoFd
  <2>1. hang' = NextLink /\ linkFd[hang.link] = NoFd
    BY HangUpGoes
  <2>2. hang.link # "sock"
    BY <1>0, <2>1, SMT DEF NextLink, HangType
  <2> QED BY <1>0, <2>1, <2>2, SMT DEF Link
<1>3. \A k \in Link : linkFd'[k] = NoFd
  <2>1. linkFd["sock"] = NoFd
    BY <1>1, <1>2, SMT DEF SockFirst, HangsUp
  <2>2. \A k \in Link : linkFd[k] = NoFd
    BY <1>2, <2>1, SMT DEF Link
  <2> QED BY <1>1, <2>2, SMT DEF HangsUp
<1>4. \A t \in Conn : rcv'[t].link \in Link
  BY <1>0, <1>1, SMT DEF HangsUp
<1> QED BY <1>3, <1>4, SMT DEF Tracked, ThreadsTracked

\* A thread's link is its own.
LEMMA OwnedInductive ==
  ASSUME TypeOK, InHand, Parted, ~Collision, Tracked, LinkFiles, ThreadsAlive, Owned, [Next]_vars
  PROVE  Owned'
<1>0. /\ fdTab \in [Fd -> Conn \cup {NoConn}] /\ linkFd \in [Link -> Fd \cup {NoFd}]
      /\ hang.link \in Link /\ NoConn \notin Conn /\ NoFd \notin Fd
      /\ \A t \in Conn : rcv[t].link \in Link
  <2>1. \A t \in Conn : rcv[t] \in RcvType
    BY Zenon DEF TypeOK
  <2>2. fdTab \in [Fd -> Conn \cup {NoConn}] /\ linkFd \in [Link -> Fd \cup {NoFd}] /\ hang.link \in Link
    BY Zenon DEF TypeOK, HangType
  <2>3. \A t \in Conn : rcv[t].link \in Link
    BY <2>1, Zenon DEF RcvType
  <2> QED BY <2>2, <2>3, Apartness
<1>1. CASE HangUpNext
  <2>1. HangsUp
    BY <1>1, HangUpMoves
  <2>2. SUFFICES ASSUME NEW t \in Conn, NEW k \in Link, k = rcv[t].link, rcv[t].obj = "joinable",
                        linkFd'[k] # NoFd, ~Clearing(k)'
                 PROVE  fdTab'[linkFd[k]] = t /\ linkFd'[k] = linkFd[k]
    BY <1>0, <2>1, SMT DEF HangsUp, Owned
  <2>3. linkFd'[k] = linkFd[k] /\ ~Clearing(k)
    BY <2>1, <2>2, SMT DEF HangsUp, Clearing
  <2>4. fdTab[linkFd[k]] = t
    BY <2>2, <2>3 DEF Owned
  <2>5. fdTab'[linkFd[k]] = fdTab[linkFd[k]]
    <3>1. CASE DisconnectClose
      <4>1. /\ hang.pc = "close" /\ fdTab' = [fdTab EXCEPT ![hang.fd] = NoConn]
            /\ hang' = [hang EXCEPT !.pc = "zero", !.fd = NoFd]
        BY <3>1, Zenon DEF DisconnectClose, CloseFd
      <4>2. hang'.pc = "zero" /\ hang'.link = hang.link
        BY <4>1, Zenon DEF TypeOK, HangType
      <4>3. k # hang.link /\ hang.fd \in Fd /\ hang.fd = linkFd[hang.link]
        BY <2>2, <4>1, <4>2, SMT DEF Clearing, InHand, Tracked, HangUpTracked
      <4>4. linkFd[k] \in Fd
        BY <1>0, <2>2, <2>3, SMT
      <4>5. conns[fdTab[linkFd[k]]].link = k /\ conns[fdTab[hang.fd]].link = hang.link
        BY <1>0, <4>1, <4>3, <4>4, SMT DEF LinkFiles, Clearing
      <4>6. linkFd[k] # hang.fd
        BY <4>3, <4>5
      <4> QED BY <1>0, <4>1, <4>4, <4>6, SMT
    <3>2. CASE ~DisconnectClose
      <4>1. UNCHANGED fdTab
        BY <1>1, <3>2, Zenon DEF HangUpNext, Disconnect, DisconnectLoad, DisconnectZero,
           DisconnectThread, DisconnectJoin, DisconnectDelete, DisconnectNull, linkVars
      <4> QED BY <4>1
    <3> QED BY <3>1, <3>2
  <2> QED BY <2>3, <2>4, <2>5
<1>2. ASSUME NEW t \in Conn, RecvNext(t)
      PROVE  Owned'
  <2>1. ThreadMoves(t)
    BY <1>2, RecvMoves
  <2> QED BY <1>0, <2>1, SMT DEF ThreadMoves, Apiece, ObjsKept, Owned, Clearing
<1>3. CASE ~HangUpNext /\ ~\E t \in Conn : RecvNext(t)
  <2>1. PICK w \in Party : HangStays /\ Moves(w) /\ Aside(w)
    BY <1>3, AsideMoves, Zenon
  <2>2. \A k \in Link : Clearing(k)' <=> Clearing(k)
    BY <2>1, SMT DEF Clearing, HangStays
  <2>3. LinkOf[w] \in Link
    BY DEF InHand
  <2>4. CASE Opens(w)
    <3>1. PICK f \in Fd, c \in Conn : Opening(w, f, c)
      BY <2>4, MoveFacts, Zenon
    <3>2. UNCHANGED <<rcv, linkFd>>
      BY <2>4, Zenon DEF Opens
    <3>3. fdTab[f] = NoConn /\ fdTab' = [fdTab EXCEPT ![f] = c]
      BY <3>1 DEF Opening
    <3>4. \A k \in Link : linkFd[k] # NoFd /\ ~Clearing(k) => linkFd[k] # f
      BY <1>0, <3>3, SMT DEF LinkFiles
    <3> QED BY <1>0, <2>2, <3>2, <3>3, <3>4, SMT DEF Owned
  <2>5. CASE Closes(w)
    <3>1. /\ Phase[w] = "has" /\ fdTab' = [fdTab EXCEPT ![FdOf[w]] = NoConn]
          /\ UNCHANGED <<rcv, linkFd>>
      BY <2>5, Zenon DEF Closes, CloseFd
    <3>2. \A k \in Link : ~Clearing(k) => linkFd[k] # FdOf[w]
      BY <3>1, Zenon DEF Parted
    <3> QED BY <1>0, <2>2, <3>1, <3>2, SMT DEF Owned
  <2>6. CASE Publishes(w)
    <3>1. /\ linkFd[LinkOf[w]] = NoFd /\ hang.pc = "idle" /\ UNCHANGED <<fdTab, rcv>>
          /\ linkFd' = [linkFd EXCEPT ![LinkOf[w]] = FdOf[w]]
      BY <2>6, Zenon DEF Publishes
    <3>2. \A t \in Conn : rcv[t].obj = "joinable" => rcv[t].link # LinkOf[w]
      BY <3>1, SMT DEF Tracked, ThreadsTracked
    <3> QED BY <1>0, <2>2, <2>3, <3>1, <3>2, SMT DEF Owned
  <2>7. CASE Spawns(w)
    <3>1. Phase[w] = "half" /\ UNCHANGED <<fdTab, linkFd>>
      BY <2>7, Zenon DEF Spawns
    <3>2. ConnOf[w] \in Conn /\ fdTab[linkFd[LinkOf[w]]] = ConnOf[w]
      BY <3>1, SMT DEF Tracked, HalfTracked, Published
    <3>3. rcv'[ConnOf[w]].link = LinkOf[w] /\ \A t \in Conn \ {ConnOf[w]} : rcv'[t] = rcv[t]
      BY <2>3, <2>7, <3>2, SpawnFacts, Zenon
    <3> QED BY <1>0, <2>2, <3>1, <3>2, <3>3, SMT DEF Owned
  <2>8. CASE Points(w) \/ Goes(w)
    <3>1. UNCHANGED <<fdTab, linkFd>> /\ \A t \in Conn : rcv'[t].obj = rcv[t].obj /\ rcv'[t].link = rcv[t].link
      BY <2>8, SMT DEF Points, Goes, ObjsKept
    <3> QED BY <1>0, <2>2, <3>1, SMT DEF Owned
  <2> QED BY <2>1, <2>4, <2>5, <2>6, <2>7, <2>8 DEF Moves
<1> QED BY <1>1, <1>2, <1>3

\* Where a thread that was not joined has its link after a step of the hang-up:
\* it was not touched, or it is down and the thread about to be joined.
LEMMA HangUpLeaves ==
  ASSUME TypeOK, HangUpNext, Tracked, Tracked', ThreadsAlive',
         NEW t \in Conn, rcv'[t].pc \notin {"none", "exit"}
  PROVE  \/ hang'.link = rcv[t].link /\ hang'.pc \in {"thread", "join"}
         \/ /\ linkFd'[rcv[t].link] = linkFd[rcv[t].link]
            /\ ~(hang.link = rcv[t].link /\ hang.pc \in {"zero", "thread", "join"})
<1>1. rcv[t].link \in Link
  <2>1. rcv[t] \in RcvType
    BY Zenon DEF TypeOK
  <2> QED BY <2>1, Zenon DEF RcvType
<1>2. HangsUp
  BY HangUpMoves
<1>3. rcv'[t].obj = "joinable" /\ rcv'[t].link = rcv[t].link
  BY <1>2 DEF ThreadsAlive, HangsUp
<1>4. \/ linkFd'[rcv[t].link] # NoFd
      \/ hang'.link = rcv[t].link /\ hang'.pc \in {"thread", "join"}
  BY <1>3, Zenon DEF Tracked, ThreadsTracked
<1>5. ASSUME linkFd'[rcv[t].link] # NoFd
      PROVE  /\ linkFd'[rcv[t].link] = linkFd[rcv[t].link]
             /\ ~(hang.link = rcv[t].link /\ hang.pc \in {"zero", "thread", "join"})
  <2>1. linkFd'[rcv[t].link] = linkFd[rcv[t].link]
    BY <1>1, <1>2, <1>5, SMT DEF HangsUp
  <2>2. hang.pc \in {"thread", "join"} => linkFd[hang.link] = NoFd
    BY SMT DEF Tracked, HangUpTracked
  <2>3. hang.pc = "zero" => linkFd'[hang.link] = NoFd
    BY <1>2 DEF HangsUp
  <2> QED BY <1>5, <2>1, <2>2, <2>3, SMT
<1> QED BY <1>4, <1>5

\* Its copy of the descriptor.
LEMMA CopiedInductive ==
  ASSUME TypeOK, InHand, ~Collision, Tracked, Tracked', ThreadsAlive, ThreadsAlive', Copied,
         [Next]_vars
  PROVE  Copied'
<1>0. /\ linkFd \in [Link -> Fd \cup {NoFd}] /\ \A t \in Conn : rcv[t].link \in Link
  <2>1. \A t \in Conn : rcv[t] \in RcvType
    BY Zenon DEF TypeOK
  <2> QED BY <2>1, Zenon DEF TypeOK, RcvType
<1>1. CASE HangUpNext
  <2>1. HangsUp
    BY <1>1, HangUpMoves
  <2>2. SUFFICES ASSUME NEW t \in Conn, rcv'[t].fd # NoFd
                 PROVE  \/ rcv[t].fd = linkFd'[rcv[t].link]
                        \/ hang'.link = rcv[t].link /\ hang'.pc \in {"thread", "join"}
    BY <2>1, SMT DEF HangsUp, Copied
  <2>3. rcv'[t].pc \notin {"none", "exit"} /\ rcv[t].fd # NoFd
    BY <2>1, <2>2, SMT DEF ThreadsAlive, HangsUp
  <2>4. \/ hang'.link = rcv[t].link /\ hang'.pc \in {"thread", "join"}
        \/ /\ linkFd'[rcv[t].link] = linkFd[rcv[t].link]
           /\ ~(hang.link = rcv[t].link /\ hang.pc \in {"zero", "thread", "join"})
    BY <1>1, <2>3, HangUpLeaves
  <2> QED BY <2>3, <2>4, SMT DEF Copied
<1>2. ASSUME NEW t \in Conn, RecvNext(t)
      PROVE  Copied'
  <2>1. ThreadMoves(t)
    BY <1>2, RecvMoves
  <2>2. rcv'[t].fd \in {rcv[t].fd, NoFd, linkFd[rcv[t].link]}
    BY <2>1, SMT DEF ThreadMoves, Copies, Ends, LooksUp, Rests, ReadsOne, Passes, Sends
  <2> QED BY <2>1, <2>2, SMT DEF ThreadMoves, Apiece, ObjsKept, Copied
<1>3. CASE ~HangUpNext /\ ~\E t \in Conn : RecvNext(t)
  <2>1. PICK w \in Party : HangStays /\ Moves(w) /\ Aside(w)
    BY <1>3, AsideMoves, Zenon
  <2>2. LinkOf[w] \in Link
    BY DEF InHand
  <2>3. CASE UNCHANGED <<rcv, linkFd>>
    BY <1>0, <2>1, <2>3, SMT DEF HangStays, Copied
  <2>4. CASE Publishes(w)
    <3>1. /\ linkFd[LinkOf[w]] = NoFd /\ hang.pc = "idle" /\ UNCHANGED rcv
          /\ linkFd' = [linkFd EXCEPT ![LinkOf[w]] = FdOf[w]]
      BY <2>4, Zenon DEF Publishes
    <3>2. \A t \in Conn : rcv[t].fd # NoFd => rcv[t].obj = "joinable"
      BY SMT DEF ThreadsAlive
    <3>3. \A t \in Conn : rcv[t].fd # NoFd => rcv[t].link # LinkOf[w]
      BY <3>1, <3>2, SMT DEF Tracked, ThreadsTracked
    <3> QED BY <1>0, <2>1, <2>2, <3>1, <3>3, SMT DEF HangStays, Copied
  <2>5. CASE Spawns(w)
    <3>1. Phase[w] = "half" /\ UNCHANGED linkFd
      BY <2>5, Zenon DEF Spawns
    <3>2. ConnOf[w] \in Conn
      BY <3>1, SMT DEF Tracked, HalfTracked, Published
    <3>3. rcv'[ConnOf[w]].fd = NoFd /\ \A t \in Conn \ {ConnOf[w]} : rcv'[t] = rcv[t]
      BY <2>2, <2>5, <3>2, SpawnFacts, Zenon
    <3> QED BY <1>0, <2>1, <3>1, <3>3, SMT DEF HangStays, Copied
  <2>6. UNCHANGED <<rcv, linkFd>> \/ Publishes(w) \/ Spawns(w)
    BY <2>1, Zenon DEF Moves, Aside, Opens, Closes, Points, Goes
  <2> QED BY <2>3, <2>4, <2>5, <2>6
<1> QED BY <1>1, <1>2, <1>3

\* The file it reads.
LEMMA OwnFileInductive ==
  ASSUME TypeOK, InHand, ~Collision, Tracked, Tracked', ThreadsAlive, ThreadsAlive', Owned,
         Copied, OwnFile, [Next]_vars
  PROVE  OwnFile'
<1>1. CASE HangUpNext
  <2>1. HangsUp
    BY <1>1, HangUpMoves
  <2>2. SUFFICES ASSUME NEW t \in Conn, rcv'[t].sel # NoConn
                 PROVE  \/ rcv[t].sel = t
                        \/ hang'.link = rcv[t].link /\ hang'.pc \in {"zero", "thread", "join"}
    BY <2>1, SMT DEF HangsUp, OwnFile
  <2>3. rcv'[t].pc \notin {"none", "exit"} /\ rcv[t].sel # NoConn
    BY <2>1, <2>2, SMT DEF ThreadsAlive, HangsUp
  <2>4. \/ hang'.link = rcv[t].link /\ hang'.pc \in {"thread", "join"}
        \/ /\ linkFd'[rcv[t].link] = linkFd[rcv[t].link]
           /\ ~(hang.link = rcv[t].link /\ hang.pc \in {"zero", "thread", "join"})
    BY <1>1, <2>3, HangUpLeaves
  <2> QED BY <2>3, <2>4, SMT DEF OwnFile
<1>2. ASSUME NEW t \in Conn, RecvNext(t)
      PROVE  OwnFile'
  <2>1. ThreadMoves(t)
    BY <1>2, RecvMoves
  <2>2. /\ hang' = hang /\ rcv'[t].link = rcv[t].link /\ rcv[t].obj = "joinable"
        /\ \A u \in Conn \ {t} : rcv'[u] = rcv[u]
    BY <2>1, SMT DEF ThreadMoves, Apiece, ObjsKept, ThreadsAlive
  <2>3. SUFFICES ASSUME rcv'[t].sel # NoConn
                 PROVE  \/ rcv'[t].sel = t
                        \/ hang.link = rcv[t].link /\ hang.pc \in {"zero", "thread", "join"}
    BY <2>2, SMT DEF OwnFile
  <2>4. CASE rcv'[t].sel = rcv[t].sel
    BY <2>3, <2>4, SMT DEF OwnFile
  <2>5. CASE LooksUp(t)
    <3>1. rcv[t].fd # NoFd /\ rcv'[t].sel = fdTab[rcv[t].fd]
      BY <2>3, <2>5, Zenon DEF LooksUp, FileOf
    <3>2. CASE rcv[t].fd = linkFd[rcv[t].link]
      BY <2>2, <3>1, <3>2, SMT DEF Owned, Clearing
    <3>3. CASE hang.link = rcv[t].link /\ hang.pc \in {"thread", "join"}
      BY <3>3, SMT
    <3> QED BY <3>1, <3>2, <3>3 DEF Copied
  <2> QED BY <2>1, <2>3, <2>4, <2>5, SMT DEF ThreadMoves, Copies, Ends, Rests, ReadsOne, Passes, Sends
<1>3. CASE ~HangUpNext /\ ~\E t \in Conn : RecvNext(t)
  <2>1. PICK w \in Party : HangStays /\ Moves(w) /\ Aside(w)
    BY <1>3, AsideMoves, Zenon
  <2>2. CASE UNCHANGED rcv
    BY <2>1, <2>2, SMT DEF HangStays, OwnFile
  <2>3. CASE Spawns(w)
    <3>1. Phase[w] = "half"
      BY <2>3, Zenon DEF Spawns
    <3>2. ConnOf[w] \in Conn /\ LinkOf[w] \in Link
      BY <3>1, SMT DEF Tracked, HalfTracked, Published, InHand
    <3>3. rcv'[ConnOf[w]].sel = NoConn /\ \A t \in Conn \ {ConnOf[w]} : rcv'[t] = rcv[t]
      BY <2>3, <3>2, SpawnFacts, Zenon
    <3> QED BY <2>1, <3>3, SMT DEF HangStays, OwnFile
  <2> QED BY <2>1, <2>2, <2>3 DEF Aside
<1> QED BY <1>1, <1>2, <1>3

\* The carrier falls only where a hang-up begins.
LEMMA CarrierFalls ==
  ASSUME TypeOK, [Next]_vars, connected
  PROVE  connected' \/ (hang'.pc = "check" /\ hang.pc = "idle")
<1> USE DEF ctxVars
<1>0. hang \in HangType
  BY Zenon DEF TypeOK
<1>1. CASE OnHook
  BY <1>0, <1>1, Zenon DEF OnHook, HangType
<1>2. CASE BulkOut
  BY <1>2, Zenon DEF BulkOut, OfflineDone, TakeLine, AtEcho, AtExt,
     AtPlain, AtAnswer, AtPpp, AtNoSock, AtDial, AtReply, AtRaise, OnlineDone, Route,
     ClearBuffer, SockConnect, SockSocket, SockConnected, SockRefused, PtyConnect,
     PtyOpened, PtyFailed, setupISP, ConnectTail, ConnectPublish, ConnectSpawn,
     ConnectPointer, SendWrite
<1>3. CASE ListenTail \/ ListenAccept
  BY <1>3, Zenon DEF ListenTail, ListenAccept, ListenCheck, ListenRefuse, ListenPublish,
     ListenRing, ListenSpawn, ListenPointer
<1>4. ASSUME NEW t \in Conn, RecvNext(t) PROVE connected'
  BY <1>4, RecvMoves, Zenon DEF ThreadMoves, Apiece
<1>5. CASE HangUpNext
  BY <1>5, HangUpMoves, Zenon DEF HangsUp
<1>6. CASE (\E c \in Conn : FarEndNext(c)) \/ (HostNext /\ ~OnHook) \/ AcceptFails \/ UNCHANGED vars
  BY <1>6, Zenon DEF FarEndNext, FarEndStep, PeerSend, PeerClose, SlaveOpen, HostNext,
     HostStep, HostPacket, AcceptFails, ListenFails, linkVars, ctxVars, vars
<1> QED BY <1>1, <1>2, <1>3, <1>4, <1>5, <1>6, Zenon DEF Next, BulkOutNext, ListenNext, CallerNext,
        WaitForOutside

\* Who was not in the middle of a set-up has its connection left alone.
LEMMA ReadsStay ==
  ASSUME TypeOK, InHand, Started, NEW w \in Party, Moves(w), Aside(w),
         NEW t \in Conn, rcv[t].obj # "none"
  PROVE  conns'[t].read = conns[t].read
<1>0. conns \in [Conn -> ConnType] /\ "none" \notin Link /\ \A u \in Conn : rcv[u].link \in Link
  <2>1. \A u \in Conn : rcv[u] \in RcvType
    BY Zenon DEF TypeOK
  <2>2. conns \in [Conn -> ConnType] /\ "none" \notin Link
    BY SMT DEF TypeOK, Link
  <2> QED BY <2>1, <2>2, Zenon DEF RcvType
<1>1. conns[t].link # "none"
  BY <1>0, SMT DEF Started
<1>2. CASE Opens(w)
  <2>1. PICK f \in Fd, c \in Conn, p \in {"connecting", "unopened", "open"} :
          OpenFd(f, c, LinkOf'[w], p)
    BY <1>2, Zenon DEF Opens
  <2>2. /\ conns[c].link = "none"
        /\ conns' = [conns EXCEPT ![c] = [UnusedConn EXCEPT !.link = LinkOf'[w], !.peer = p]]
    BY <2>1, Zenon DEF OpenFd, FreshConn
  <2> QED BY <1>0, <1>1, <2>2, SMT
<1>3. CASE Closes(w)
  <2>1. /\ Phase[w] = "has"
        /\ \E p : conns' = [conns EXCEPT ![ConnOf[w]] = Forgotten(ConnOf[w], p)]
    BY <1>3, Zenon DEF Closes
  <2>2. ConnOf[w] # t
    BY <2>1, SMT DEF Started
  <2> QED BY <1>0, <2>1, <2>2, SMT
<1>4. CASE Publishes(w) \/ Spawns(w) \/ Points(w) \/ Goes(w)
  BY <1>4, Zenon DEF Aside, Publishes, Spawns, Points
<1> QED BY <1>2, <1>3, <1>4 DEF Moves

\* What is in hand.
LEMMA CountedInductive ==
  ASSUME TypeOK, InHand, ~Collision, Tracked, Tracked', ThreadsAlive, ThreadsAlive', Started,
         OwnFile, Counted, SockFirst, connected => hang.pc = "idle", [Next]_vars
  PROVE  Counted'
<1>1. CASE HangUpNext
  <2>1. HangsUp
    BY <1>1, HangUpMoves
  <2>2. hang'.pc = "idle" => \A t \in Conn : rcv'[t].pc \in {"none", "exit"}
    BY <1>1, NoneAfterHangUp, SMT DEF ThreadsAlive
  <2>3. \A t \in Conn : rcv'[t].pc = rcv[t].pc /\ rcv'[t].sel = rcv[t].sel
    BY <2>1 DEF HangsUp
  <2> QED BY <2>2, <2>3, SMT DEF Counted
<1>2. ASSUME NEW t \in Conn, RecvNext(t)
      PROVE  Counted'
  <2>1. ThreadMoves(t)
    BY <1>2, RecvMoves
  <2>2. UNCHANGED <<connected, hang>> /\ \A u \in Conn \ {t} : rcv'[u] = rcv[u]
    BY <2>1 DEF ThreadMoves, Apiece
  <2>3. CASE ReadsOne(t)
    <3>1. /\ rcv[t].pc = "recv" /\ rcv'[t].pc = "callback" /\ rcv'[t].n = conns[rcv[t].sel].read + 1
          /\ rcv[t].sel \in Conn => conns'[rcv[t].sel].read = conns[rcv[t].sel].read + 1
          /\ \A d \in Conn \ {rcv[t].sel} : conns'[d] = conns[d]
      BY <2>3, Zenon DEF ReadsOne
    <3>2. rcv[t].sel \in Conn /\ rcv[t].sel # NoConn
      BY <3>1, Apartness, SMT DEF ThreadsAlive
    <3>3. hang.pc = "idle" => rcv[t].sel = t
      BY <3>2, SMT DEF OwnFile
    <3>4. hang.pc = "idle" => \A u \in Conn : rcv'[u].pc \in {"callback", "enqueue"} =>
            rcv'[u].n = conns'[u].read
      BY <2>2, <3>1, <3>2, <3>3, SMT DEF Counted
    <3>5. \A u \in Conn : rcv'[u].pc = "enqueue" =>
            rcv'[u].sel = u /\ (connected' \/ hang'.pc # "idle")
      BY <2>2, <3>1, SMT DEF Counted
    <3> QED BY <2>2, <3>4, <3>5 DEF Counted
  <2>4. CASE Passes(t)
    <3>1. /\ rcv[t].pc = "callback" /\ rcv'[t].pc = "enqueue" /\ connected
          /\ rcv'[t].sel = rcv[t].sel /\ rcv'[t].n = rcv[t].n /\ UNCHANGED conns
      BY <2>4, Zenon DEF Passes
    <3>2. rcv[t].sel \in Conn /\ rcv[t].sel # NoConn
      BY <3>1, Apartness, SMT DEF ThreadsAlive
    <3>3. rcv[t].sel = t
      BY <3>1, <3>2, SMT DEF OwnFile
    <3> QED BY <2>2, <3>1, <3>3, SMT DEF Counted
  <2>5. CASE Copies(t) \/ Ends(t) \/ LooksUp(t) \/ Rests(t) \/ Sends(t)
    <3>1. rcv'[t].pc \notin {"callback", "enqueue"} /\ UNCHANGED conns
      BY <2>5, SMT DEF Copies, Ends, LooksUp, Rests, Sends
    <3> QED BY <2>2, <3>1, SMT DEF Counted
  <2> QED BY <2>1, <2>3, <2>4, <2>5 DEF ThreadMoves
<1>3. CASE ~HangUpNext /\ ~\E t \in Conn : RecvNext(t)
  <2>1. PICK w \in Party : HangStays /\ Moves(w) /\ Aside(w)
    BY <1>3, AsideMoves, Zenon
  <2>2. \A t \in Conn : rcv'[t].pc \in {"callback", "enqueue"} =>
          rcv'[t].pc = rcv[t].pc /\ rcv'[t].sel = rcv[t].sel /\ rcv'[t].n = rcv[t].n
    <3>1. CASE Spawns(w)
      <4>1. Phase[w] = "half"
        BY <3>1, Zenon DEF Spawns
      <4>2. ConnOf[w] \in Conn /\ LinkOf[w] \in Link
        BY <4>1, SMT DEF Tracked, HalfTracked, Published, InHand
      <4>3. rcv'[ConnOf[w]].pc = "start" /\ \A t \in Conn \ {ConnOf[w]} : rcv'[t] = rcv[t]
        BY <3>1, <4>2, SpawnFacts, Zenon
      <4> QED BY <4>3, SMT
    <3> QED BY <2>1, <3>1 DEF Aside
  <2>3. \A t \in Conn : rcv[t].pc \in {"callback", "enqueue"} => conns'[t].read = conns[t].read
    <3>1. \A t \in Conn : rcv[t].pc \in {"callback", "enqueue"} => rcv[t].obj # "none"
      BY SMT DEF ThreadsAlive
    <3> QED BY <2>1, <3>1, ReadsStay
  <2>4. connected => connected' \/ hang'.pc # "idle"
    BY CarrierFalls, SMT
  <2> QED BY <2>1, <2>2, <2>3, <2>4, SMT DEF HangStays, Counted
<1> QED BY <1>1, <1>2, <1>3

\* The threads, in every state until there is a collision.
LEMMA StaysThreads == Spec => [](~collided => Threads)
<1>1. Init => Threads
  <2> SUFFICES ASSUME Init PROVE Threads
    OBVIOUS
  <2>1. /\ out.pc = "read" /\ lsn.pc \in {"off", "accept"} /\ hang.pc = "idle" /\ hang.link = "sock"
        /\ rcv = [c \in Conn |-> NoThread] /\ linkThr = [k \in Link |-> NoConn]
    BY Zenon DEF Init, LinkInit, SockInit
  <2>2. /\ \A w \in Party : Phase[w] = "none"
        /\ \A t \in Conn : rcv[t].pc = "none" /\ rcv[t].obj = "none" /\ rcv[t].fd = NoFd
                           /\ rcv[t].sel = NoConn
    BY <2>1, SMT DEF Phase, Party, OutHas, LsnHas, NoThread
  <2> QED BY <2>1, <2>2, Apartness, SMT DEF Threads, ThreadsAlive, Started, Owned, Copied, OwnFile,
          Counted, SockFirst
<1>2. /\ TypeOK /\ InHand /\ InHand' /\ Parted /\ Undisturbed
      /\ (~collided => Tracked) /\ (~collided' => Tracked') /\ (~collided => Carried)
      /\ (~collided => Threads) /\ [Next]_vars
      => (~collided' => Threads')
  <2> SUFFICES ASSUME TypeOK, InHand, InHand', Parted, Undisturbed,
                      ~collided => Tracked, Tracked', ~collided => Carried,
                      ~collided => Threads, [Next]_vars, ~collided'
               PROVE  Threads'
    OBVIOUS
  <2>1. Ghost \/ UNCHANGED collided
    BY Zenon DEF vars, Next, HangUpNext, BulkOutNext, ListenNext, RecvNext, HostNext,
       CallerNext, AcceptFails, FarEndNext, WaitForOutside
  <2>2. ~collided
    BY <2>1, Zenon DEF Ghost, TypeOK
  <2>3. /\ Tracked /\ ~Collision /\ LinkFiles /\ (connected => hang.pc = "idle")
        /\ ThreadsAlive /\ Started /\ Owned /\ Copied /\ OwnFile /\ Counted /\ SockFirst
        /\ hang.pc = "join" => linkThr[hang.link] = hang.thr
    BY <2>2 DEF Undisturbed, Carried, Rising, Threads
  <2>4. ThreadsAlive' /\ Started' /\ SockFirst'
    BY <2>3, AliveInductive, StartedInductive, SockFirstInductive
  <2>5. Owned' /\ Copied' /\ OwnFile'
    BY <2>3, <2>4, OwnedInductive, CopiedInductive, OwnFileInductive
  <2>6. Counted'
    BY <2>3, <2>4, CountedInductive
  <2> QED BY <2>4, <2>5, <2>6 DEF Threads
<1>3. Spec => [](TypeOK /\ InHand /\ Parted /\ Undisturbed)
  <2>1. TypeOK /\ OneOwner /\ Named => InHand /\ Parted
    BY OwnersInHand, OwnersParted
  <2> QED BY <2>1, TypeCorrect, OwnersKept, StaysUndisturbed, PTL
<1> QED BY <1>1, <1>2, <1>3, StaysTracked, StaysCarried, PTL DEF Spec

-----------------------------------------------------------------------------
(* One link at a time.                                                     *)

\* The commands of a server that makes no PPP calls.
LEMMA BulkOutKeepsNoPty ==
  ASSUME TypeOK, IsServer, ServerHasNoPty, BulkOut
  PROVE  ServerHasNoPty'
<1> USE DEF ctxVars, linkVars, sessionVars
<1>0. /\ out \in OutType /\ buffer \in Seq(Token) /\ linkFd \in [Link -> Fd \cup {NoFd}]
      /\ (\A i \in DOMAIN buffer : buffer[i] \notin PppLines) /\ out.line \notin PppLines
      /\ out.pc \notin {"pty", "isp"} /\ linkFd["pty"] = NoFd
      /\ out.pc \in {"connect", "publish", "spawn", "pointer"} => out.link = "sock"
  BY DEF TypeOK, ServerHasNoPty
\* What every step but one leaves alone.
<1>1. ASSUME UNCHANGED linkFd, \A i \in DOMAIN buffer' : buffer'[i] \notin PppLines,
             out'.line \notin PppLines, out'.pc \notin {"pty", "isp"},
             out'.pc \in {"connect", "publish", "spawn", "pointer"} => out'.link = "sock"
      PROVE  ServerHasNoPty'
  BY <1>0, <1>1, Zenon DEF ServerHasNoPty
<1>2. CASE \/ OfflineDone \/ AtEcho \/ AtExt \/ AtPlain \/ AtAnswer \/ AtNoSock \/ AtDial
           \/ AtReply \/ AtRaise \/ OnlineDone \/ Route
  <2>1. UNCHANGED <<linkFd, buffer>>
    BY <1>2, Zenon DEF OfflineDone, AtEcho, AtExt, AtPlain, AtAnswer, AtNoSock, AtDial, AtReply,
       AtRaise, OnlineDone, Route
  <2>2. /\ out'.pc \in {"online", "cmd", "offline", "reply", "read", "socket", "raise", "send", "sent"}
        /\ out'.line \in {out.line, "none"}
    <3>1. CASE AtDial \/ AtReply \/ Route
      BY <1>0, <3>1, Zenon DEF AtDial, AtReply, Route, SendLoad, Cmd, OutType
    <3>2. CASE \/ OfflineDone \/ AtEcho \/ AtExt \/ AtPlain \/ AtAnswer \/ AtNoSock \/ AtRaise
               \/ OnlineDone
      BY <1>0, <3>2, Zenon DEF OfflineDone, AtEcho, AtExt, AtPlain, AtAnswer, AtNoSock, AtRaise,
         OnlineDone, OutType
    <3> QED BY <1>2, <3>1, <3>2
  <2>3. /\ out'.line \notin PppLines /\ out'.pc \notin {"pty", "isp"}
        /\ out'.pc \notin {"connect", "publish", "spawn", "pointer"}
    BY <1>0, <2>2, SMT DEF PppLines
  <2>4. \A i \in DOMAIN buffer' : buffer'[i] \notin PppLines
    BY <1>0, <2>1
  <2> QED BY <1>1, <2>1, <2>3, <2>4
<1>3. CASE (SockConnect \/ SendWrite \/ ConnectTail) /\ UNCHANGED sessionVars
  <2>1. \A i \in DOMAIN buffer' : buffer'[i] \notin PppLines
    BY <1>0, <1>3
  <2>2. CASE SockConnect \/ SendWrite
    <3>1. /\ UNCHANGED linkFd /\ out'.pc \in {"connect", "publish", "reply", "sent"}
          /\ out'.line = out.line
          /\ out'.pc \in {"connect", "publish"} => out'.link = "sock"
      BY <1>0, <2>2, Zenon DEF SockConnect, SockSocket, SockConnected, SockRefused, SendWrite, OutType
    <3> QED BY <1>0, <1>1, <2>1, <3>1, SMT
  <2>3. CASE ConnectPublish
    <3>1. /\ out.link = "sock" /\ linkFd' = [linkFd EXCEPT !["sock"] = out.fd]
          /\ out'.pc = "spawn" /\ out'.line = out.line /\ out'.link = out.link
      BY <1>0, <2>3, Zenon DEF ConnectPublish, OutType
    <3>2. linkFd'["pty"] = NoFd
      BY <1>0, <3>1, SMT DEF Link
    <3> QED BY <1>0, <2>1, <3>1, <3>2, SMT DEF ServerHasNoPty
  <2>4. CASE ConnectSpawn \/ ConnectPointer
    <3>1. /\ out.link = "sock" /\ UNCHANGED linkFd /\ out'.line = out.line /\ out'.link = out.link
          /\ out'.pc \in {"pointer", "reply"}
      BY <1>0, <2>4, Zenon DEF ConnectSpawn, ConnectPointer, OutType
    <3> QED BY <1>0, <1>1, <2>1, <3>1, SMT
  <2> QED BY <1>3, <2>2, <2>3, <2>4 DEF ConnectTail
<1>4. CASE AtPpp \/ PtyConnect \/ setupISP
  BY <1>0, <1>4, Zenon DEF AtPpp, PtyConnect, PtyOpened, PtyFailed, setupISP
\* The line that is taken was in the buffer, and what is left of that is.
<1>5. CASE TakeLine
  <2>1. PICK i \in LineEnds(buffer) :
          /\ LET line == IF i = 1 THEN buffer[1] ELSE "garbled"
             IN  out' = IF line = "CR" THEN out
                        ELSE [out EXCEPT !.line = line, !.pc = IF echo THEN "echo" ELSE "cmd"]
          /\ buffer' = SubSeq(buffer, i + 1, Len(buffer))
          /\ UNCHANGED linkFd /\ out.pc = "offline"
    BY <1>5, Zenon DEF TakeLine
  <2>2. i \in 1..Len(buffer) /\ (i = 1 => buffer[1] \notin PppLines)
    BY <1>0, <2>1, SMT DEF LineEnds
  <2>3. \/ out' = out
        \/ out'.line = "garbled" /\ out'.pc \in {"echo", "cmd"}
        \/ out'.line = buffer[1] /\ i = 1 /\ out'.pc \in {"echo", "cmd"}
    BY <1>0, <2>1, Zenon DEF OutType
  <2>4. /\ out'.line \notin PppLines
        /\ out'.pc \notin {"pty", "isp", "connect", "publish", "spawn", "pointer"}
    BY <1>0, <2>1, <2>2, <2>3, SMT DEF PppLines
  <2>5. \A j \in DOMAIN buffer' : buffer'[j] \notin PppLines
    <3>1. Len(buffer) \in Nat /\ DOMAIN buffer = 1..Len(buffer) /\ i \in Nat \ {0} /\ i <= Len(buffer)
      BY <1>0, <2>2, SMT
    <3>2. CASE i = Len(buffer)
      <4>1. DOMAIN buffer' = {}
        BY <1>0, <2>1, <3>1, <3>2, SMT
      <4> QED BY <4>1
    <3>3. CASE i < Len(buffer)
      <4>1. /\ DOMAIN buffer' = 1 .. Len(buffer) - i
            /\ \A j \in 1 .. Len(buffer) - i : buffer'[j] = buffer[j + i]
        BY <1>0, <2>1, <3>1, <3>3, SMT
      <4>2. \A j \in 1 .. Len(buffer) - i : j + i \in DOMAIN buffer
        BY <3>1, <3>3, SMT
      <4> QED BY <1>0, <4>1, <4>2, Zenon
    <3>4. i = Len(buffer) \/ i < Len(buffer)
      BY <1>0, <2>2, SMT
    <3> QED BY <3>2, <3>3, <3>4, Zenon
  <2> QED BY <1>1, <2>1, <2>4, <2>5, Zenon
<1>6. CASE ClearBuffer
  <2>1. buffer' = <<>> /\ UNCHANGED linkFd /\ out'.pc = "online" /\ out'.line = out.line
    BY <1>0, <1>6, Zenon DEF ClearBuffer, OutType
  <2>2. DOMAIN buffer' = {}
    BY <2>1, SMT
  <2> QED BY <1>0, <1>1, <2>1, <2>2, SMT
<1> QED BY <1>2, <1>3, <1>4, <1>5, <1>6, Zenon DEF BulkOut

\* And the rest of it.
LEMMA NoPtyInductive ==
  ASSUME TypeOK, OnePartyAtATime, ServerHasNoPty, [Next]_vars
  PROVE  ServerHasNoPty'
<1> SUFFICES ASSUME IsServer PROVE ServerHasNoPty'
  BY DEF ServerHasNoPty
<1>0. /\ out \in OutType /\ buffer \in Seq(Token) /\ linkFd \in [Link -> Fd \cup {NoFd}]
      /\ (\A i \in DOMAIN buffer : buffer[i] \notin PppLines) /\ out.line \notin PppLines
      /\ out.pc \notin {"pty", "isp"} /\ linkFd["pty"] = NoFd
      /\ out.pc \in {"connect", "publish", "spawn", "pointer"} => out.link = "sock"
      /\ "pty" \in Link
  BY DEF TypeOK, ServerHasNoPty, Link
<1>1. ASSUME UNCHANGED <<buffer, out>>, linkFd'["pty"] = NoFd
      PROVE  ServerHasNoPty'
  BY <1>0, <1>1, Zenon DEF ServerHasNoPty
<1>2. CASE BulkOutNext
  BY <1>2, BulkOutKeepsNoPty DEF BulkOutNext
<1>3. CASE HangUpNext
  BY <1>0, <1>1, <1>3, HangUpMoves, Zenon DEF HangsUp
<1>4. ASSUME NEW t \in Conn, RecvNext(t) PROVE ServerHasNoPty'
  BY <1>0, <1>1, <1>4, RecvMoves, Zenon DEF ThreadMoves, Apiece
<1>5. CASE ListenNext \/ CallerNext
  <2>1. UNCHANGED <<buffer, out>> /\ (ListenTail \/ ListenAccept)
    BY <1>5, Zenon DEF ListenNext, CallerNext, ListenTail, ListenAccept, ListenCheck, ListenRefuse,
       ListenPublish, ListenRing, ListenSpawn, ListenPointer, sessionVars
  <2>2. UNCHANGED linkFd \/ linkFd' = [linkFd EXCEPT !["sock"] = lsn.fd]
    BY <2>1, Zenon DEF ListenTail, ListenAccept, ListenCheck, ListenRefuse,
       ListenPublish, ListenRing, ListenSpawn, ListenPointer, linkVars
  <2>3. linkFd'["pty"] = NoFd
    BY <1>0, <2>2, SMT DEF Link
  <2> QED BY <1>1, <2>1, <2>3
<1>6. ASSUME NEW p \in Packets, HostPacket(p) PROVE ServerHasNoPty'
  <2>1. /\ buffer' = buffer \o p /\ out' = [out EXCEPT !.pc = "offline"] /\ UNCHANGED linkFd
    BY <1>6, Zenon DEF HostPacket, linkVars
  <2>2. out'.pc = "offline" /\ out'.line = out.line
    BY <1>0, <2>1, Zenon DEF OutType
  <2>3. \A i \in DOMAIN p : p[i] \notin PppLines
    BY DEF OnePartyAtATime
  <2>4. p \in Seq(Token)
    BY SessionAssumption
  <2>5. \A i \in DOMAIN (buffer \o p) : \/ i \in DOMAIN buffer /\ (buffer \o p)[i] = buffer[i]
                                        \/ \E j \in DOMAIN p : (buffer \o p)[i] = p[j]
    <3>1. ASSUME NEW i \in DOMAIN (buffer \o p), i > Len(buffer)
          PROVE  i - Len(buffer) \in DOMAIN p /\ (buffer \o p)[i] = p[i - Len(buffer)]
      BY <1>0, <2>4, <3>1, SMT
    <3>2. ASSUME NEW i \in DOMAIN (buffer \o p), ~(i > Len(buffer))
          PROVE  i \in DOMAIN buffer /\ (buffer \o p)[i] = buffer[i]
      BY <1>0, <2>4, <3>2, SMT
    <3> QED BY <3>1, <3>2
  <2>6. \A i \in DOMAIN buffer' : buffer'[i] \notin PppLines
    BY <1>0, <2>1, <2>3, <2>5, Zenon
  <2> QED BY <1>0, <2>1, <2>2, <2>6, SMT DEF ServerHasNoPty
<1>7. CASE OnHook \/ (\E c \in Conn : FarEndNext(c)) \/ AcceptFails \/ UNCHANGED vars
  BY <1>0, <1>1, <1>7, Zenon DEF OnHook, FarEndNext, FarEndStep, PeerSend, PeerClose, SlaveOpen,
     AcceptFails, ListenFails, vars, linkVars, sessionVars
<1> QED BY <1>2, <1>3, <1>4, <1>5, <1>6, <1>7, Zenon DEF Next, HostNext, HostStep, WaitForOutside

\* It goes on to do so, until a hang-up begins.
LEMMA UpStays ==
  ASSUME TypeOK, ReplyKnown, [Next]_vars, Up, hang'.pc = "idle"
  PROVE  Up'
<1>0. out \in OutType
  BY Zenon DEF TypeOK
<1>1. CASE connected
  BY <1>1, CarrierFalls, SMT DEF Up, Rising
<1>2. CASE ~connected
  <2>1. out.pc \in {"raise", "isp", "reply", "spawn", "pointer"} /\ (out.pc = "reply" => out.reply = "CONNECT")
    BY <1>2, SMT DEF Up, Rising, Telling, Phase, Published, Party, OutHas
  <2>2. CASE UNCHANGED out
    <3>1. Phase'["dial"] = Phase["dial"]
      BY <2>2, PartyStays DEF Stays
    <3> QED BY <1>2, <2>2, <3>1 DEF Up, Rising, Telling
  <2>3. CASE out' # out
    <3>1. BulkOut
      <4>1. CASE \E p \in Packets : HostPacket(p)
        BY <2>1, <4>1, SMT DEF HostPacket
      <4> QED BY <2>3, <4>1, OutOwner DEF BulkOutNext
    <3>2. AtRaise \/ setupISP \/ AtReply \/ ConnectSpawn \/ ConnectPointer
      <4>1. ASSUME \/ OfflineDone \/ TakeLine \/ AtEcho \/ AtExt \/ AtPlain \/ AtAnswer \/ AtPpp
                   \/ AtNoSock \/ AtDial \/ OnlineDone \/ Route \/ ClearBuffer \/ SockConnect
                   \/ PtyConnect \/ ConnectPublish \/ SendWrite
            PROVE  out.pc \in {"offline", "echo", "cmd", "online", "sent", "socket", "connect", "pty",
                              "publish", "send"}
        BY <4>1, Zenon DEF OfflineDone, TakeLine, AtEcho, AtExt, AtPlain, AtAnswer, AtPpp, AtNoSock,
           AtDial, Cmd, OnlineDone, Route, ClearBuffer, SockConnect, SockSocket, SockConnected,
           SockRefused, PtyConnect, PtyOpened, PtyFailed, ConnectPublish, SendWrite
      <4>2. out.pc \notin {"offline", "echo", "cmd", "online", "sent", "socket", "connect", "pty",
                          "publish", "send"}
        BY <2>1, SMT
      <4> QED BY <3>1, <4>1, <4>2, Zenon DEF BulkOut, ConnectTail
    <3>3. CASE AtRaise
      BY <3>3 DEF AtRaise, Up, Rising
    <3>4. CASE setupISP
      <4>1. out'.pc = "reply" /\ out'.reply = out.reply /\ out.pc = "isp"
        BY <1>0, <3>4, Zenon DEF setupISP, OutType
      <4> QED BY <4>1 DEF ReplyKnown, Telling, Up
    <3>5. CASE AtReply
      <4>1. out'.pc = IF out.reply = "CONNECT" THEN "raise" ELSE "offline"
        BY <1>0, <3>5, Zenon DEF AtReply, OutType
      <4>2. out.pc = "reply"
        BY <3>5, Zenon DEF AtReply
      <4> QED BY <2>1, <4>1, <4>2 DEF Up, Rising
    <3>6. CASE ConnectSpawn
      <4>1. out'.pc = "pointer"
        BY <1>0, <3>6, Zenon DEF ConnectSpawn, OutType
      <4>2. Phase'["dial"] \in Published
        BY <4>1, SMT DEF Phase, Party, OutHas, Published
      <4> QED BY <4>2 DEF Up
    <3>7. CASE ConnectPointer
      <4>1. out'.pc = (IF out.link = "pty" THEN "isp" ELSE "reply") /\ out'.reply = "CONNECT"
        BY <1>0, <3>7, Zenon DEF ConnectPointer, OutType
      <4> QED BY <4>1, SMT DEF Telling, Up
    <3> QED BY <3>2, <3>3, <3>4, <3>5, <3>6, <3>7
  <2> QED BY <2>2, <2>3
<1> QED BY <1>1, <1>2

\* A player that dials has no listen thread ...
LEMMA NobodyListens ==
  ASSUME lsn.pc = "off", [Next]_vars
  PROVE  UNCHANGED lsn
<1>1. ~ListenTail /\ ~ListenAccept /\ ~ListenFails
  BY SMT DEF ListenTail, ListenAccept, ListenFails, ListenCheck, ListenRefuse, ListenPublish, ListenRing,
     ListenSpawn, ListenPointer
<1>2. CASE BulkOut
  BY <1>2, Zenon DEF BulkOut, OfflineDone, TakeLine, AtEcho, AtExt,
     AtPlain, AtAnswer, AtPpp, AtNoSock, AtDial, AtReply, AtRaise, OnlineDone, Route,
     ClearBuffer, SockConnect, SockSocket, SockConnected, SockRefused
<1>3. CASE HostStep
  BY <1>3, Zenon DEF HostStep, OnHook, HostPacket
<1> QED BY <1>1, <1>2, <1>3, Zenon DEF Next, HangUpNext, BulkOutNext, ListenNext, RecvNext,
        HostNext, CallerNext, AcceptFails, FarEndNext, WaitForOutside, vars

\* ... and sets up a link only where there is none.
LEMMA DialsFirstInductive ==
  ASSUME TypeOK, ReplyKnown, CarrierInv, ~Collision, Tracked, Tracked', SockFirst,
         ClientDialsFirst, [Next]_vars
  PROVE  ClientDialsFirst'
<1> SUFFICES ASSUME ~IsServer PROVE ClientDialsFirst'
  BY DEF ClientDialsFirst
<1>1. lsn.pc = "off" /\ lsn'.pc = "off"
  BY NobodyListens DEF ClientDialsFirst
<1> SUFFICES ASSUME hang'.pc = "idle"
             PROVE  /\ \A k \in Link : linkFd'[k] # NoFd => Up'
                    /\ \E k \in Link : \A j \in Link \ {k} : linkFd'[j] = NoFd
  BY <1>1 DEF ClientDialsFirst
<1>2. "sock" \in Link /\ linkFd \in [Link -> Fd \cup {NoFd}]
  BY DEF TypeOK, Link
<1>3. CASE HangUpNext
  BY <1>2, <1>3, NoneAfterHangUp, Zenon
<1>4. CASE ~HangUpNext
  <2>1. PICK w \in Party : HangStays /\ Moves(w)
    BY <1>4, StepMoves, SMT DEF Party
  <2>2. hang.pc = "idle"
    BY <2>1, SMT DEF HangStays
  <2>3. /\ \A k \in Link : linkFd[k] # NoFd => Up
        /\ \E k \in Link : \A j \in Link \ {k} : linkFd[j] = NoFd
    BY <2>2 DEF ClientDialsFirst
  <2>4. CASE UNCHANGED linkFd
    BY <2>3, <2>4, UpStays, Zenon
  <2>5. CASE Publishes(w)
    <3>1. Phase[w] = "has" /\ Phase'[w] = "half" /\ linkFd' = [linkFd EXCEPT ![LinkOf[w]] = FdOf[w]]
      BY <2>5, Zenon DEF Publishes
    <3>2. w = "dial"
      BY <1>1, <3>1, SMT DEF Party, Phase, LsnHas
    <3>3. out.pc \in OutHas /\ LinkOf[w] \in Link
      BY <3>1, <3>2, SMT DEF Phase, Party, LinkOf, TypeOK, OutType
    <3>4. ~Up
      <4>1. ~connected
        BY <3>3, SMT DEF CarrierInv, Executing, OutHas
      <4> QED BY <3>1, <3>2, <3>3, <4>1, SMT DEF Up, Rising, Telling, OutHas, Published
    <3>5. \A j \in Link \ {LinkOf[w]} : linkFd'[j] = NoFd
      BY <1>2, <2>3, <3>1, <3>4, SMT
    <3>6. Up'
      BY <3>1, <3>2, SMT DEF Up, Published
    <3> QED BY <3>3, <3>5, <3>6, Zenon
  <2> QED BY <2>1, <2>4, <2>5, SMT DEF Moves, Opens, Closes, Spawns, Points, Goes
<1> QED BY <1>3, <1>4

\* One link at a time, in every state until there is a collision.
LEMMA StaysOneLink == Spec => []CarrierInv /\ [](~collided => OneLink)
<1>1. Init => OneLink /\ CarrierInv
  <2> SUFFICES ASSUME Init PROVE OneLink /\ CarrierInv
    OBVIOUS
  <2>1. /\ out.pc = "read" /\ out.line = "none" /\ lsn.pc = (IF IsServer THEN "accept" ELSE "off")
        /\ linkFd = [k \in Link |-> NoFd] /\ buffer = <<>> /\ ~connected
    BY Zenon DEF Init, LinkInit, SockInit, CtxInit
  <2>2. DOMAIN buffer = {} /\ "none" \notin PppLines /\ \A k \in Link : linkFd[k] = NoFd
    BY <2>1, SMT DEF PppLines
  <2>3. ServerHasNoPty
    BY <2>1, <2>2, SMT DEF ServerHasNoPty, Link
  <2>4. ClientDialsFirst
    BY <2>1, <2>2, SMT DEF ClientDialsFirst, Link
  <2> QED BY <2>1, <2>3, <2>4, SMT DEF OneLink, CarrierInv
<1>2. /\ TypeOK /\ ReplyKnown /\ CarrierInv /\ Undisturbed
      /\ (~collided => Tracked) /\ (~collided' => Tracked') /\ (~collided => Threads)
      /\ (~collided => OneLink) /\ [Next]_vars
      => (~collided' => OneLink')
  <2> SUFFICES ASSUME TypeOK, ReplyKnown, CarrierInv, Undisturbed,
                      ~collided => Tracked, Tracked', ~collided => Threads,
                      ~collided => OneLink, [Next]_vars, ~collided'
               PROVE  OneLink'
    OBVIOUS
  <2>1. Ghost \/ UNCHANGED collided
    BY Zenon DEF vars, Next, HangUpNext, BulkOutNext, ListenNext, RecvNext, HostNext,
       CallerNext, AcceptFails, FarEndNext, WaitForOutside
  <2>2. ~collided
    BY <2>1, Zenon DEF Ghost, TypeOK
  <2>3. Tracked /\ ~Collision /\ SockFirst /\ OneLink
    BY <2>2 DEF Undisturbed, Threads
  <2>4. ClientDialsFirst'
    BY <2>3, DialsFirstInductive DEF OneLink
  <2>5. OnePartyAtATime => ServerHasNoPty'
    BY <2>3, NoPtyInductive DEF OneLink
  <2> QED BY <2>4, <2>5 DEF OneLink, OnePartyAtATime
<1>3. TypeOK /\ CarrierInv /\ [Next]_vars => CarrierInv'
  BY CarrierInvInductive
<1> QED BY <1>1, <1>2, <1>3, TypesAndReply, StaysUndisturbed, StaysTracked, StaysThreads, PTL DEF Spec

-----------------------------------------------------------------------------
(* What a piece put behind the others does to the order of payload.        *)

\* One piece is new, the others stay where they are.
LEMMA OneMore ==
  ASSUME tx \in Seq(Piece), NEW code, NEW c, NEW n, Enqueue(code, c, n)
  PROVE  /\ Len(tx) \in Nat /\ Len(tx') = Len(tx) + 1
         /\ tx'[Len(tx) + 1].code = code /\ tx'[Len(tx) + 1].conn = c /\ tx'[Len(tx) + 1].n = n
         /\ \A i \in 1..Len(tx) : tx'[i] = tx[i]
<1>1. /\ Len(tx') = Len(tx) + 1 /\ SubSeq(tx', 1, Len(tx)) = tx
      /\ tx'[Len(tx')] = [code |-> code, conn |-> c, n |-> n]
      /\ \A i \in 1..Len(tx) : tx'[i] = tx[i]
  BY EnqueueSent
<1>2. Len(tx) \in Nat
  BY SMT
<1>3. tx'[Len(tx) + 1] = [code |-> code, conn |-> c, n |-> n]
  BY <1>1, Zenon
<1>4. /\ tx'[Len(tx) + 1].code = code /\ tx'[Len(tx) + 1].conn = c /\ tx'[Len(tx) + 1].n = n
  BY <1>3, SMT
<1> QED BY <1>1, <1>2, <1>4, Zenon

\* Payload of other connections, and the CONNECT before it, stay what they were.
LEMMA PieceBehind ==
  ASSUME tx \in Seq(Piece), NEW code, NEW c, NEW n, Enqueue(code, c, n), NEW d
  PROVE  /\ code # "DATA" \/ c # d => DataIn(tx', d) = DataIn(tx, d)
         /\ \A m : (code # "DATA" \/ c # d) /\ Follows(tx, d, m) => Follows(tx', d, m)
         /\ code # "CONNECT" /\ ToldOf(tx, d) => ToldOf(tx', d)
<1>1. /\ Len(tx) \in Nat /\ Len(tx') = Len(tx) + 1
      /\ tx'[Len(tx) + 1].code = code /\ tx'[Len(tx) + 1].conn = c
      /\ \A i \in 1..Len(tx) : tx'[i] = tx[i]
  BY OneMore, Zenon
<1>2. /\ \A i \in 1..Len(tx) : i \in 1..Len(tx')
      /\ \A i \in 1..Len(tx') : i \in 1..Len(tx) \/ i = Len(tx) + 1
      /\ \A i \in 1..Len(tx) : \A j \in i + 1 .. Len(tx') : j \in i + 1 .. Len(tx) \/ j = Len(tx) + 1
      /\ \A i \in 1..Len(tx) : \A j \in i + 1 .. Len(tx) : j \in 1..Len(tx)
  BY <1>1, SMT
<1>3. ASSUME code # "DATA" \/ c # d
      PROVE  DataIn(tx', d) = DataIn(tx, d) /\ \A i \in DataIn(tx, d) : tx'[i] = tx[i]
  BY <1>1, <1>2, <1>3, Zenon DEF DataIn
<1>4. ASSUME code # "DATA" \/ c # d, NEW m, Follows(tx, d, m)
      PROVE  Follows(tx', d, m)
  BY <1>3, <1>4, Zenon DEF Follows
<1>5. ASSUME code # "CONNECT", ToldOf(tx, d)
      PROVE  ToldOf(tx', d)
  <2>1. PICK i \in 1..Len(tx) :
          /\ tx[i].code = "CONNECT" /\ tx[i].conn \in {d, NoConn}
          /\ \A j \in i + 1 .. Len(tx) : tx[j].code # "CONNECT"
    BY <1>5 DEF ToldOf
  <2>2. \A j \in i + 1 .. Len(tx') : tx'[j].code # "CONNECT"
    BY <1>1, <1>2, <1>5, <2>1, Zenon
  <2> QED BY <1>1, <1>2, <2>1, <2>2, Zenon DEF ToldOf
<1> QED BY <1>3, <1>4, <1>5

\* The next piece follows the one that was just sent.
LEMMA PieceFollows ==
  ASSUME tx \in Seq(Piece), NEW c, NEW n \in Nat, Enqueue("DATA", c, n)
  PROVE  Follows(tx', c, n + 1)
<1>1. /\ Len(tx) \in Nat /\ Len(tx') = Len(tx) + 1
      /\ tx'[Len(tx) + 1].code = "DATA" /\ tx'[Len(tx) + 1].conn = c /\ tx'[Len(tx) + 1].n = n
  BY OneMore, Zenon
<1>2. Len(tx) + 1 \in DataIn(tx', c) /\ tx'[Len(tx) + 1].n = (n + 1) - 1
  BY <1>1, SMT DEF DataIn
<1>3. ASSUME NEW i \in DataIn(tx', c), tx'[i].n # (n + 1) - 1
      PROVE  i < Len(tx) + 1
  <2>1. i \in 1 .. Len(tx) + 1 /\ i # Len(tx) + 1
    BY <1>1, <1>2, <1>3, Zenon DEF DataIn
  <2> QED BY <1>1, <2>1, SMT
<1> QED BY <1>2, <1>3, Zenon DEF Follows

\* Payload is within its call, if what is sent next is.
LEMMA PieceWithin ==
  ASSUME tx \in Seq(Piece), NEW code, NEW c, NEW n, Enqueue(code, c, n), WithinCalls(tx),
         code = "DATA" => ToldOf(tx, c) /\ Follows(tx, c, n)
  PROVE  WithinCalls(tx')
<1> DEFINE L == Len(tx)
<1>1. /\ L \in Nat /\ Len(tx') = L + 1
      /\ tx'[L + 1].code = code /\ tx'[L + 1].conn = c /\ tx'[L + 1].n = n
      /\ \A i \in 1..L : tx'[i] = tx[i]
  BY OneMore, Zenon
<1> HIDE DEF L
<1>2. ASSUME NEW j \in 1..L, tx'[j].code = "DATA"
      PROVE  /\ \E i \in 1..j - 1 :
                  /\ tx'[i].code = "CONNECT" /\ tx'[i].conn \in {tx'[j].conn, NoConn}
                  /\ \A k \in i + 1 .. j - 1 : tx'[k].code # "CONNECT"
             /\ \A i \in 1..j - 1 : tx'[i].code = "DATA" /\ tx'[i].conn = tx'[j].conn =>
                  \/ tx'[i].n = tx'[j].n - 1
                  \/ \E k \in i + 1 .. j - 1 : tx'[k].code = "DATA" /\ tx'[k].conn = tx'[j].conn
                                               /\ tx'[k].n = tx'[j].n - 1
  <2>1. /\ \A i \in 1..j - 1 : i \in 1..L
        /\ \A i \in 1..j - 1 : \A k \in i + 1 .. j - 1 : k \in 1..L
    BY <1>1, SMT
  <2>2. tx'[j] = tx[j] /\ \A i \in 1..j - 1 : tx'[i] = tx[i]
    BY <1>1, <2>1
  <2>3. \A i \in 1..j - 1 : \A k \in i + 1 .. j - 1 : tx'[k] = tx[k]
    BY <1>1, <2>1
  <2>4. /\ \E i \in 1..j - 1 :
             /\ tx[i].code = "CONNECT" /\ tx[i].conn \in {tx[j].conn, NoConn}
             /\ \A k \in i + 1 .. j - 1 : tx[k].code # "CONNECT"
        /\ \A i \in 1..j - 1 : tx[i].code = "DATA" /\ tx[i].conn = tx[j].conn =>
             \/ tx[i].n = tx[j].n - 1
             \/ \E k \in i + 1 .. j - 1 : tx[k].code = "DATA" /\ tx[k].conn = tx[j].conn
                                          /\ tx[k].n = tx[j].n - 1
    BY <1>2, <2>2, Zenon DEF WithinCalls, L
  <2>5. PICK i \in 1..j - 1 :
          /\ tx[i].code = "CONNECT" /\ tx[i].conn \in {tx[j].conn, NoConn}
          /\ \A k \in i + 1 .. j - 1 : tx[k].code # "CONNECT"
    BY <2>4
  <2>6. /\ tx'[i].code = "CONNECT" /\ tx'[i].conn \in {tx'[j].conn, NoConn}
        /\ \A k \in i + 1 .. j - 1 : tx'[k].code # "CONNECT"
    BY <2>2, <2>3, <2>5, Zenon
  <2>7. ASSUME NEW h \in 1..j - 1, tx'[h].code = "DATA" /\ tx'[h].conn = tx'[j].conn
        PROVE  \/ tx'[h].n = tx'[j].n - 1
               \/ \E k \in h + 1 .. j - 1 : tx'[k].code = "DATA" /\ tx'[k].conn = tx'[j].conn
                                            /\ tx'[k].n = tx'[j].n - 1
    <3>1. tx'[h] = tx[h] /\ \A k \in h + 1 .. j - 1 : tx'[k] = tx[k]
      BY <2>2, <2>3
    <3>2. \/ tx[h].n = tx[j].n - 1
          \/ \E k \in h + 1 .. j - 1 : tx[k].code = "DATA" /\ tx[k].conn = tx[j].conn
                                       /\ tx[k].n = tx[j].n - 1
      BY <2>2, <2>4, <2>7, <3>1, Zenon
    <3> QED BY <2>2, <3>1, <3>2, Zenon
  <2> QED BY <2>6, <2>7
<1>3. ASSUME code = "DATA"
      PROVE  /\ \E i \in 1..L :
                  /\ tx'[i].code = "CONNECT" /\ tx'[i].conn \in {c, NoConn}
                  /\ \A k \in i + 1 .. L : tx'[k].code # "CONNECT"
             /\ \A i \in 1..L : tx'[i].code = "DATA" /\ tx'[i].conn = c =>
                  \/ tx'[i].n = n - 1
                  \/ \E k \in i + 1 .. L : tx'[k].code = "DATA" /\ tx'[k].conn = c
                                           /\ tx'[k].n = n - 1
  <2>1. \A i \in 1..L : \A k \in i + 1 .. L : k \in 1..L
    BY <1>1, SMT
  <2>2. PICK i \in 1..L :
          /\ tx[i].code = "CONNECT" /\ tx[i].conn \in {c, NoConn}
          /\ \A k \in i + 1 .. L : tx[k].code # "CONNECT"
    BY <1>3, Zenon DEF ToldOf, L
  <2>3. /\ tx'[i].code = "CONNECT" /\ tx'[i].conn \in {c, NoConn}
        /\ \A k \in i + 1 .. L : tx'[k].code # "CONNECT"
    BY <1>1, <2>1, <2>2, Zenon
  <2>4. ASSUME NEW j \in 1..L, tx'[j].code = "DATA", tx'[j].conn = c
        PROVE  \/ tx'[j].n = n - 1
               \/ \E k \in j + 1 .. L : tx'[k].code = "DATA" /\ tx'[k].conn = c
                                        /\ tx'[k].n = n - 1
    <3>1. tx'[j] = tx[j] /\ j \in DataIn(tx, c)
      BY <1>1, <2>4, Zenon DEF DataIn, L
    <3>2. tx[j].n = n - 1 \/ \E k \in DataIn(tx, c) : j < k /\ tx[k].n = n - 1
      BY <1>3, <3>1, Zenon DEF Follows
    <3>3. ASSUME NEW k \in DataIn(tx, c), j < k, tx[k].n = n - 1
          PROVE  k \in j + 1 .. L /\ tx'[k].code = "DATA" /\ tx'[k].conn = c /\ tx'[k].n = n - 1
      <4>1. k \in 1..L /\ tx[k].code = "DATA" /\ tx[k].conn = c
        BY Zenon DEF DataIn, L
      <4>2. k \in j + 1 .. L
        BY <1>1, <3>3, <4>1, SMT
      <4> QED BY <1>1, <3>3, <4>1, <4>2, Zenon
    <3> QED BY <3>1, <3>2, <3>3, Zenon
  <2> QED BY <2>3, <2>4
<1>4. ASSUME NEW j \in 1..Len(tx'), tx'[j].code = "DATA"
      PROVE  /\ \E i \in 1..j - 1 :
                  /\ tx'[i].code = "CONNECT" /\ tx'[i].conn \in {tx'[j].conn, NoConn}
                  /\ \A k \in i + 1 .. j - 1 : tx'[k].code # "CONNECT"
             /\ \A i \in 1..j - 1 : tx'[i].code = "DATA" /\ tx'[i].conn = tx'[j].conn =>
                  \/ tx'[i].n = tx'[j].n - 1
                  \/ \E k \in i + 1 .. j - 1 : tx'[k].code = "DATA" /\ tx'[k].conn = tx'[j].conn
                                               /\ tx'[k].n = tx'[j].n - 1
  <2>1. CASE j \in 1..L
    BY <1>2, <1>4, <2>1
  <2>2. CASE j = L + 1
    <3>1. j - 1 = L
      BY <1>1, <2>2, SMT
    <3>2. code = "DATA" /\ tx'[j].conn = c /\ tx'[j].n = n
      BY <1>1, <1>4, <2>2
    <3> QED BY <1>3, <3>1, <3>2
  <2>3. j \in 1..L \/ j = L + 1
    BY <1>1, SMT
  <2> QED BY <2>1, <2>2, <2>3
<1> QED BY <1>4 DEF WithinCalls

-----------------------------------------------------------------------------
(* Payload is within its call.                                             *)

\* Where no receive thread moves, what is sent is no payload, and a CONNECT
\* only from the thread that has a call to tell of.
LEMMA OtherCodes ==
  ASSUME TypeOK, [Next]_vars, ~\E t \in Conn : RecvNext(t)
  PROVE  \/ UNCHANGED tx
         \/ \E code, c, n : code \notin {"CONNECT", "DATA"} /\ Enqueue(code, c, n)
         \/ Telling /\ Enqueue("CONNECT", out.conn, 0)
<1> USE DEF ctxVars, sessionVars
<1>0. out.reply \in ResultCode \cup {"none"}
  BY Zenon DEF TypeOK, OutType
<1>1. CASE BulkOut
  <2>1. CASE AtEcho
    BY <2>1, SMT DEF AtEcho
  <2>2. CASE AtExt
    <3>1. out.line \in DOMAIN ExtReply /\ Enqueue(ExtReply[out.line], NoConn, 0)
      BY <2>2, Zenon DEF AtExt
    <3>2. \A l \in DOMAIN ExtReply : ExtReply[l] \in {"OK", "ERROR"}
      BY SessionAssumption, Zenon
    <3>3. ExtReply[out.line] \notin {"CONNECT", "DATA"}
      BY <3>1, <3>2, SMT
    <3> QED BY <3>1, <3>3, Zenon
  <2>3. CASE AtReply
    <3>1. out.pc = "reply" /\ Enqueue(out.reply, out.conn, 0)
      BY <2>3, Zenon DEF AtReply
    <3>2. out.reply = "CONNECT" \/ out.reply \notin {"CONNECT", "DATA"}
      BY <1>0, SMT DEF ResultCode
    <3> QED BY <3>1, <3>2, Zenon DEF Telling
  <2>4. CASE ~AtEcho /\ ~AtExt /\ ~AtReply
    BY <1>1, <2>4, Zenon DEF BulkOut, OfflineDone, TakeLine,
       AtPlain, AtAnswer, AtPpp, AtNoSock, AtDial, AtRaise, OnlineDone, Route,
       ClearBuffer, SockConnect, SockSocket, SockConnected, SockRefused, PtyConnect,
       PtyOpened, PtyFailed, setupISP, ConnectTail, ConnectPublish, ConnectSpawn,
       ConnectPointer, SendWrite
  <2> QED BY <2>1, <2>2, <2>3, <2>4
<1>2. CASE ListenTail \/ ListenAccept
  <2>1. CASE ListenRing
    <3>1. Enqueue("RING", lsn.conn, 0)
      BY <2>1, Zenon DEF ListenRing, ring_callback
    <3> QED BY <3>1, SMT
  <2>2. CASE ~ListenRing
    BY <1>2, <2>2, Zenon DEF ListenTail, ListenAccept, ListenCheck, ListenRefuse, ListenPublish,
       ListenSpawn, ListenPointer
  <2> QED BY <2>1, <2>2
<1>3. CASE HangUpNext
  BY <1>3, HangUpMoves, Zenon DEF HangsUp
<1>4. CASE (\E c \in Conn : FarEndNext(c)) \/ HostNext \/ AcceptFails \/ UNCHANGED vars
  BY <1>4, Zenon DEF FarEndNext, FarEndStep, PeerSend, PeerClose, SlaveOpen, HostNext,
     HostStep, HostPacket, OnHook, AcceptFails, ListenFails, linkVars, ctxVars, vars
<1> QED BY <1>1, <1>2, <1>3, <1>4, Zenon DEF Next, BulkOutNext, ListenNext, CallerNext, WaitForOutside

\* The call the host was told of is that of every thread there is: there is
\* one link, and both are its.
LEMMA ToldOfCall ==
  ASSUME TypeOK, CarrierInv, Tracked, Owned, Carried, OneLink, OnePartyAtATime, connected,
         NEW t \in Conn, rcv[t].obj = "joinable"
  PROVE  ToldOf(tx, t)
<1>0. /\ Len(tx) \in Nat /\ linkFd \in [Link -> Fd \cup {NoFd}] /\ NoFd \notin Fd
      /\ rcv[t].link \in Link
  <2>1. rcv[t] \in RcvType /\ linkFd \in [Link -> Fd \cup {NoFd}]
    BY Zenon DEF TypeOK
  <2>2. Len(tx) \in Nat
    BY SMT DEF TypeOK
  <2> QED BY <2>1, <2>2, Apartness, Zenon DEF RcvType
<1>1. hang.pc = "idle"
  BY DEF Carried, Rising
<1>2. PICK i \in 1..Len(tx) :
        tx[i].code = "CONNECT" /\ \A j \in i + 1 .. Len(tx) : tx[j].code \in {"DATA", "RING"}
  BY DEF CarrierInv, Announced
<1>3. \A j \in i + 1 .. Len(tx) : tx[j].code # "CONNECT"
  BY <1>2, SMT
<1>4. ASSUME tx[i].conn # NoConn PROVE tx[i].conn = t
  <2>1. OnLine(tx[i].conn)
    BY <1>2, <1>3, <1>4, Zenon DEF Carried, Rising, IsLastConnect
  <2>2. PICK k \in Link : linkFd[k] \in Fd /\ fdTab[linkFd[k]] = tx[i].conn
    BY <2>1, Zenon DEF OnLine
  <2>3. linkFd[rcv[t].link] # NoFd
    BY <1>1, SMT DEF Tracked, ThreadsTracked
  <2>4. fdTab[linkFd[rcv[t].link]] = t
    BY <1>1, <2>3, SMT DEF Owned, Clearing
  <2>5. linkFd[k] # NoFd
    BY <1>0, <2>2
  <2>6. k = rcv[t].link
    <3>1. CASE IsServer
      <4>1. linkFd["pty"] = NoFd
        BY <3>1 DEF OneLink, ServerHasNoPty
      <4> QED BY <1>0, <2>3, <2>5, <4>1, SMT DEF Link
    <3>2. CASE ~IsServer
      <4>1. \E m \in Link : \A j \in Link \ {m} : linkFd[j] = NoFd
        BY <1>1, <3>2 DEF OneLink, ClientDialsFirst
      <4> QED BY <1>0, <2>3, <2>5, <4>1, Zenon
    <3> QED BY <3>1, <3>2
  <2> QED BY <2>2, <2>4, <2>6
<1> QED BY <1>2, <1>3, <1>4, Zenon DEF ToldOf

\* A receive thread's step.
LEMMA RecvKeepsPayload ==
  ASSUME TypeOK, CarrierInv, Tracked, Threads, Carried, OneLink, OnePartyAtATime, Payload,
         NEW t \in Conn, RecvNext(t)
  PROVE  Payload'
<1>0. /\ tx \in Seq(Piece) /\ rcv[t].n \in Nat /\ rcv[t].sel \in Conn \cup {NoConn}
      /\ \A c \in Conn : conns[c].read \in Nat
      /\ connected \in BOOLEAN
  <2>1. rcv[t] \in RcvType /\ tx \in Seq(Piece) /\ connected \in BOOLEAN
    BY Zenon DEF TypeOK
  <2>2. \A c \in Conn : conns[c] \in ConnType
    BY Zenon DEF TypeOK
  <2> QED BY <2>1, <2>2, Zenon DEF RcvType, ConnType
<1>1. /\ ThreadMoves(t) /\ UNCHANGED <<connected, hang>> /\ ObjsKept
      /\ \A u \in Conn \ {t} : rcv'[u] = rcv[u]
  BY RecvMoves, Zenon DEF ThreadMoves, Apiece
<1>2. connected => hang.pc = "idle"
  BY DEF Carried, Rising
<1>3. \A u \in Conn : rcv'[u].obj = rcv[u].obj
  BY <1>1 DEF ObjsKept
<1>4. /\ WithinCalls(tx)
      /\ \A c \in Conn : DataIn(tx, c) # {} => rcv[c].obj # "none"
      /\ \A u \in Conn : rcv[u].obj = "joinable" =>
           /\ hang.pc = "idle" /\ ~connected => DataIn(tx, u) = {}
           /\ connected => Follows(tx, u, Due(u))
      /\ \A u \in Conn : rcv[u].pc = "enqueue" => Follows(tx, u, rcv[u].n) /\ ToldOf(tx, u)
  BY DEF Payload
\* It sends a piece.
<1>5. CASE Sends(t)
  <2>1. /\ rcv[t].pc = "enqueue" /\ rcv'[t].pc = "select" /\ UNCHANGED conns
        /\ Enqueue("DATA", rcv[t].sel, rcv[t].n)
    BY <1>5, Zenon DEF Sends
  <2>2. rcv[t].sel = t /\ (connected \/ hang.pc # "idle") /\ rcv[t].obj = "joinable"
    BY <2>1, SMT DEF Threads, Counted, ThreadsAlive
  <2>3. WithinCalls(tx')
    BY <1>0, <1>4, <2>1, <2>2, PieceWithin
  <2>4. /\ \A u \in Conn \ {t} : DataIn(tx', u) = DataIn(tx, u)
        /\ \A u \in Conn \ {t} : \A m : Follows(tx, u, m) => Follows(tx', u, m)
        /\ \A u \in Conn : ToldOf(tx, u) => ToldOf(tx', u)
    <3>1. "DATA" # "CONNECT"
      OBVIOUS
    <3> QED BY <1>0, <2>1, <2>2, <3>1, PieceBehind
  <2>5. Follows(tx', t, rcv[t].n + 1)
    BY <1>0, <2>1, <2>2, PieceFollows
  <2>6. connected => Due(t)' = rcv[t].n + 1
    <3>1. hang.pc = "idle" => rcv[t].n = conns[t].read
      BY <2>1, SMT DEF Threads, Counted
    <3> QED BY <1>2, <2>1, <3>1, SMT DEF Due
  <2>7. \A u \in Conn \ {t} : Due(u)' = Due(u)
    BY <1>1, <2>1, SMT DEF Due
  <2>8. \A c \in Conn : DataIn(tx', c) # {} => rcv'[c].obj # "none"
    BY <1>3, <1>4, <2>2, <2>4, SMT
  <2>9. \A u \in Conn : rcv'[u].obj = "joinable" =>
          /\ hang'.pc = "idle" /\ ~connected' => DataIn(tx', u) = {}
          /\ connected' => Follows(tx', u, Due(u)')
    <3>1. ASSUME NEW u \in Conn \ {t}, rcv'[u].obj = "joinable"
          PROVE  /\ hang'.pc = "idle" /\ ~connected' => DataIn(tx', u) = {}
                 /\ connected' => Follows(tx', u, Due(u)')
      BY <1>1, <1>3, <1>4, <2>4, <2>7, <3>1, Zenon
    <3>2. /\ ~(hang'.pc = "idle" /\ ~connected')
          /\ connected' => Follows(tx', t, Due(t)')
      BY <1>1, <2>2, <2>5, <2>6, Zenon
    <3> QED BY <3>1, <3>2, Zenon
  <2>10. \A u \in Conn : rcv'[u].pc = "enqueue" => Follows(tx', u, rcv'[u].n) /\ ToldOf(tx', u)
    BY <1>1, <1>4, <2>1, <2>4, SMT
  <2> QED BY <2>3, <2>8, <2>9, <2>10, Zenon DEF Payload
\* It does not.
<1>6. CASE ~Sends(t)
  <2>1. UNCHANGED tx
    BY <1>1, <1>6, Zenon DEF ThreadMoves, Copies, Ends, LooksUp, Rests, ReadsOne, Passes
  <2>2. connected => \A u \in Conn : rcv[u].obj = "joinable" => Due(u)' = Due(u)
    <3> SUFFICES ASSUME connected, NEW u \in Conn, rcv[u].obj = "joinable" PROVE Due(u)' = Due(u)
      OBVIOUS
    <3>1. CASE ReadsOne(t)
      <4>1. /\ rcv[t].pc = "recv" /\ rcv'[t].pc = "callback"
            /\ rcv[t].sel \in Conn => conns'[rcv[t].sel].read = conns[rcv[t].sel].read + 1
            /\ \A d \in Conn \ {rcv[t].sel} : conns'[d] = conns[d]
        BY <3>1, Zenon DEF ReadsOne
      <4>2. rcv[t].sel \in Conn /\ rcv[t].sel # NoConn
        BY <4>1, Apartness, SMT DEF Threads, ThreadsAlive
      <4>3. rcv[t].sel = t
        BY <1>2, <4>2, SMT DEF Threads, OwnFile
      <4> QED BY <1>0, <1>1, <4>1, <4>3, SMT DEF Due
    <3>2. CASE Copies(t) \/ Ends(t) \/ LooksUp(t) \/ Rests(t) \/ Passes(t)
      <4>1. /\ UNCHANGED conns
            /\ rcv'[t].pc \in {"callback", "enqueue"} <=> rcv[t].pc \in {"callback", "enqueue"}
        BY <3>2, SMT DEF Copies, Ends, LooksUp, Rests, Passes
      <4> QED BY <1>1, <4>1, Zenon DEF Due
    <3> QED BY <1>1, <1>6, <3>1, <3>2, Zenon DEF ThreadMoves
  <2>3. \A u \in Conn : rcv'[u].pc = "enqueue" => Follows(tx, u, rcv'[u].n) /\ ToldOf(tx, u)
    <3>1. rcv'[t].pc = "enqueue" => Passes(t)
      BY <1>1, <1>6, SMT DEF ThreadMoves, Copies, Ends, LooksUp, Rests, ReadsOne
    <3>2. ASSUME Passes(t)
          PROVE  Follows(tx, t, rcv'[t].n) /\ ToldOf(tx, t)
      <4>1. rcv[t].pc = "callback" /\ connected /\ rcv'[t].n = rcv[t].n
        BY <3>2, Zenon DEF Passes
      <4>2. rcv[t].obj = "joinable" /\ rcv[t].n = conns[t].read
        BY <1>2, <4>1, SMT DEF Threads, ThreadsAlive, Counted
      <4>3. Due(t) = rcv[t].n
        BY <4>1, <4>2, SMT DEF Due
      <4>4. ToldOf(tx, t)
        BY <4>1, <4>2, ToldOfCall DEF Threads
      <4> QED BY <1>4, <4>1, <4>2, <4>3, <4>4
    <3> QED BY <1>1, <1>4, <3>1, <3>2, Zenon
  <2>4. \A u \in Conn : rcv'[u].obj = "joinable" =>
          /\ hang'.pc = "idle" /\ ~connected' => DataIn(tx', u) = {}
          /\ connected' => Follows(tx', u, Due(u)')
    BY <1>1, <1>3, <1>4, <2>1, <2>2, Zenon
  <2>5. \A c \in Conn : DataIn(tx', c) # {} => rcv'[c].obj # "none"
    BY <1>3, <1>4, <2>1, Zenon
  <2>6. \A u \in Conn : rcv'[u].pc = "enqueue" => Follows(tx', u, rcv'[u].n) /\ ToldOf(tx', u)
    BY <2>1, <2>3, Zenon
  <2>7. WithinCalls(tx')
    BY <1>4, <2>1
  <2> QED BY <2>4, <2>5, <2>6, <2>7, Zenon DEF Payload
<1> QED BY <1>5, <1>6

\* A hang-up's step.
LEMMA HangUpKeepsPayload ==
  ASSUME TypeOK, Tracked, Tracked', SockFirst, Carried, Payload, HangUpNext
  PROVE  Payload'
<1>1. /\ UNCHANGED <<tx, connected>> /\ hang.pc # "idle"
      /\ \A t \in Conn : /\ rcv'[t].pc = rcv[t].pc /\ rcv'[t].n = rcv[t].n
                         /\ rcv'[t].obj \in {rcv[t].obj, "joined", "deleted"}
  BY HangUpMoves, SMT DEF HangsUp
<1>2. ~connected'
  BY <1>1 DEF Carried, Rising
<1>3. hang'.pc = "idle" => \A t \in Conn : rcv'[t].obj # "joinable"
  BY NoneAfterHangUp
<1>4. \A t \in Conn : rcv[t].obj # "none" => rcv'[t].obj # "none"
  BY <1>1, SMT
<1>5. /\ WithinCalls(tx)
      /\ \A c \in Conn : DataIn(tx, c) # {} => rcv[c].obj # "none"
      /\ \A u \in Conn : rcv[u].pc = "enqueue" => Follows(tx, u, rcv[u].n) /\ ToldOf(tx, u)
  BY DEF Payload
<1>6. WithinCalls(tx') /\ \A c \in Conn : DataIn(tx', c) # {} => rcv'[c].obj # "none"
  BY <1>1, <1>4, <1>5, Zenon
<1>7. \A u \in Conn : rcv'[u].pc = "enqueue" => Follows(tx', u, rcv'[u].n) /\ ToldOf(tx', u)
  BY <1>1, <1>5, Zenon
<1> QED BY <1>2, <1>3, <1>6, <1>7, Zenon DEF Payload

\* Anybody else's: a fresh thread has sent nothing, and the carrier rises only
\* when nobody has.
LEMMA OthersKeepPayload ==
  ASSUME TypeOK, InHand, CarrierInv, ~Collision, Tracked, Threads, Carried, Carried',
         Payload, [Next]_vars, ~HangUpNext, ~\E t \in Conn : RecvNext(t)
  PROVE  Payload'
<1>0. tx \in Seq(Piece) /\ connected \in BOOLEAN
  BY Zenon DEF TypeOK
<1>1. PICK w \in Party : HangStays /\ Moves(w) /\ Aside(w)
  BY AsideMoves, Zenon
<1>2. hang'.pc = "idle" => hang.pc = "idle"
  BY <1>1, SMT DEF HangStays
<1>3. /\ WithinCalls(tx)
      /\ \A c \in Conn : DataIn(tx, c) # {} => rcv[c].obj # "none"
      /\ \A u \in Conn : rcv[u].obj = "joinable" =>
           /\ hang.pc = "idle" /\ ~connected => DataIn(tx, u) = {}
           /\ connected => Follows(tx, u, Due(u))
      /\ \A u \in Conn : rcv[u].pc = "enqueue" => Follows(tx, u, rcv[u].n) /\ ToldOf(tx, u)
  BY DEF Payload
\* No payload is put into the buffer, and no CONNECT while a thread is about to.
<1>4. /\ WithinCalls(tx')
      /\ \A u \in Conn : DataIn(tx', u) = DataIn(tx, u)
      /\ \A u \in Conn : \A m : Follows(tx, u, m) => Follows(tx', u, m)
      /\ (\E u \in Conn : rcv[u].pc = "enqueue") =>
           \A u \in Conn : ToldOf(tx, u) => ToldOf(tx', u)
  <2>1. CASE UNCHANGED tx
    BY <1>3, <2>1
  <2>2. ASSUME NEW code, NEW c, NEW n, Enqueue(code, c, n), code \notin {"CONNECT", "DATA"}
        PROVE  /\ WithinCalls(tx')
               /\ \A u \in Conn : DataIn(tx', u) = DataIn(tx, u)
               /\ \A u \in Conn : \A m : Follows(tx, u, m) => Follows(tx', u, m)
               /\ \A u \in Conn : ToldOf(tx, u) => ToldOf(tx', u)
    <3>1. code # "CONNECT" /\ code # "DATA"
      BY <2>2
    <3> QED BY <1>0, <1>3, <2>2, <3>1, PieceWithin, PieceBehind
  <2>3. CASE Telling /\ Enqueue("CONNECT", out.conn, 0)
    <3>1. "CONNECT" # "DATA"
      OBVIOUS
    <3>2. /\ WithinCalls(tx')
          /\ \A u \in Conn : DataIn(tx', u) = DataIn(tx, u)
          /\ \A u \in Conn : \A m : Follows(tx, u, m) => Follows(tx', u, m)
      BY <1>0, <1>3, <2>3, <3>1, PieceWithin, PieceBehind
    <3>3. hang.pc = "idle" /\ ~connected
      BY <2>3, SMT DEF Carried, Telling, CarrierInv, Executing
    <3>4. \A u \in Conn : rcv[u].pc # "enqueue"
      BY <3>3, SMT DEF Threads, Counted
    <3> QED BY <3>2, <3>4
  <2> QED BY <2>1, <2>2, <2>3, OtherCodes, Zenon
\* Nobody's thread, but that of a new connection, is touched.
<1>5. \/ \A u \in Conn : rcv'[u] = rcv[u]
      \/ \E c \in Conn : /\ \A u \in Conn \ {c} : rcv'[u] = rcv[u]
                         /\ rcv[c].obj = "none" /\ rcv'[c].pc = "start" /\ rcv'[c].obj = "joinable"
  <2>1. CASE UNCHANGED rcv
    BY <2>1
  <2>2. CASE Spawns(w)
    <3>1. Phase[w] = "half"
      BY <2>2, Zenon DEF Spawns
    <3>2. ConnOf[w] \in Conn /\ LinkOf[w] \in Link
      BY <3>1, SMT DEF Tracked, HalfTracked, Published, InHand
    <3>3. /\ rcv'[ConnOf[w]].pc = "start" /\ rcv'[ConnOf[w]].obj = "joinable"
          /\ \A t \in Conn \ {ConnOf[w]} : rcv'[t] = rcv[t]
      BY <2>2, <3>2, SpawnFacts, Zenon
    <3>4. rcv[ConnOf[w]].obj = "none"
      BY <3>1, <3>2, SMT DEF Threads, Started
    <3> QED BY <3>2, <3>3, <3>4, Zenon
  <2> QED BY <1>1, <2>1, <2>2 DEF Aside
<1>6. \A u \in Conn : rcv[u].obj # "none" => conns'[u].read = conns[u].read
  BY <1>1, ReadsStay DEF Threads
<1>7. \A u \in Conn : rcv[u].obj # "none" => rcv'[u] = rcv[u] /\ Due(u)' = Due(u)
  <2>1. \A u \in Conn : rcv[u].obj # "none" => rcv'[u] = rcv[u]
    BY <1>5, Zenon
  <2> QED BY <1>6, <2>1, Zenon DEF Due
<1>8. \A u \in Conn : rcv[u].obj = "none" => DataIn(tx', u) = {}
  BY <1>3, <1>4, Zenon
<1>9. \A u \in Conn : \A m : DataIn(tx', u) = {} => Follows(tx', u, m)
  BY Zenon DEF Follows
<1>10. \A c \in Conn : DataIn(tx', c) # {} => rcv'[c].obj # "none"
  BY <1>3, <1>4, <1>7, Zenon
<1>11. ASSUME NEW u \in Conn, rcv'[u].obj = "joinable"
       PROVE  /\ hang'.pc = "idle" /\ ~connected' => DataIn(tx', u) = {}
              /\ connected' => Follows(tx', u, Due(u)')
  <2>1. CASE rcv[u].obj = "none"
    BY <1>8, <1>9, <2>1, Zenon
  <2>2. CASE rcv[u].obj # "none"
    <3>1. rcv[u].obj = "joinable" /\ Due(u)' = Due(u)
      BY <1>7, <1>11, <2>2
    <3>2. /\ hang.pc = "idle" /\ ~connected => DataIn(tx', u) = {}
          /\ connected => Follows(tx', u, Due(u)')
      BY <1>3, <1>4, <3>1, Zenon
    <3>3. hang'.pc = "idle" /\ ~connected' => hang.pc = "idle" /\ ~connected
      BY <1>2, CarrierFalls, SMT
    <3>4. connected' => connected \/ hang.pc = "idle"
      BY <1>2, SMT DEF Carried, Rising
    <3> QED BY <1>9, <3>2, <3>3, <3>4, Zenon
  <2> QED BY <2>1, <2>2
<1>12. ASSUME NEW u \in Conn, rcv'[u].pc = "enqueue"
       PROVE  Follows(tx', u, rcv'[u].n) /\ ToldOf(tx', u)
  <2>1. rcv'[u] = rcv[u]
    <3>1. "start" # "enqueue"
      OBVIOUS
    <3> QED BY <1>5, <1>12, <3>1, Zenon
  <2> QED BY <1>3, <1>4, <1>12, <2>1, Zenon
<1> QED BY <1>4, <1>10, <1>11, <1>12, Zenon DEF Payload

\* What reaches the host belongs to the call it was told of, in order and
\* without a gap, in every state until there is a collision.
THEOREM HostHearsItsCall ==
  ASSUME OnePartyAtATime
  PROVE  Spec => []PayloadWithinCall
<1>1. Init => Payload
  <2> SUFFICES ASSUME Init PROVE Payload
    OBVIOUS
  <2>1. tx = <<>> /\ rcv = [c \in Conn |-> NoThread]
    BY Zenon DEF Init, LinkInit, CtxInit
  <2>2. Len(tx) = 0 /\ \A c \in Conn : rcv[c].obj = "none" /\ rcv[c].pc = "none"
    BY <2>1, SMT DEF NoThread
  <2>3. 1..Len(tx) = {}
    BY <2>2, SMT
  <2>4. WithinCalls(tx) /\ \A c \in Conn : DataIn(tx, c) = {}
    BY <2>3, Zenon DEF WithinCalls, DataIn
  <2> QED BY <2>2, <2>4, SMT DEF Payload
<1>2. /\ TypeOK /\ InHand /\ Undisturbed /\ CarrierInv
      /\ (~collided => Tracked) /\ (~collided' => Tracked') /\ (~collided => Threads)
      /\ (~collided => Carried) /\ (~collided' => Carried') /\ (~collided => OneLink)
      /\ (~collided => Payload) /\ [Next]_vars
      => (~collided' => Payload')
  <2> SUFFICES ASSUME TypeOK, InHand, Undisturbed, CarrierInv,
                      ~collided => Tracked, Tracked', ~collided => Threads,
                      ~collided => Carried, Carried', ~collided => OneLink,
                      ~collided => Payload, [Next]_vars, ~collided'
               PROVE  Payload'
    OBVIOUS
  <2>1. Ghost \/ UNCHANGED collided
    BY Zenon DEF vars, Next, HangUpNext, BulkOutNext, ListenNext, RecvNext, HostNext,
       CallerNext, AcceptFails, FarEndNext, WaitForOutside
  <2>2. ~collided
    BY <2>1, Zenon DEF Ghost, TypeOK
  <2>3. Tracked /\ ~Collision /\ Threads /\ Carried /\ OneLink /\ Payload
    BY <2>2 DEF Undisturbed
  <2>4. CASE HangUpNext
    BY <2>3, <2>4, HangUpKeepsPayload DEF Threads
  <2>5. ASSUME NEW t \in Conn, RecvNext(t) PROVE Payload'
    BY <2>3, <2>5, RecvKeepsPayload
  <2>6. CASE ~HangUpNext /\ ~\E t \in Conn : RecvNext(t)
    BY <2>3, <2>6, OthersKeepPayload
  <2> QED BY <2>4, <2>5, <2>6
<1>3. (~collided => Payload) => PayloadWithinCall
  BY Zenon DEF Payload, WithinCalls, PayloadWithinCall
<1>4. Spec => [](TypeOK /\ InHand /\ Undisturbed)
  <2>1. TypeOK /\ OneOwner /\ Named => InHand
    BY OwnersInHand
  <2> QED BY <2>1, TypeCorrect, OwnersKept, StaysUndisturbed, PTL
<1> QED BY <1>1, <1>2, <1>3, <1>4, StaysTracked, StaysThreads, StaysCarried, StaysOneLink, PTL DEF Spec

-----------------------------------------------------------------------------
(* What the host sends goes to its call.                                   *)

\* A number that the sending thread has loaded may be closed, and nobody who
\* might get it again opens one: the only one that does is itself.
LEMMA LoadedStays ==
  ASSUME TypeOK, ~IsServer, ~Collision, ClientDialsFirst, [Next]_vars, UNCHANGED out,
         out.pc = "send", NEW f \in Fd
  PROVE  fdTab'[f] \in {fdTab[f], NoConn}
<1>0. fdTab \in [Fd -> Conn \cup {NoConn}]
  BY Zenon DEF TypeOK
<1>1. CASE HangUpNext
  <2>1. CASE DisconnectClose
    <3>1. fdTab' = [fdTab EXCEPT ![hang.fd] = NoConn]
      BY <2>1, Zenon DEF DisconnectClose, CloseFd
    <3> QED BY <1>0, <3>1, SMT
  <2>2. CASE ~DisconnectClose
    <3>1. UNCHANGED fdTab
      BY <1>1, <2>2, Zenon DEF HangUpNext, Disconnect, DisconnectLoad, DisconnectZero,
         DisconnectThread, DisconnectJoin, DisconnectDelete, DisconnectNull, linkVars
    <3> QED BY <3>1
  <2> QED BY <2>1, <2>2
<1>2. CASE ~HangUpNext
  <2>1. PICK w \in Party : Moves(w)
    BY <1>2, StepMoves, SMT DEF Party
  <2>2. lsn.pc = "off" /\ lsn'.pc = "off"
    BY NobodyListens DEF ClientDialsFirst
  <2>3. Phase[w] = "none" /\ Phase'[w] = "none"
    BY <2>2, SMT DEF Phase, Party, OutHas, LsnHas
  <2> QED BY <2>1, <2>3, SMT DEF Moves, Opens, Closes, Publishes, Spawns, Points, Goes
<1> QED BY <1>1, <1>2

\* What is loaded is the number of the call.
LEMMA SentInductive ==
  ASSUME TypeOK, ~IsServer, ~Collision, Carried, ClientDialsFirst, SentToCall, [Next]_vars
  PROVE  SentToCall'
<1> SUFFICES ASSUME out'.pc = "send"
             PROVE  /\ out'.fd \in Fd
                    /\ \A i \in 1..Len(tx') : IsLastConnect(i)' /\ tx'[i].conn # NoConn =>
                         fdTab'[out'.fd] \in {NoConn, tx'[i].conn}
  BY DEF SentToCall
<1>0. /\ out \in OutType /\ linkFd \in [Link -> Fd \cup {NoFd}] /\ NoFd \notin Fd
      /\ fdTab \in [Fd -> Conn \cup {NoConn}]
  BY Apartness, Zenon DEF TypeOK
\* It was loaded before.
<1>1. CASE UNCHANGED out
  <2>1. /\ out.pc = "send" /\ out.fd \in Fd
        /\ \A i \in 1..Len(tx) : IsLastConnect(i) /\ tx[i].conn # NoConn =>
             fdTab[out.fd] \in {NoConn, tx[i].conn}
    BY <1>1 DEF SentToCall
  <2>2. fdTab'[out.fd] \in {fdTab[out.fd], NoConn}
    BY <1>1, <2>1, LoadedStays
  <2>3. SameCall
    <3>1. ASSUME NEW t \in Conn, RecvNext(t) PROVE SameCall
      <4>1. ThreadMoves(t)
        BY <3>1, RecvMoves
      <4>2. UNCHANGED tx \/ Enqueue("DATA", rcv[t].sel, rcv[t].n)
        BY <4>1, Zenon DEF ThreadMoves, Copies, Ends, LooksUp, Rests, ReadsOne, Passes, Sends
      <4>3. "DATA" # "CONNECT"
        OBVIOUS
      <4> QED BY <4>2, <4>3, OtherPieces
    <3>2. CASE ~\E t \in Conn : RecvNext(t)
      <4>1. ~Telling
        BY <2>1, SMT DEF Telling
      <4>2. \/ UNCHANGED tx
            \/ \E code, c, n : code \notin {"CONNECT", "DATA"} /\ Enqueue(code, c, n)
        BY <3>2, <4>1, OtherCodes
      <4>3. ASSUME NEW code, NEW c, NEW n, code \notin {"CONNECT", "DATA"}, Enqueue(code, c, n)
            PROVE  SameCall
        <5>1. code # "CONNECT"
          BY <4>3
        <5> QED BY <4>3, <5>1, OtherPieces
      <4> QED BY <4>2, <4>3, OtherPieces
    <3> QED BY <3>1, <3>2
  <2>4. ASSUME NEW i \in 1..Len(tx'), IsLastConnect(i)', tx'[i].conn # NoConn
        PROVE  fdTab'[out.fd] \in {NoConn, tx'[i].conn}
    <3>1. i \in 1..Len(tx) /\ IsLastConnect(i) /\ tx'[i] = tx[i]
      BY <2>3, <2>4, Zenon DEF SameCall
    <3>2. fdTab[out.fd] \in {NoConn, tx[i].conn}
      BY <2>1, <2>4, <3>1, Zenon
    <3> QED BY <2>2, <3>1, <3>2
  <2> QED BY <1>1, <2>1, <2>4, Zenon
\* It is loaded now, and there is one link.
<1>2. CASE out' # out
  <2>1. BulkOut
    <3>1. ASSUME NEW p \in Packets, HostPacket(p) PROVE FALSE
      <4>1. out'.pc = "offline"
        BY <1>0, <3>1, Zenon DEF HostPacket, OutType
      <4> QED BY <4>1
    <3> QED BY <1>2, <3>1, OutOwner DEF BulkOutNext
  <2>2. Route
    <3>1. ASSUME TakeLine \/ ClearBuffer \/ (PtyConnect \/ setupISP)
          PROVE  out'.pc # "send"
      <4>1. \/ out'.pc \in {"echo", "cmd", "online", "publish", "reply"}
            \/ out'.pc = out.pc /\ out.pc = "offline"
        BY <1>0, <3>1, Zenon DEF TakeLine, ClearBuffer, PtyConnect, PtyOpened, PtyFailed, setupISP, OutType
      <4> QED BY <4>1, SMT
    <3>2. ASSUME \/ OfflineDone \/ AtEcho \/ AtExt \/ AtPlain \/ AtAnswer \/ AtPpp \/ AtNoSock
                 \/ AtReply \/ AtRaise \/ OnlineDone
          PROVE  out'.pc # "send"
      <4>1. out'.pc \in {"online", "cmd", "offline", "reply", "pty", "raise", "read"}
        BY <1>0, <3>2, Zenon DEF OfflineDone, AtEcho, AtExt, AtPlain, AtAnswer, AtPpp, AtNoSock,
           AtReply, AtRaise, OnlineDone, OutType
      <4> QED BY <4>1, SMT
    <3>3. ASSUME AtDial PROVE out'.pc # "send"
      <4>1. out' = [out EXCEPT !.pc = "socket"]
        BY <1>2, <3>3, Zenon DEF AtDial
      <4> QED BY <1>0, <4>1, SMT DEF OutType
    <3>4. ASSUME SockConnect \/ ConnectTail \/ SendWrite
          PROVE  out'.pc # "send"
      <4>1. out'.pc \in {"connect", "publish", "reply", "spawn", "pointer", "isp", "sent"}
        BY <1>0, <3>4, Zenon DEF SockConnect, SockSocket, SockConnected, SockRefused, ConnectTail,
           ConnectPublish, ConnectSpawn, ConnectPointer, SendWrite, OutType
      <4> QED BY <4>1, SMT
    <3> QED BY <2>1, <3>1, <3>2, <3>3, <3>4, Zenon DEF BulkOut
  <2>3. connected /\ UNCHANGED <<tx, fdTab>>
    BY <2>2, Zenon DEF Route, ctxVars, linkVars
  <2>4. hang.pc = "idle"
    BY <2>3 DEF Carried, Rising
  <2>5. PICK k \in Link : SendLoad(k)
    <3>1. out' # [out EXCEPT !.pc = "sent"]
      BY <1>0, Zenon DEF OutType
    <3> QED BY <2>2, <3>1, SMT DEF Route, Link
  <2>6. out'.fd = linkFd[k] /\ linkFd[k] # NoFd /\ linkFd[k] \in Fd
    <3>1. out' = [out EXCEPT !.pc = IF linkFd[k] = NoFd THEN "sent" ELSE "send", !.fd = linkFd[k]]
      BY <2>5, Zenon DEF SendLoad
    <3>2. /\ out'.fd = linkFd[k]
          /\ out'.pc = IF linkFd[k] = NoFd THEN "sent" ELSE "send"
      BY <1>0, <3>1, Zenon DEF OutType
    <3> QED BY <1>0, <3>2, SMT
  <2>7. ASSUME NEW i \in 1..Len(tx), IsLastConnect(i), tx[i].conn # NoConn
        PROVE  fdTab[linkFd[k]] = tx[i].conn
    <3>1. PICK m \in Link : linkFd[m] \in Fd /\ fdTab[linkFd[m]] = tx[i].conn
      BY <2>3, <2>7, Zenon DEF Carried, Rising, OnLine
    <3>2. \E h \in Link : \A j \in Link \ {h} : linkFd[j] = NoFd
      BY <2>4 DEF ClientDialsFirst
    <3>3. m = k
      BY <1>0, <2>6, <3>1, <3>2, Zenon
    <3> QED BY <3>1, <3>3
  <2>8. \A i \in 1..Len(tx') : IsLastConnect(i)' => i \in 1..Len(tx) /\ IsLastConnect(i) /\ tx'[i] = tx[i]
    BY <2>3, OtherPieces DEF SameCall
  <2> QED BY <2>3, <2>6, <2>7, <2>8, Zenon
<1> QED BY <1>1, <1>2

\* The payload of a player who dials is written to the connection of the call
\* or nowhere, in every state until there is a collision.
THEOREM CallHearsItsHost ==
  ASSUME ~IsServer
  PROVE  Spec => []PayloadToItsCall
<1>1. Init => SentToCall
  <2>1. Init => out.pc = "read"
    BY SMT DEF Init
  <2> QED BY <2>1 DEF SentToCall
<1>2. /\ TypeOK /\ Undisturbed /\ (~collided => Carried) /\ (~collided => OneLink)
      /\ (~collided => SentToCall) /\ [Next]_vars
      => (~collided' => SentToCall')
  <2> SUFFICES ASSUME TypeOK, Undisturbed, ~collided => Carried, ~collided => OneLink,
                      ~collided => SentToCall, [Next]_vars, ~collided'
               PROVE  SentToCall'
    OBVIOUS
  <2>1. Ghost \/ UNCHANGED collided
    BY Zenon DEF vars, Next, HangUpNext, BulkOutNext, ListenNext, RecvNext, HostNext,
       CallerNext, AcceptFails, FarEndNext, WaitForOutside
  <2>2. ~collided
    BY <2>1, Zenon DEF Ghost, TypeOK
  <2> QED BY <2>2, SentInductive DEF Undisturbed, OneLink
<1>3. (~collided => SentToCall) => PayloadToItsCall
  BY Zenon DEF SentToCall, PayloadToItsCall
<1> QED BY <1>1, <1>2, <1>3, TypeCorrect, StaysUndisturbed, StaysCarried, StaysOneLink, PTL DEF Spec

=============================================================================
