----------------------------- MODULE CallSession -----------------------------
(***************************************************************************)
(* A call as the USB host sees it: the bulk OUT thread of a modem, which   *)
(* runs the AT commands and forwards payload, and the thread that drops    *)
(* the line when the host lowers DTR, working on the same two links while  *)
(* receive threads and the listen thread run beside them.                  *)
(*                                                                         *)
(* The four modems share this code: the loops of their bulk OUT threads    *)
(* are alike, and each decodes its own on-hook request into                *)
(* handle_disconnect().                                                    *)
(*                                                                         *)
(* What the host sends is a sequence of tokens: a line ended by a carriage *)
(* return, or "data", payload without one.                                 *)
(***************************************************************************)
EXTENDS TcpSock, PtyDev

CONSTANTS
  HasSock,           \* an address was given: ctx.sock is not null
  ExtReply,          \* process_at_ext(): its lines and their result codes
  Packets,           \* the bulk OUT transfers the host may send
  Patient,           \* whether the host waits for one request to be done
  MaxPackets,        \* how many transfers it sends
  MaxHooks           \* how often it goes on-hook

PppLines == {"ATD100", "ATD168"}              \* isPPPNumber()
DialLines == {"ATDnum", "ATD"}                \* any other dial string
PlainLines == {"AT", "ATZ", "ATE0", "garbled"}
Lines == PppLines \cup DialLines \cup PlainLines \cup {"ATA", "ATI", "AT+GCI?"}
Token == (Lines \ {"garbled"}) \cup {"CR", "data"}

ASSUME SessionAssumption ==
  /\ HasSock \in BOOLEAN /\ (IsServer => HasSock)
  /\ Patient \in BOOLEAN
  /\ \E L \in SUBSET {"ATI", "AT+GCI?"} : ExtReply \in [L -> {"OK", "ERROR"}]
  /\ Packets \subseteq Seq(Token)
  /\ MaxPackets \in Nat /\ MaxHooks \in Nat

VARIABLES
  buffer,            \* what the bulk OUT thread has not worked off yet
  echo,              \* Modem::echo
  used,              \* how much of the bounds is used up
  collided           \* history: two parties were in the same link at once

sessionVars == <<buffer, echo, used>>
vars == <<ctxVars, linkVars, hang, out, aborted, lsn, sessionVars, collided>>

Init ==
  /\ CtxInit /\ LinkInit /\ SockInit
  /\ out = [pc |-> "read", line |-> "none", reply |-> "none",
            link |-> "sock", fd |-> NoFd, conn |-> NoConn]
  /\ buffer = <<>> /\ echo = FALSE
  /\ used = [packets |-> 0, hooks |-> 0]
  /\ collided = FALSE

-----------------------------------------------------------------------------
(* The host.                                                               *)

LineEnds(b) == {i \in 1..Len(b) : b[i] # "data"}
Executing == out.pc \in {"echo", "cmd", "socket", "connect", "pty", "publish",
                         "spawn", "pointer", "isp", "reply", "raise"}

\* A patient host sends commands off-line and payload on-line, and goes
\* on-hook only when no command of its own is waiting for a result code.
MaySend(p) == Patient => /\ hang.pc = "idle"
                         /\ connected <=> LineEnds(p) = {}
MayHangUp == Patient => ~Executing /\ LineEnds(buffer) = {}

\* ep_read() returns; the transfer is appended to the buffer.
HostPacket(p) ==
  /\ out.pc = "read"
  /\ used.packets < MaxPackets
  /\ MaySend(p)
  /\ buffer' = buffer \o p
  /\ out' = [out EXCEPT !.pc = "offline"]
  /\ used' = [used EXCEPT !.packets = @ + 1]
  /\ UNCHANGED <<ctxVars, linkVars, hang, lsn, echo, aborted>>

\* Mutant: the carrier is left up.
OnHookKeepsCarrier ==
  /\ hang.pc = "idle"
  /\ used.hooks < MaxHooks
  /\ MayHangUp
  /\ hang' = [hang EXCEPT !.pc = "check"]
  /\ used' = [used EXCEPT !.hooks = @ + 1]
  /\ UNCHANGED <<ctxVars, linkVars, out, lsn, buffer, echo, aborted>>

\* handle_disconnect() begins: the carrier drops before the links do.
OnHook ==
  /\ hang.pc = "idle"
  /\ used.hooks < MaxHooks
  /\ MayHangUp
  /\ connected' = FALSE
  /\ hang' = [hang EXCEPT !.pc = "check"]
  /\ used' = [used EXCEPT !.hooks = @ + 1]
  /\ UNCHANGED <<tx, linkVars, out, lsn, buffer, echo, aborted>>

-----------------------------------------------------------------------------
(* The bulk OUT thread, off-line loop.                                     *)

OfflineDone ==
  /\ out.pc = "offline"
  /\ connected \/ LineEnds(buffer) = {}
  /\ out' = [out EXCEPT !.pc = "online"]
  /\ UNCHANGED <<ctxVars, linkVars, hang, lsn, sessionVars, aborted>>

\* The first line is cut off the buffer.  Payload left in front of it
\* becomes part of it, and what it said is lost.
TakeLine ==
  /\ out.pc = "offline"
  /\ ~connected
  /\ \E i \in LineEnds(buffer) :
       /\ \A j \in LineEnds(buffer) : i <= j
       /\ LET line == IF i = 1 THEN buffer[1] ELSE "garbled"
          IN  out' = IF line = "CR" THEN out
                     ELSE [out EXCEPT !.line = line,
                                      !.pc = IF echo THEN "echo" ELSE "cmd"]
       /\ buffer' = SubSeq(buffer, i + 1, Len(buffer))
  /\ UNCHANGED <<ctxVars, linkVars, hang, lsn, echo, used, aborted>>

-----------------------------------------------------------------------------
(* process_at().                                                           *)

AtEcho ==
  /\ out.pc = "echo"
  /\ Enqueue("ECHO", NoConn, 0)
  /\ out' = [out EXCEPT !.pc = "cmd"]
  /\ UNCHANGED <<connected, linkVars, hang, lsn, sessionVars, aborted>>

Cmd == out.pc = "cmd" /\ out.line \notin DOMAIN ExtReply

\* Mutant: a line that process_at_ext() answered is answered again.
AtExtFallsThrough ==
  /\ out.pc = "cmd" /\ out.line \in DOMAIN ExtReply
  /\ Enqueue(ExtReply[out.line], NoConn, 0)
  /\ out' = [out EXCEPT !.pc = "reply", !.reply = "OK"]
  /\ UNCHANGED <<connected, linkVars, hang, lsn, sessionVars, aborted>>

\* process_at_ext() answers by itself.
AtExt ==
  /\ out.pc = "cmd" /\ out.line \in DOMAIN ExtReply
  /\ Enqueue(ExtReply[out.line], NoConn, 0)
  /\ out' = [out EXCEPT !.pc = "offline", !.line = "none"]
  /\ UNCHANGED <<connected, linkVars, hang, lsn, sessionVars, aborted>>

AtPlain ==
  /\ Cmd /\ out.line \notin PppLines \cup DialLines \cup {"ATA"}
  /\ echo' = IF out.line = "ATZ" THEN TRUE
             ELSE IF out.line = "ATE0" THEN FALSE ELSE echo
  /\ out' = [out EXCEPT !.pc = "reply", !.reply = "OK"]
  /\ UNCHANGED <<ctxVars, linkVars, hang, lsn, buffer, used, aborted>>

\* ATA announces a connection whether or not anyone called.  out.conn only
\* remembers which call it answers.
AtAnswer ==
  /\ Cmd /\ out.line = "ATA"
  /\ out' = [out EXCEPT !.pc = "reply", !.reply = "CONNECT",
                        !.conn = FileOf(linkFd["sock"])]
  /\ UNCHANGED <<ctxVars, linkVars, hang, lsn, sessionVars, aborted>>

AtPpp ==
  /\ Cmd /\ out.line \in PppLines
  /\ out' = [out EXCEPT !.pc = "pty"]
  /\ UNCHANGED <<ctxVars, linkVars, hang, lsn, sessionVars, aborted>>

AtNoSock ==
  /\ Cmd /\ out.line \in DialLines /\ ~HasSock
  /\ out' = [out EXCEPT !.pc = "reply", !.reply = "BUSY"]
  /\ UNCHANGED <<ctxVars, linkVars, hang, lsn, sessionVars, aborted>>

\* line.substr(4) of a bare "ATD" throws std::out_of_range, and nobody
\* catches it on this thread.
AtDial ==
  /\ Cmd /\ out.line \in DialLines /\ HasSock
  /\ IF out.line = "ATD"
     THEN aborted' = "out_of_range" /\ UNCHANGED out
     ELSE out' = [out EXCEPT !.pc = "socket"] /\ UNCHANGED aborted
  /\ UNCHANGED <<ctxVars, linkVars, hang, lsn, sessionVars>>

\* Mutant: the carrier is raised behind every answer.
AtReplyRaises ==
  /\ out.pc = "reply"
  /\ Enqueue(out.reply, out.conn, 0)
  /\ out' = [out EXCEPT !.line = "none", !.reply = "none", !.conn = NoConn, !.pc = "raise"]
  /\ UNCHANGED <<connected, linkVars, hang, lsn, sessionVars, aborted>>

AtReply ==
  /\ out.pc = "reply"
  /\ Enqueue(out.reply, out.conn, 0)
  /\ out' = [out EXCEPT !.line = "none", !.reply = "none", !.conn = NoConn,
                        !.pc = IF out.reply = "CONNECT" THEN "raise" ELSE "offline"]
  /\ UNCHANGED <<connected, linkVars, hang, lsn, sessionVars, aborted>>

\* The carrier rises after the host was told.
AtRaise ==
  /\ out.pc = "raise"
  /\ connected' = TRUE
  /\ out' = [out EXCEPT !.pc = "offline"]
  /\ UNCHANGED <<tx, linkVars, hang, lsn, sessionVars, aborted>>

-----------------------------------------------------------------------------
(* The bulk OUT thread, on-line loop.                                      *)

OnlineDone ==
  /\ out.pc = "online"
  /\ ~connected \/ buffer = <<>>
  /\ out' = [out EXCEPT !.pc = "read"]
  /\ UNCHANGED <<ctxVars, linkVars, hang, lsn, sessionVars, aborted>>

\* An open pseudo-terminal is preferred to the socket.
Route ==
  /\ out.pc = "online"
  /\ connected /\ buffer # <<>>
  /\ IF linkFd["pty"] # NoFd THEN SendLoad("pty")
     ELSE IF HasSock THEN SendLoad("sock")
     ELSE out' = [out EXCEPT !.pc = "sent"]
  /\ UNCHANGED <<ctxVars, linkVars, hang, lsn, sessionVars, aborted>>

\* Sent or not, the buffer is cleared.
ClearBuffer ==
  /\ out.pc = "sent"
  /\ buffer' = <<>>
  /\ out' = [out EXCEPT !.pc = "online"]
  /\ UNCHANGED <<ctxVars, linkVars, hang, lsn, echo, used, aborted>>

BulkOut ==
  \/ OfflineDone
  \/ TakeLine
  \/ AtEcho
  \/ AtExt
  \/ AtPlain
  \/ AtAnswer
  \/ AtPpp
  \/ AtNoSock
  \/ AtDial
  \/ AtReply
  \/ AtRaise
  \/ OnlineDone
  \/ Route
  \/ ClearBuffer
  \/ SockConnect /\ UNCHANGED sessionVars
  \/ PtyConnect /\ UNCHANGED <<lsn, sessionVars>>
  \/ setupISP /\ UNCHANGED <<lsn, sessionVars>>
  \/ ConnectTail /\ UNCHANGED <<lsn, sessionVars>>
  \/ SendWrite /\ UNCHANGED <<lsn, sessionVars>>

-----------------------------------------------------------------------------
(* The specification.                                                      *)

\* A link is being brought up for the host ...
SettingUp ==
  \/ out.pc \in {"connect", "publish", "spawn", "pointer", "isp"}
  \/ out.pc \in {"reply", "raise"} /\ (out.reply = "CONNECT" \/ out.pc = "raise")
\* ... or for a caller.
TakingCall == lsn.pc \in {"publish", "ring", "spawn", "pointer"}

\* A hang-up works on the links while one is brought up, or a link is about
\* to be published over one that is there.
Collision ==
  \/ hang.pc # "idle" /\ (SettingUp \/ TakingCall)
  \/ out.pc = "publish" /\ linkFd[out.link] # NoFd
  \/ lsn.pc = "publish" /\ linkFd["sock"] # NoFd

Running == aborted = "no"
Ghost == collided' = (collided \/ Collision')

HostStep == OnHook \/ \E p \in Packets : HostPacket(p)
FarEndStep(c) == PeerSend(c) \/ PeerClose(c) \/ SlaveOpen(c)

\* Every thread waits for someone outside the process, or the process died.
Quiet == out.pc = "read" /\ hang.pc = "idle" /\ lsn.pc \in {"off", "accept"}

HangUpNext == Running /\ Disconnect /\ UNCHANGED <<lsn, sessionVars>> /\ Ghost
BulkOutNext == Running /\ BulkOut /\ Ghost
ListenNext == Running /\ ListenTail /\ UNCHANGED sessionVars /\ Ghost
RecvNext(t) == Running /\ RecvThread(t) /\ UNCHANGED <<lsn, sessionVars>> /\ Ghost
HostNext == Running /\ HostStep /\ Ghost
CallerNext == Running /\ ListenAccept /\ UNCHANGED sessionVars /\ Ghost
AcceptFails == Running /\ ListenFails /\ UNCHANGED sessionVars /\ Ghost
FarEndNext(c) == Running /\ FarEndStep(c) /\ UNCHANGED <<lsn, sessionVars>> /\ Ghost
WaitForOutside == (Running => Quiet) /\ UNCHANGED vars

Next ==
  \/ HangUpNext
  \/ BulkOutNext
  \/ ListenNext
  \/ \E t \in Conn : RecvNext(t)
  \/ HostNext
  \/ CallerNext
  \/ AcceptFails
  \/ \E c \in Conn : FarEndNext(c)
  \/ WaitForOutside

Spec == Init /\ [][Next]_vars

\* The scheduler runs every thread that can run.  ::connect() returns, and
\* so do write() and the commands of setupISP(): nothing is assumed of the
\* host, of the callers or of the far ends.
Fairness ==
  /\ WF_vars(HangUpNext)
  /\ WF_vars(BulkOutNext)
  /\ WF_vars(ListenNext)
  /\ \A t \in Conn : WF_vars(RecvNext(t))

FairSpec == Spec /\ Fairness

-----------------------------------------------------------------------------
(* Properties.                                                             *)

OutPc == {"read", "offline", "echo", "cmd", "socket", "connect", "pty",
          "publish", "spawn", "pointer", "isp", "reply", "raise", "online",
          "send", "sent"}
OutType == [pc : OutPc, line : Lines \cup {"none"},
            reply : ResultCode \cup {"none"}, link : Link,
            fd : Fd \cup {NoFd}, conn : Conn \cup {NoConn}]
HangType == [pc : {"idle", "check", "close", "zero", "thread", "join",
                   "delete", "null"},
             link : Link, fd : Fd \cup {NoFd}, thr : Conn \cup {NoConn}]
LsnType == [pc : {"off", "accept", "check", "refuse", "publish", "ring",
                  "spawn", "pointer"},
            fd : Fd \cup {NoFd}, conn : Conn \cup {NoConn}, callers : Nat]
ConnType == [link : Link \cup {"none"},
             peer : {"none", "connecting", "unopened", "open", "closed"},
             sent : Nat, read : Nat]
RcvType == [pc : {"none", "start", "select", "wait", "read", "recv",
                  "callback", "enqueue", "exit"},
            link : Link, fd : Fd \cup {NoFd},
            sel : Conn \cup {NoConn}, n : Nat,
            obj : {"none", "joinable", "joined", "deleted"}]

\* Every variable has its type.
TypeOK ==
  /\ connected \in BOOLEAN /\ tx \in Seq(Piece)
  /\ fdTab \in [Fd -> Conn \cup {NoConn}]
  /\ conns \in [Conn -> ConnType] /\ rcv \in [Conn -> RcvType]
  /\ linkFd \in [Link -> Fd \cup {NoFd}]
  /\ linkThr \in [Link -> Conn \cup {NoConn}]
  /\ hang \in HangType /\ out \in OutType /\ lsn \in LsnType
  /\ aborted \in {"no", "terminate", "out_of_range", "accept"}
  /\ buffer \in Seq(Token) /\ echo \in BOOLEAN
  /\ used \in [packets : Nat, hooks : Nat] /\ collided \in BOOLEAN

\* CONNECT is the last answer; only payload and rings came behind it.
Announced ==
  \E i \in 1..Len(tx) :
    /\ tx[i].code = "CONNECT"
    /\ \A j \in i + 1 .. Len(tx) : tx[j].code \in {"DATA", "RING"}

\* While the carrier is up, the last result code the host was sent is
\* CONNECT: the thread that raises the carrier (process_at) never announces
\* anything else in between, whatever the hang-up thread does.
ConnectAnnounced == connected => Announced

\* The session implements what HostView promises the host: a line is taken
\* only off-line, answered by exactly one result code, and the carrier rises
\* between its CONNECT and any later answer.
HostPhase == IF out.pc = "raise" THEN "announced"
             ELSE IF Executing THEN "executing" ELSE "command"
Host == INSTANCE HostView WITH phase <- HostPhase
HostPromise == Host!HostSpec

\* The call the host was last told of: its connection, NoConn for an ATA
\* that nobody had called for.
IsLastConnect(i) ==
  /\ tx[i].code = "CONNECT"
  /\ \A j \in i + 1 .. Len(tx) : tx[j].code # "CONNECT"

\* A carrier the host was shown for a connection has that connection under
\* it, until a hang-up: no interleaving of process_at, the listen thread and
\* handle_disconnect leaves a carrier without its link unless the hang-up
\* ran into the set-up.
CarrierHasLink ==
  connected /\ ~collided =>
    \A i \in 1..Len(tx) :
      IsLastConnect(i) /\ tx[i].conn # NoConn =>
        FileOf(linkFd[conns[tx[i].conn].link]) = tx[i].conn

\* No descriptor is ever closed twice, neither by disconnect() nor by the
\* listen thread nor by a failing connect(): a second close() would close
\* whatever got the number in between.  It holds through every collision.
NoDoubleClose ==
  /\ hang.pc = "close" => fdTab[hang.fd] # NoConn
  /\ out.pc = "connect" => fdTab[out.fd] = out.conn
  /\ lsn.pc = "refuse" => fdTab[lsn.fd] = lsn.conn

\* Without a collision nothing is lost track of: each open descriptor is
\* comm_fd, master_fd or in the hands of the thread that opened it, and each
\* std::thread that was not joined is the one recv_thread_ptr points to, or
\* about to be.
NothingLeaks ==
  ~collided =>
    /\ \A f \in Fd : fdTab[f] # NoConn =>
         \/ \E k \in Link : linkFd[k] = f
         \/ out.pc \in {"connect", "publish"} /\ out.fd = f
         \/ lsn.pc \in {"check", "refuse", "publish"} /\ lsn.fd = f
    /\ \A t \in Conn : rcv[t].obj = "joinable" =>
         \/ linkThr[rcv[t].link] = t
         \/ out.pc = "pointer" /\ out.conn = t
         \/ lsn.pc = "pointer" /\ lsn.conn = t

\* The process dies in ~thread() of a running receive thread only after a
\* hang-up ran into a link set-up.
TerminateNeedsCollision == aborted = "terminate" => collided

\* Payload reaches the host only inside the call it belongs to: after the
\* CONNECT of its connection and before the next one, with no piece missing
\* or out of order behind the first.
PayloadWithinCall ==
  ~collided =>
    \A j \in 1..Len(tx) : tx[j].code = "DATA" =>
      /\ \E i \in 1..j - 1 :
           /\ tx[i].code = "CONNECT" /\ tx[i].conn \in {tx[j].conn, NoConn}
           /\ \A k \in i + 1 .. j - 1 : tx[k].code # "CONNECT"
      /\ \A i \in 1..j - 1 : tx[i].code = "DATA" /\ tx[i].conn = tx[j].conn =>
           \/ tx[i].n = tx[j].n - 1
           \/ \E k \in i + 1 .. j - 1 : tx[k].code = "DATA" /\ tx[k].conn = tx[j].conn
                                        /\ tx[k].n = tx[j].n - 1

\* The host's payload is written to the connection of its call or nowhere:
\* the number send() loaded does not come to mean another connection before
\* it is written to.  It is said of a player that dials.  In server mode a
\* hang-up may close the number in between, and the listen thread may get it
\* for the next caller, who is then sent the payload.
PayloadToItsCall ==
  out.pc = "send" /\ ~collided =>
    \A i \in 1..Len(tx) :
      IsLastConnect(i) /\ tx[i].conn # NoConn =>
        fdTab[out.fd] \in {NoConn, tx[i].conn}

\* Someone has got on the line while handle_disconnect() is at its join(), and
\* the receive thread it joins takes the line for its own: its descriptor is
\* that of a party who is there, or is 0, read between two calls, and then it
\* waits at standard input.  Or it is in a recv() that was meant for the old
\* connection and got another one of the same number.
FarEndOpen(c) == c # NoConn /\ conns[c].peer = "open"
TakenOver ==
  /\ hang.pc = "join"
  /\ LET t == rcv[hang.thr]
     IN  \/ collided /\ linkFd[hang.link] # NoFd
            /\ (t.fd = NoFd \/ FarEndOpen(FileOf(t.fd)))
         \/ t.pc = "recv" /\ t.sel # hang.thr /\ FarEndOpen(t.sel)

\* handle_disconnect() gets to its end through every collision but this one:
\* the receive thread it joins notices that its link is gone, unless a caller
\* is taken in before it looks.  Then join() waits until he rings off, or for
\* good when the thread is at standard input.
HangUpEnds == hang.pc # "idle" ~> hang.pc = "idle" \/ ~Running \/ TakenOver

\* What the other player of the current call has sent is read, unless the
\* call ends first: no receive thread stops while its call goes on.
Live(c) == connected /\ \E k \in Link : FileOf(linkFd[k]) = c
PlayerHeard ==
  \A c \in Conn :
    (Live(c) /\ HasData(c) /\ conns[c].link = "sock")
      ~> (~HasData(c) \/ ~Live(c) \/ ~Running \/ collided)

\* The same for the program at the slave of a PPP call, as the README has it:
\* "Any program (such as minicom or socat) can then connect to that slave
\* device to exchange data with the emulator."  The receive thread has ended
\* with EIO once the first program closed the slave.
ProgramHeard ==
  \A c \in Conn :
    (Live(c) /\ HasData(c) /\ conns[c].link = "pty")
      ~> (~HasData(c) \/ ~Live(c) \/ ~Running \/ collided)

\* README: "ATD100 uses PTY while any other ATD address uses the TCP socket."
\* What the host receives in an ATD100 call comes from the pseudo-terminal
\* then.  A caller accepted meanwhile is heard in the middle of it.
PppCallHearsPtyOnly ==
  \A j \in 1..Len(tx) : tx[j].code = "DATA" =>
    \A i \in 1..j - 1 :
      /\ tx[i].code = "CONNECT" /\ tx[i].conn # NoConn
      /\ \A k \in i + 1 .. j - 1 : tx[k].code # "CONNECT"
      /\ conns[tx[i].conn].link = "pty"
      => conns[tx[j].conn].link = "pty"

=============================================================================
