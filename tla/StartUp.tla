------------------------------- MODULE StartUp -------------------------------
(***************************************************************************)
(* main() up to its event loop: the options and the registry of modems,    *)
(* the choice between socket and PTY mode, the construction of tcp_sock.   *)
(*                                                                         *)
(* In server mode the constructor starts the listen thread, and main()     *)
(* tells tcp_sock its two callbacks afterwards.  Until then the pointers   *)
(* have no value, and the process dies of a call through one: of the line  *)
(* as CallSession has it, the steps that call are here, in coarse form.    *)
(***************************************************************************)
EXTENDS DialString

CONSTANTS
  CommandLines,      \* the command lines the program may be started with
  MaxCallers         \* callers that arrive at the listening socket

Registry == {"Lucent", "Omron", "OnlineStation", "SmartSCM"}

Option == [opt : {"m"}, name : STRING] \cup [opt : {"s", "v", "h", "?"}]
\* form: how the address is written; ip, or number for a dashed one.
IpArgument == [form : {"none", "word"}]
              \cup [form : {"dotted"}, ip : Octets]
              \cup [form : {"dashed"}, number : DialText]

ASSUME StartUpAssumption ==
  /\ \A c \in CommandLines :
       c.opts \in Seq(Option) /\ c.ip \in IpArgument /\ c.port \in Int
  /\ MaxCallers \in Nat

VARIABLES
  cmdline,           \* how the program was started
  main,              \* the main thread: pc, options not looked at yet, is_server
  instance,          \* getInstance()'s instance: its name, which one it is
  current_modem,     \* ctx.current_modem
  sock,              \* the tcp_sock: where it calls, which callbacks it has
  lsn,               \* the listen thread: pc, callers so far
  link,              \* who is on the line
  rcv,               \* the receive thread
  died               \* what terminated the process, "no" while it runs

startVars == <<cmdline, main, instance, current_modem>>
lineVars == <<lsn, link, rcv>>

NoModem == [name |-> "none", nth |-> 0]
Nowhere == [ip |-> <<>>, port |-> 0]
NoSock == [exists |-> FALSE, addr |-> Nowhere, ring |-> FALSE, recv |-> FALSE]
INADDR_NONE == <<255, 255, 255, 255>>

Init ==
  /\ cmdline \in CommandLines
  /\ main = [pc |-> "options", opts |-> cmdline.opts, is_server |-> FALSE]
  /\ instance = NoModem /\ current_modem = NoModem
  /\ sock = NoSock
  /\ lsn = [pc |-> "off", callers |-> 0] /\ link = "none" /\ rcv = "none"
  /\ died = "no"

-----------------------------------------------------------------------------
(* Options and registry.                                                   *)

\* Mutant: the instance that is there is returned for any name.
InstanceFirst(n) == IF instance # NoModem THEN instance
                    ELSE [name |-> n, nth |-> 1]

\* getInstance() of a known name: the instance that is there when it has that
\* name, else a new one in place of it.
Instance(n) == IF instance.name = n THEN instance
               ELSE [name |-> n, nth |-> instance.nth + 1]

OptionModel ==
  /\ main.pc = "options" /\ main.opts # <<>> /\ Head(main.opts).opt = "m"
  /\ LET n == Head(main.opts).name
     IN  IF n \in Registry
         THEN /\ instance' = Instance(n) /\ current_modem' = Instance(n)
              /\ main' = [main EXCEPT !.opts = Tail(@)]
         ELSE /\ current_modem' = NoModem /\ UNCHANGED instance
              /\ main' = [main EXCEPT !.pc = "exit"]
  /\ UNCHANGED <<cmdline, sock, lineVars, died>>

OptionOther ==
  /\ main.pc = "options" /\ main.opts # <<>> /\ Head(main.opts).opt # "m"
  /\ main' = IF Head(main.opts).opt \in {"h", "?"} THEN [main EXCEPT !.pc = "exit"]
             ELSE [main EXCEPT !.opts = Tail(@),
                               !.is_server = @ \/ Head(main.opts).opt = "s"]
  /\ UNCHANGED <<cmdline, instance, current_modem, sock, lineVars, died>>

\* Without -m the modem is Omron's.
OptionsDone ==
  /\ main.pc = "options" /\ main.opts = <<>>
  /\ main' = [main EXCEPT !.pc = "usb"]
  /\ IF current_modem = NoModem
     THEN instance' = Instance("Omron") /\ current_modem' = Instance("Omron")
     ELSE UNCHANGED <<instance, current_modem>>
  /\ UNCHANGED <<cmdline, sock, lineVars, died>>

-----------------------------------------------------------------------------
(* The gadget and the links.                                               *)

\* The gadget is opened, initialised and run, or one of the calls throws;
\* pty_dev is made and told its callback before anyone can use it.
MakeUsbAndPty ==
  /\ main.pc = "usb"
  /\ \/ main' = [main EXCEPT !.pc = "sock"] /\ UNCHANGED died
     \/ died' = "usb" /\ UNCHANGED main
  /\ UNCHANGED <<cmdline, instance, current_modem, sock, lineVars>>

\* Either notation makes the first argument an address ...
LooksLikeAddress(a) ==
  \/ a.form = "dashed" /\ ScansToAddress(a.number.groups, a.number.port)
  \/ a.form = "dotted" /\ a.ip # INADDR_NONE
\* ... but the constructor gives it to inet_addr(), which knows one.
inet_addr(a) == IF a.form = "dotted" THEN a.ip ELSE INADDR_NONE

\* ip_addr != nullptr && port != -1
SocketMode(c) == LooksLikeAddress(c.ip) /\ c.port # NoPort

uint16_t(n) == n % 65536
Configured(c) == [ip |-> inet_addr(c.ip), port |-> uint16_t(c.port)]

PtyModeOnly ==
  /\ main.pc = "sock" /\ ~SocketMode(cmdline)
  /\ main' = [main EXCEPT !.pc = "serve"]
  /\ UNCHANGED <<cmdline, instance, current_modem, sock, lineVars, died>>

\* The constructor: a server binds, or throws, and has its listen thread.
ConstructSock ==
  /\ main.pc = "sock" /\ SocketMode(cmdline)
  /\ \/ /\ sock' = [NoSock EXCEPT !.exists = TRUE, !.addr = Configured(cmdline)]
        /\ lsn' = [lsn EXCEPT !.pc = IF main.is_server THEN "accept" ELSE "off"]
        /\ main' = [main EXCEPT !.pc = "ring_callback"]
        /\ UNCHANGED died
     \/ /\ main.is_server
        /\ died' = "bind" /\ UNCHANGED <<main, sock, lsn>>
  /\ UNCHANGED <<cmdline, instance, current_modem, link, rcv>>

\* Mutant: only a server is told.
SetRingCallbackServer ==
  /\ main.pc = "ring_callback"
  /\ sock' = [sock EXCEPT !.ring = TRUE]
  /\ main' = [main EXCEPT !.pc = IF main.is_server THEN "recv_callback" ELSE "serve"]
  /\ UNCHANGED <<cmdline, instance, current_modem, lineVars, died>>

SetRingCallback ==
  /\ main.pc = "ring_callback"
  /\ sock' = [sock EXCEPT !.ring = TRUE]
  /\ main' = [main EXCEPT !.pc = "recv_callback"]
  /\ UNCHANGED <<cmdline, instance, current_modem, lineVars, died>>

SetRecvCallback ==
  /\ main.pc = "recv_callback"
  /\ sock' = [sock EXCEPT !.recv = TRUE]
  /\ main' = [main EXCEPT !.pc = "serve"]
  /\ UNCHANGED <<cmdline, instance, current_modem, lineVars, died>>

MainThread ==
  \/ OptionModel
  \/ OptionOther
  \/ OptionsDone
  \/ MakeUsbAndPty
  \/ PtyModeOnly
  \/ ConstructSock
  \/ SetRingCallback
  \/ SetRecvCallback

-----------------------------------------------------------------------------
(* The line.                                                               *)

\* accept(): a caller gets the line if it is free.
AcceptCaller ==
  /\ lsn.pc = "accept" /\ lsn.callers < MaxCallers
  /\ link' = IF link = "none" THEN "caller" ELSE link
  /\ lsn' = [pc |-> IF link = "none" THEN "ring" ELSE "accept", callers |-> lsn.callers + 1]
  /\ UNCHANGED <<startVars, sock, rcv, died>>

\* (*ring_callback)(), and the receive thread.
RingCaller ==
  /\ lsn.pc = "ring"
  /\ IF sock.ring
     THEN /\ lsn' = [lsn EXCEPT !.pc = "accept"]
          /\ rcv' = "select" /\ UNCHANGED died
     ELSE died' = "callback" /\ UNCHANGED <<lsn, rcv>>
  /\ UNCHANGED <<startVars, sock, link>>

ReceivePayload ==
  /\ rcv = "select" /\ link # "none"
  /\ rcv' = "payload"
  /\ UNCHANGED <<startVars, sock, lsn, link, died>>

\* (*recv_callback)(buf, len)
DeliverPayload ==
  /\ rcv = "payload"
  /\ IF sock.recv THEN rcv' = "select" /\ UNCHANGED died
     ELSE died' = "callback" /\ UNCHANGED rcv
  /\ UNCHANGED <<startVars, sock, lsn, link>>

\* handle_disconnect(), from the event loop.
HangUp ==
  /\ main.pc = "serve" /\ link # "none" /\ lsn.pc # "ring"
  /\ link' = "none" /\ rcv' = "none"
  /\ UNCHANGED <<startVars, sock, lsn, died>>

Line == AcceptCaller \/ RingCaller \/ ReceivePayload \/ DeliverPayload \/ HangUp

-----------------------------------------------------------------------------
(* Properties.                                                             *)

\* The last model that was asked for.
Asked(c) ==
  LET asked == {i \in DOMAIN c.opts : c.opts[i].opt = "m"}
  IN  IF asked = {} THEN "Omron"
      ELSE c.opts[CHOOSE i \in asked : \A j \in asked : j <= i].name

\* When the event loop begins the program is what its command line asked for:
\* the modem is the last one named, and is the registry's instance and none
\* that was deleted; there is a socket exactly when an address and a port
\* were given; a server listens, and only a server.
StartedAsAsked ==
  main.pc = "serve" =>
    /\ current_modem = instance /\ instance.name = Asked(cmdline)
    /\ sock.exists <=> SocketMode(cmdline)
    /\ lsn.pc # "off" <=> sock.exists /\ \E i \in DOMAIN cmdline.opts :
                                           cmdline.opts[i].opt = "s"

\* A callback is called before it was set only for a caller who came while
\* main() was still on its way to the event loop: once it serves, no call
\* that is answered or dialled can end the process in this way.
CallbacksSetWhenServing == died = "callback" => main.pc # "serve"

=============================================================================
