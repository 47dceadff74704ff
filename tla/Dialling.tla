------------------------------- MODULE Dialling -------------------------------
(***************************************************************************)
(* Which address a dial string calls.  tcp_sock keeps one address: the     *)
(* constructor fills it in from the command line, each number that parses  *)
(* replaces it, and a number that does not is connected to whatever is     *)
(* there.  CallSession leaves the address out; whether somebody answers at *)
(* it is a choice here as it is there.                                     *)
(***************************************************************************)
EXTENDS StartUp

CONSTANTS
  Numbers,           \* the numbers the host may dial
  MaxDials           \* how many it dials

ASSUME DiallingAssumption == Numbers \subseteq DialText /\ MaxDials \in Nat

VARIABLE log         \* history: what was dialled, and the address connected to

vars == <<startVars, sock, lineVars, died, log>>

\* In place of an address: the call went to the pseudo-terminal.
ToPty == Nowhere

-----------------------------------------------------------------------------
(* process_at(), the branch of "ATD".  The host dials when the line is not *)
(* its own already.                                                        *)

MayDial(d) ==
  /\ main.pc = "serve" /\ link # "dialled"
  /\ Len(log) < MaxDials /\ d \in Numbers

Logged(d, a) == log' = Append(log, [dial |-> d, target |-> a])

DialPpp(d) ==
  /\ MayDial(d) /\ isPPPNumber(d)
  /\ Logged(d, ToPty)
  /\ UNCHANGED <<startVars, sock, lineVars, died>>

\* ctx.sock == nullptr: BUSY.
DialNoSock(d) ==
  /\ MayDial(d) /\ ~isPPPNumber(d) /\ ~sock.exists
  /\ UNCHANGED vars

\* line.substr(4) throws std::out_of_range.
DialBare(d) ==
  /\ MayDial(d) /\ sock.exists /\ IsBare(d)
  /\ died' = "substr"
  /\ UNCHANGED <<startVars, sock, lineVars, log>>

\* Mutant: the port of a number that does not parse is kept.
SetAddrPart(d) ==
  LET g == Substr4(d)
  IN  IF ScansToAddress(g, d.port) THEN ParsedAddress(g, d.port)
      ELSE [sock.addr EXCEPT !.port = TCP_DEFAULT_PORT]

\* set_addr() of a number that parses; one that does not leaves the address.
SetAddr(d) ==
  LET g == Substr4(d)
  IN  IF ScansToAddress(g, d.port) THEN ParsedAddress(g, d.port) ELSE sock.addr

\* connect(), whether or not there is an answer.
DialSock(d) ==
  /\ MayDial(d) /\ ~isPPPNumber(d) /\ sock.exists /\ ~IsBare(d)
  /\ sock' = [sock EXCEPT !.addr = SetAddr(d)]
  /\ Logged(d, SetAddr(d))
  /\ \/ link' = "dialled" /\ rcv' = "select"
     \/ UNCHANGED <<link, rcv>>
  /\ UNCHANGED <<startVars, lsn, died>>

Dial(d) == DialPpp(d) \/ DialNoSock(d) \/ DialBare(d) \/ DialSock(d)

-----------------------------------------------------------------------------
(* The specification.                                                      *)

DiallingInit == Init /\ log = <<>>

Running == died = "no" /\ main.pc # "exit"

Next ==
  \/ Running /\ (MainThread \/ Line) /\ UNCHANGED log
  \/ Running /\ \E d \in Numbers : Dial(d)
  \/ (Running => main.pc = "serve") /\ UNCHANGED vars

Spec == DiallingInit /\ [][Next]_vars

-----------------------------------------------------------------------------
(* Properties.                                                             *)

MainState == [pc : {"options", "usb", "sock", "ring_callback", "recv_callback",
                    "serve", "exit"},
              opts : Seq(Option), is_server : BOOLEAN]
ModemState == [name : Registry \cup {"none"}, nth : Nat]
SockState == [exists : BOOLEAN, addr : Address \cup {Nowhere},
              ring : BOOLEAN, recv : BOOLEAN]
ListenState == [pc : {"off", "accept", "ring"}, callers : Nat]
LogEntry == [dial : Numbers, target : Address \cup {ToPty}]

\* Every variable has its type; an address the program calls is always one:
\* four numbers of a byte and a port, whatever was typed.
TypeOK ==
  /\ cmdline \in CommandLines
  /\ main \in MainState /\ instance \in ModemState /\ current_modem \in ModemState
  /\ sock \in SockState /\ lsn \in ListenState
  /\ link \in {"none", "caller", "dialled"} /\ rcv \in {"none", "select", "payload"}
  /\ died \in {"no", "usb", "bind", "callback", "substr"}
  /\ log \in Seq(LogEntry)

\* What is read of a number: all of it behind T, P or a blank; without such a
\* mark its first digit is lost in the mark's place.
Heard(d) == Substr4(d)

\* A number as the comment at parse_address() has it, "000-000-000-000#00000";
\* further groups and the rest are not looked at.
IsNumber(d) ==
  /\ IF d.port = NoPort THEN Len(Heard(d)) >= 4
     ELSE Len(Heard(d)) = 4 /\ d.port \in Port \ {0}
  /\ \A i \in 1..4 : Heard(d)[i] \in Byte

\* The address it names.
Typed(d) == [ip   |-> [i \in 1..4 |-> Heard(d)[i]],
             port |-> IF d.port = NoPort THEN TCP_DEFAULT_PORT ELSE d.port]

\* Below 2^32, and behind a sign below 2^31, nothing wraps into another number.
IsPlain(d) ==
  /\ Heard(d) \in Seq(-(UInt \div 2) .. UInt - 1)
  /\ d.port < UInt

\* The first i numbers leave this address behind: the last of them that could
\* be read, or the address of the command line.
LeftBehind(i, address) ==
  \/ /\ \A j \in 1..i : ~IsNumber(log[j].dial)
     /\ address = Configured(cmdline)
  \/ \E j \in 1..i : /\ IsNumber(log[j].dial) /\ address = Typed(log[j].dial)
                     /\ \A k \in j + 1 .. i : ~IsNumber(log[k].dial)

PlainUpTo(i) == \A j \in 1..i : IsPlain(log[j].dial)

\* "ATD100", by tone, by pulse or as it stands.
IsAtd100(d) == d = [mark |-> d.mark, groups |-> <<100>>, port |-> NoPort, tail |-> "none"]
               /\ d.mark # "blank"

\* The i-th call, to d, may go to the address a, or to the pseudo-terminal.
GoesAsDialled(i, d, a) ==
  IF a = ToPty THEN d.groups \in {<<100>>, <<168>>} /\ d.port = NoPort
  ELSE ~IsAtd100(d) /\ (PlainUpTo(i) => LeftBehind(i, a))

\* The pseudo-terminal gets what README.md:95 sends there, ATD100, and besides
\* it only 100 and 168 with what isPPPNumber() strips.  Every other call goes
\* to the number that was dialled, less a first digit without a mark; one that
\* cannot be read calls the last one that could, or the address of the command
\* line, but never anything put together from two of them.  Addresses are only
\* spoken of while no number wraps, which takes ten digits or more.
CallsAsDialled ==
  \A i \in DOMAIN log : GoesAsDialled(i, log[i].dial, log[i].target)

=============================================================================
