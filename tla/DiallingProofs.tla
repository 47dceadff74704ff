---------------------------- MODULE DiallingProofs ----------------------------
(***************************************************************************)
(* The invariants of Dialling, for every set of command lines and numbers  *)
(* and for every width of int and long.                                    *)
(***************************************************************************)
EXTENDS Dialling, TLAPS

-----------------------------------------------------------------------------
(* Reading a number.                                                       *)

\* Below 2^32 sscanf("%u") into an int gives the number itself or, from 2^31
\* on, a negative one; behind a sign it gives the negative number.
LEMMA ScanBelowUInt ==
  ASSUME NEW n \in -(UInt \div 2) .. UInt - 1
  PROVE  /\ Scan(n) = n \/ Scan(n) < 0
         /\ 0 <= n /\ n < 65536 => Scan(n) = n
         /\ n < 0 => Scan(n) < 0
         /\ Scan(n) \in Int
<1>1. /\ UInt \in Nat /\ UInt > 131072 /\ ULong \in Nat /\ ULong >= UInt /\ n \in Int
      /\ UInt \div 2 \in Nat /\ UInt \div 2 >= 65536 /\ 2 * (UInt \div 2) <= UInt
      /\ -(UInt \div 2) <= n /\ n < UInt
  BY WidthAssumption, SMT DEF WidthAssumption
<1>2. n \in 1 - ULong .. ULong - 1
  BY <1>1, SMT
<1>3. CASE n >= 0
  <2>1. n % UInt = n
    BY <1>1, <1>3, SMT
  <2>2. Scan(n) = IF n < UInt \div 2 THEN n ELSE n - UInt
    BY <1>2, <2>1, SMT DEF Scan, AsInt
  <2> QED BY <1>1, <1>3, <2>2, SMT
<1>4. CASE n < 0
  <2>1. n % UInt = n + UInt
    BY <1>1, <1>4, SMT
  <2>2. Scan(n) = IF n + UInt < UInt \div 2 THEN n + UInt ELSE (n + UInt) - UInt
    BY <1>2, <2>1, SMT DEF Scan, AsInt
  <2> QED BY <1>1, <1>4, <2>2, SMT
<1> QED BY <1>1, <1>3, <1>4, SMT

\* So of these numbers only those of a byte pass for a byte, and only those of
\* a port for a port.
LEMMA RangesAsTyped ==
  ASSUME NEW n \in -(UInt \div 2) .. UInt - 1
  PROVE  /\ Scan(n) \in Byte <=> n \in Byte
         /\ Scan(n) \in Port \ {0} <=> n \in Port \ {0}
         /\ n \in Byte \cup Port => Scan(n) = n
<1>1. /\ Scan(n) \in Int /\ n \in Int
      /\ Scan(n) = n \/ Scan(n) < 0
      /\ 0 <= n /\ n < 65536 => Scan(n) = n
      /\ n < 0 => Scan(n) < 0
  BY ScanBelowUInt, WidthAssumption, SMT DEF WidthAssumption
<1> QED BY <1>1, SMT DEF Byte, Port

\* A port number of the command line is cut to 16 bits.
LEMMA PortFits ==
  ASSUME NEW n \in Int
  PROVE  uint16_t(n) \in Port
BY SMT DEF uint16_t, Port

\* What is read of a number that does not wrap is taken for an address exactly
\* when it is one, and then for the address it names.
LEMMA ParsedAsTyped ==
  ASSUME NEW d \in DialText, IsPlain(d)
  PROVE  /\ ScansToAddress(Substr4(d), d.port) <=> IsNumber(d)
         /\ IsNumber(d) => ParsedAddress(Substr4(d), d.port) = Typed(d)
<1>1. PICK g : g = Heard(d)
  OBVIOUS
<1>2. g = Substr4(d)
  BY <1>1, Zenon DEF Heard
<1>3. /\ g \in Seq(-(UInt \div 2) .. UInt - 1)
      /\ d.port = NoPort \/ (d.port \in Nat /\ d.port < UInt)
  BY <1>1, SMT DEF DialText, IsPlain, NoPort
<1>4. Len(g) \in Nat /\ DOMAIN g = 1..Len(g)
  BY <1>3, SMT
<1>5. ASSUME Len(g) >= 4, NEW i \in 1..4
      PROVE  /\ Scan(g[i]) \in Byte <=> g[i] \in Byte
             /\ g[i] \in Byte => Scan(g[i]) = g[i]
  <2>1. g[i] \in -(UInt \div 2) .. UInt - 1
    <3>1. PICK S : S = -(UInt \div 2) .. UInt - 1
      OBVIOUS
    <3>2. g \in Seq(S) /\ i \in 1..Len(g)
      BY <1>3, <1>4, <1>5, <3>1, SMT
    <3>3. g[i] \in S
      BY <3>2, SMT
    <3> QED BY <3>1, <3>3, Zenon
  <2> QED BY <2>1, RangesAsTyped, Zenon
<1>6. d.port # NoPort =>
        /\ Scan(d.port) \in Port \ {0} <=> d.port \in Port \ {0}
        /\ d.port \in Port \ {0} => Scan(d.port) = d.port
  <2>1. d.port # NoPort => d.port \in -(UInt \div 2) .. UInt - 1
    BY <1>3, WidthAssumption, SMT DEF WidthAssumption
  <2> QED BY <2>1, RangesAsTyped, Zenon
<1>7. Len(g) = 4 => Len(g) >= 4
  OBVIOUS
<1>8. ScansToAddress(g, d.port) <=> IsNumber(d)
  BY <1>1, <1>5, <1>6, <1>7, Zenon DEF ScansToAddress, IsNumber
<1>9. ASSUME IsNumber(d) PROVE ParsedAddress(g, d.port) = Typed(d)
  <2>1. Len(g) >= 4
    BY <1>1, <1>7, <1>9, Zenon DEF IsNumber
  <2>2. \A i \in 1..4 : Scan(g[i]) = Heard(d)[i]
    BY <1>1, <1>5, <1>9, <2>1, Zenon DEF IsNumber
  <2>3. d.port # NoPort => Scan(d.port) = d.port
    BY <1>6, <1>9, Zenon DEF IsNumber
  <2> QED BY <2>2, <2>3, SMT DEF ParsedAddress, Typed
<1> QED BY <1>2, <1>8, <1>9, Zenon

\* The numbers of the PPP service are no addresses, and ATD100 is one of them.
LEMMA PppNumbers ==
  ASSUME NEW d \in DialText
  PROVE  /\ isPPPNumber(d) => /\ d.groups \in {<<100>>, <<168>>} /\ d.port = NoPort
                              /\ ~IsNumber(d)
         /\ IsAtd100(d) => isPPPNumber(d)
<1>1. ASSUME isPPPNumber(d)
      PROVE  d.groups \in {<<100>>, <<168>>} /\ d.port = NoPort /\ ~IsNumber(d)
  <2>1. d.groups \in {<<100>>, <<168>>} /\ d.port = NoPort
    BY <1>1, Zenon DEF isPPPNumber
  <2>2. /\ Len(d.groups) = 1 /\ Tail(d.groups) = <<>> /\ d.groups # <<>>
        /\ Head(d.groups) >= 10
    <3>1. PICK m \in {100, 168} : d.groups = <<m>>
      BY <2>1, Zenon
    <3>2. m \in Nat /\ m >= 10
      BY SMT
    <3>3. Len(<<m>>) = 1 /\ Tail(<<m>>) = <<>> /\ <<m>> # <<>> /\ Head(<<m>>) = m
      BY <3>2, SMT
    <3> QED BY <3>1, <3>2, <3>3, Zenon
  <2>3. PICK x : x = Head(d.groups) % Magnitude(Head(d.groups))
    OBVIOUS
  <2>4. Heard(d) = d.groups \/ Heard(d) = <<x>> \o <<>>
    BY <2>2, <2>3, Zenon DEF Heard, Substr4
  <2>5. Len(<<x>> \o <<>>) = 1
    BY SMT
  <2>6. Len(Heard(d)) = 1 /\ ~(1 >= 4)
    BY <2>2, <2>4, <2>5, SMT
  <2> QED BY <2>1, <2>6, Zenon DEF IsNumber
<1>2. ASSUME IsAtd100(d) PROVE isPPPNumber(d)
  <2>1. /\ d.mark # "blank" /\ d.groups = <<100>> /\ d.port = NoPort /\ d.tail = "none"
    BY <1>2, SMT DEF IsAtd100
  <2> QED BY <2>1, SMT DEF isPPPNumber
<1> QED BY <1>1, <1>2, Zenon

\* A tcp_sock keeps an address, so no call of its is taken for one to the
\* pseudo-terminal.
LEMMA AddressIsNotPty ==
  ASSUME NEW a \in Address
  PROVE  a # ToPty
<1>1. DOMAIN a.ip = 1..4
  BY Zenon DEF Address, Octets
<1>2. ToPty.ip = <<>> /\ DOMAIN <<>> # 1..4
  BY SMT DEF ToPty, Nowhere
<1> QED BY <1>1, <1>2, SMT

\* Whatever was typed, what is taken for an address is one.
LEMMA ParsedIsAddress ==
  ASSUME NEW g, NEW p, ScansToAddress(g, p)
  PROVE  ParsedAddress(g, p) \in Address
<1>1. (IF p = NoPort THEN TCP_DEFAULT_PORT ELSE Scan(p)) \in Port
  <2>1. TCP_DEFAULT_PORT \in Port
    BY SMT DEF TCP_DEFAULT_PORT, Port
  <2> QED BY <2>1, Zenon DEF ScansToAddress
<1>2. [i \in 1..4 |-> Scan(g[i])] \in Octets
  BY Zenon DEF Octets, ScansToAddress
<1> QED BY <1>1, <1>2, Zenon DEF ParsedAddress, Address

\* So is what the constructor makes of the command line.
LEMMA ConfiguredIsAddress ==
  ASSUME NEW c \in CommandLines
  PROVE  Configured(c) \in Address
<1>1. c.ip \in IpArgument /\ c.port \in Int
  BY StartUpAssumption, SMT DEF StartUpAssumption
<1>2. INADDR_NONE \in Octets
  BY SMT DEF INADDR_NONE, Octets, Byte
<1>3. inet_addr(c.ip) \in Octets
  BY <1>1, <1>2, SMT DEF IpArgument, inet_addr
<1>4. uint16_t(c.port) \in Port
  BY <1>1, PortFits, Zenon
<1> QED BY <1>3, <1>4, Zenon DEF Configured, Address

-----------------------------------------------------------------------------
(* Types.                                                                  *)

\* The variables have their types in the beginning.
LEMMA InitTypeOK == DiallingInit => TypeOK
<1> SUFFICES ASSUME DiallingInit PROVE TypeOK
  OBVIOUS
<1>1. cmdline \in CommandLines /\ cmdline.opts \in Seq(Option)
  BY StartUpAssumption, Zenon DEF DiallingInit, Init, StartUpAssumption
<1>2. main \in MainState
  BY <1>1, Zenon DEF DiallingInit, Init, MainState
<1>3. NoModem \in ModemState /\ NoSock \in SockState
  BY SMT DEF NoModem, ModemState, NoSock, SockState
<1>4. lsn \in ListenState
  BY SMT DEF DiallingInit, Init, ListenState
<1>5. log \in Seq(LogEntry)
  BY SMT DEF DiallingInit
<1> QED BY <1>1, <1>2, <1>3, <1>4, <1>5, Zenon DEF DiallingInit, Init, TypeOK

\* What makes a modem makes one of the registry's.
LEMMA InstanceType ==
  ASSUME TypeOK, NEW n \in Registry
  PROVE  Instance(n) \in ModemState
BY SMT DEF TypeOK, Instance, ModemState

\* What is left of the options are options.
LEMMA OptionsType ==
  ASSUME TypeOK, main.opts # <<>>
  PROVE  Head(main.opts) \in Option /\ Tail(main.opts) \in Seq(Option)
<1>1. main.opts \in Seq(Option)
  BY Zenon DEF TypeOK, MainState
<1> QED BY <1>1, SMT

\* main() keeps the types: it takes options off, makes known modems, and gives
\* tcp_sock an address.
LEMMA MainType ==
  ASSUME TypeOK, MainThread, UNCHANGED log
  PROVE  TypeOK'
<1> USE DEF lineVars
<1>1. ASSUME OptionModel PROVE TypeOK'
  <2>1. main' \in MainState
    <3>1. main \in MainState /\ Tail(main.opts) \in Seq(Option)
      BY <1>1, OptionsType, Zenon DEF OptionModel, TypeOK
    <3>2. /\ [main EXCEPT !.opts = Tail(main.opts)] \in MainState
          /\ [main EXCEPT !.pc = "exit"] \in MainState
      BY <3>1, Zenon DEF MainState
    <3> QED BY <1>1, <3>2, Zenon DEF OptionModel
  <2>2. current_modem' \in ModemState /\ instance' \in ModemState
    <3>1. NoModem \in ModemState
      BY SMT DEF NoModem, ModemState
    <3> QED BY <1>1, <3>1, InstanceType, Zenon DEF OptionModel, TypeOK
  <2> QED BY <1>1, <2>1, <2>2, Zenon DEF OptionModel, TypeOK
<1>2. ASSUME OptionOther PROVE TypeOK'
  <2>1. main' \in MainState
    <3> DEFINE server == main.is_server \/ Head(main.opts).opt = "s"
    <3>1. main \in MainState /\ Tail(main.opts) \in Seq(Option)
      BY <1>2, OptionsType, Zenon DEF OptionOther, TypeOK
    <3>2. server \in BOOLEAN
      BY <3>1, Zenon DEF MainState
    <3>3. \/ main' = [main EXCEPT !.pc = "exit"]
          \/ main' = [main EXCEPT !.opts = Tail(main.opts), !.is_server = server]
      BY <1>2, Zenon DEF OptionOther
    <3> HIDE DEF server
    <3>4. /\ [main EXCEPT !.pc = "exit"] \in MainState
          /\ [main EXCEPT !.opts = Tail(main.opts), !.is_server = server] \in MainState
      BY <3>1, <3>2, Zenon DEF MainState
    <3> QED BY <3>3, <3>4, Zenon
  <2> QED BY <1>2, <2>1, Zenon DEF OptionOther, TypeOK
<1>3. ASSUME OptionsDone PROVE TypeOK'
  <2>1. Instance("Omron") \in ModemState
    BY InstanceType, SMT DEF Registry
  <2>2. main' \in MainState
    BY <1>3, SMT DEF OptionsDone, TypeOK, MainState
  <2> QED BY <1>3, <2>1, <2>2, Zenon DEF OptionsDone, TypeOK
<1>4. ASSUME MakeUsbAndPty PROVE TypeOK'
  <2>1. main' \in MainState
    BY <1>4, SMT DEF MakeUsbAndPty, TypeOK, MainState
  <2> QED BY <1>4, <2>1, Zenon DEF MakeUsbAndPty, TypeOK
<1>5. ASSUME PtyModeOnly PROVE TypeOK'
  <2>1. main' \in MainState
    BY <1>5, SMT DEF PtyModeOnly, TypeOK, MainState
  <2> QED BY <1>5, <2>1, Zenon DEF PtyModeOnly, TypeOK
<1>6. ASSUME ConstructSock PROVE TypeOK'
  <2>1. Configured(cmdline) \in Address
    BY ConfiguredIsAddress, Zenon DEF TypeOK
  <2>2. sock' \in SockState
    <3>1. [NoSock EXCEPT !.exists = TRUE, !.addr = Configured(cmdline)] \in SockState
      BY <2>1, Zenon DEF NoSock, SockState
    <3> QED BY <1>6, <3>1, Zenon DEF ConstructSock, TypeOK
  <2>3. main' \in MainState
    BY <1>6, SMT DEF ConstructSock, TypeOK, MainState
  <2>4. lsn' \in ListenState
    BY <1>6, SMT DEF ConstructSock, TypeOK, ListenState
  <2> QED BY <1>6, <2>2, <2>3, <2>4, Zenon DEF ConstructSock, TypeOK
<1>7. ASSUME SetRingCallback \/ SetRecvCallback PROVE TypeOK'
  <2>1. sock' \in SockState
    <3>1. sock \in SockState
      BY Zenon DEF TypeOK
    <3>2. [sock EXCEPT !.ring = TRUE] \in SockState /\ [sock EXCEPT !.recv = TRUE] \in SockState
      BY <3>1, Zenon DEF SockState
    <3> QED BY <1>7, <3>2, Zenon DEF SetRingCallback, SetRecvCallback
  <2>2. main' \in MainState
    BY <1>7, SMT DEF SetRingCallback, SetRecvCallback, TypeOK, MainState
  <2> QED BY <1>7, <2>1, <2>2, Zenon DEF SetRingCallback, SetRecvCallback, TypeOK
<1> QED BY <1>1, <1>2, <1>3, <1>4, <1>5, <1>6, <1>7, Zenon DEF MainThread

\* So does the line.
LEMMA LineType ==
  ASSUME TypeOK, Line, UNCHANGED log
  PROVE  TypeOK'
<1>1. lsn' \in ListenState
  BY SMT DEF Line, AcceptCaller, RingCaller, ReceivePayload, DeliverPayload, HangUp,
             TypeOK, ListenState
<1> QED BY <1>1, Zenon DEF Line, AcceptCaller, RingCaller, ReceivePayload, DeliverPayload,
           HangUp, TypeOK, startVars

\* So does dialling: only addresses replace the address.
LEMMA DialType ==
  ASSUME TypeOK, NEW d \in Numbers, Dial(d)
  PROVE  TypeOK'
<1>1. sock.addr \in Address \cup {Nowhere}
  BY Zenon DEF TypeOK, SockState
<1>2. SetAddr(d) \in Address \cup {Nowhere}
  BY <1>1, ParsedIsAddress, Zenon DEF SetAddr
<1>3. ASSUME NEW a \in Address \cup {Nowhere}, Logged(d, a)
      PROVE  log' \in Seq(LogEntry)
  <2> DEFINE e == [dial |-> d, target |-> a]
  <2>1. e \in LogEntry
    BY <1>3, Zenon DEF ToPty, LogEntry
  <2>2. log \in Seq(LogEntry) /\ log' = Append(log, e)
    BY <1>3, Zenon DEF TypeOK, Logged
  <2> HIDE DEF e
  <2> QED BY <2>1, <2>2, SMT
<1>4. ASSUME DialPpp(d) PROVE TypeOK'
  <2>1. log' \in Seq(LogEntry)
    BY <1>3, <1>4, Zenon DEF DialPpp, ToPty
  <2> QED BY <1>4, <2>1, Zenon DEF DialPpp, startVars, lineVars, TypeOK
<1>5. ASSUME DialNoSock(d) PROVE TypeOK'
  BY <1>5, Zenon DEF DialNoSock, vars, startVars, lineVars, TypeOK
<1>6. ASSUME DialBare(d) PROVE TypeOK'
  BY <1>6, Zenon DEF DialBare, startVars, lineVars, TypeOK
<1>7. ASSUME DialSock(d) PROVE TypeOK'
  <2>1. log' \in Seq(LogEntry)
    BY <1>2, <1>3, <1>7, Zenon DEF DialSock
  <2>2. sock' \in SockState
    BY <1>2, <1>7, SMT DEF DialSock, TypeOK, SockState
  <2> QED BY <1>7, <2>1, <2>2, Zenon DEF DialSock, startVars, TypeOK
<1> QED BY <1>4, <1>5, <1>6, <1>7, Zenon DEF Dial

\* Every step keeps the types.
LEMMA TypeStep ==
  ASSUME TypeOK, [Next]_vars
  PROVE  TypeOK'
<1>1. CASE UNCHANGED vars
  BY <1>1, Zenon DEF TypeOK, vars, startVars, lineVars
<1> QED BY <1>1, MainType, LineType, DialType, Zenon DEF Next

\* Every variable keeps its type, and every address that is called is one.
THEOREM TypeCorrect == Spec => []TypeOK
  BY InitTypeOK, TypeStep, PTL DEF Spec

-----------------------------------------------------------------------------
(* The callbacks.                                                          *)

\* Without a tcp_sock nobody is on the line; with one both callbacks are set
\* when main() arrives at its event loop.
CallbackInv ==
  /\ main.pc \in {"options", "usb", "sock"} => ~sock.exists
  /\ main.pc = "recv_callback" => sock.ring
  /\ main.pc = "serve" /\ sock.exists => sock.ring /\ sock.recv
  /\ ~sock.exists => lsn.pc = "off" /\ link = "none" /\ rcv = "none"
  /\ CallbacksSetWhenServing

\* It holds in the beginning.
LEMMA InitCallbackInv == DiallingInit => CallbackInv
BY SMT DEF DiallingInit, Init, NoSock, CallbackInv, CallbacksSetWhenServing

\* Every step keeps it: main() sets what it passes, and the listen thread and
\* the receive thread only run on a tcp_sock that is there.
LEMMA CallbackStep ==
  ASSUME TypeOK, CallbackInv, [Next]_vars
  PROVE  CallbackInv'
<1> USE DEF CallbackInv, CallbacksSetWhenServing
<1>1. main \in MainState /\ sock \in SockState /\ lsn \in ListenState
  BY Zenon DEF TypeOK
<1>2. ASSUME OptionModel \/ OptionOther \/ OptionsDone PROVE CallbackInv'
  <2>1. main.pc = "options" /\ UNCHANGED <<sock, lsn, link, rcv, died>>
    BY <1>2, Zenon DEF OptionModel, OptionOther, OptionsDone, lineVars
  <2>2. main'.pc \in {"options", "exit", "usb"}
    <3>1. \/ main' = [main EXCEPT !.pc = "exit"]
          \/ main' = [main EXCEPT !.pc = "usb"]
          \/ main' = [main EXCEPT !.opts = Tail(@)]
          \/ main' = [main EXCEPT !.opts = Tail(@),
                                  !.is_server = @ \/ Head(main.opts).opt = "s"]
      BY <1>2, Zenon DEF OptionModel, OptionOther, OptionsDone
    <3> QED BY <1>1, <2>1, <3>1, Zenon DEF MainState
  <2> QED BY <2>1, <2>2, SMT
<1>3. ASSUME Running, MakeUsbAndPty \/ PtyModeOnly PROVE CallbackInv'
  BY <1>1, <1>3, SMT DEF MainState, MakeUsbAndPty, PtyModeOnly, lineVars, Running
<1>4. ASSUME Running, ConstructSock PROVE CallbackInv'
  <2>1. main.pc = "sock"
    BY <1>4, Zenon DEF ConstructSock
  <2>2. CASE /\ sock' = [NoSock EXCEPT !.exists = TRUE, !.addr = Configured(cmdline)]
             /\ main' = [main EXCEPT !.pc = "ring_callback"] /\ UNCHANGED died
    <3>1. sock'.exists /\ main'.pc = "ring_callback"
      BY <1>1, <2>2, Zenon DEF NoSock, MainState
    <3> QED BY <1>4, <2>2, <3>1, Zenon DEF Running
  <2>3. CASE died' = "bind" /\ UNCHANGED <<main, sock, lsn>>
    BY <1>4, <2>1, <2>3, Zenon DEF ConstructSock
  <2> QED BY <1>4, <2>2, <2>3, Zenon DEF ConstructSock
<1>5. ASSUME Running, SetRingCallback \/ SetRecvCallback PROVE CallbackInv'
  BY <1>1, <1>5, SMT DEF MainState, SockState, SetRingCallback, SetRecvCallback, lineVars, Running
<1>6. ASSUME Running, Line PROVE CallbackInv'
  <2>1. ASSUME AcceptCaller PROVE CallbackInv'
    BY <1>1, <2>1, SMT DEF ListenState, AcceptCaller, startVars
  <2>2. ASSUME RingCaller PROVE CallbackInv'
    BY <1>1, <1>6, <2>2, SMT DEF ListenState, RingCaller, startVars, Running
  <2>3. ASSUME ReceivePayload \/ HangUp PROVE CallbackInv'
    BY <1>1, <1>6, <2>3, SMT DEF ReceivePayload, HangUp, startVars
  <2>4. ASSUME DeliverPayload PROVE CallbackInv'
    BY <1>1, <1>6, <2>4, SMT DEF DeliverPayload, startVars, Running
  <2> QED BY <1>6, <2>1, <2>2, <2>3, <2>4, Zenon DEF Line
<1>7. ASSUME NEW d \in Numbers, Dial(d) PROVE CallbackInv'
  <2>1. ASSUME DialPpp(d) \/ DialNoSock(d) PROVE CallbackInv'
    BY <2>1, SMT DEF DialPpp, DialNoSock, startVars, lineVars, vars
  <2>2. ASSUME DialBare(d) PROVE CallbackInv'
    BY <2>2, SMT DEF DialBare, startVars, lineVars
  <2>3. ASSUME DialSock(d) PROVE CallbackInv'
    <3>1. sock' = [sock EXCEPT !.addr = SetAddr(d)] /\ sock.exists
      BY <2>3, Zenon DEF DialSock
    <3>2. /\ sock'.exists /\ sock'.ring = sock.ring /\ sock'.recv = sock.recv
      BY <1>1, <3>1, SMT DEF SockState
    <3> QED BY <2>3, <3>1, <3>2, SMT DEF DialSock, MayDial, startVars
  <2> QED BY <1>7, <2>1, <2>2, <2>3, Zenon DEF Dial
<1>8. CASE UNCHANGED vars
  BY <1>8, SMT DEF vars, startVars, lineVars
<1> QED BY <1>2, <1>3, <1>4, <1>5, <1>6, <1>7, <1>8, Zenon DEF Next, MainThread

\* Once the program serves, no caller and no payload meets a callback that was
\* not set.
THEOREM CallbacksSet == Spec => []CallbacksSetWhenServing
<1>1. CallbackInv => CallbacksSetWhenServing
  BY Zenon DEF CallbackInv
<1> QED BY InitCallbackInv, CallbackStep, TypeCorrect, <1>1, PTL DEF Spec

-----------------------------------------------------------------------------
(* The address.                                                            *)

\* Nothing is dialled before main() serves, and tcp_sock has an address, the
\* one the numbers dialled so far leave behind.
AddressInv ==
  /\ main.pc # "serve" => log = <<>>
  /\ sock.exists => sock.addr \in Address
  /\ sock.exists /\ PlainUpTo(Len(log)) => LeftBehind(Len(log), sock.addr)
  /\ CallsAsDialled

\* A new entry stands behind the old ones.
LEMMA LoggedBehind ==
  ASSUME log \in Seq(LogEntry), NEW d, NEW a, Logged(d, a)
  PROVE  /\ Len(log) \in Nat /\ Len(log') = Len(log) + 1
         /\ DOMAIN log = 1..Len(log) /\ DOMAIN log' = 1..Len(log) + 1
         /\ log'[Len(log) + 1].dial = d /\ log'[Len(log) + 1].target = a
         /\ \A j \in 1..Len(log) : log'[j] = log[j]
<1> DEFINE e == [dial |-> d, target |-> a]
<1>1. log' = Append(log, e)
  BY Zenon DEF Logged
<1>2. e.dial = d /\ e.target = a
  OBVIOUS
<1> HIDE DEF e
<1>3. /\ Len(log) \in Nat /\ Len(log') = Len(log) + 1
      /\ DOMAIN log = 1..Len(log) /\ DOMAIN log' = 1..Len(log) + 1
      /\ log'[Len(log) + 1] = e
      /\ \A j \in 1..Len(log) : log'[j] = log[j]
  BY <1>1, SMT
<1> QED BY <1>2, <1>3, Zenon

\* What the old entries leave behind, they left behind before the new one.
LEMMA OldEntries ==
  ASSUME log \in Seq(LogEntry), NEW d, NEW a, Logged(d, a), UNCHANGED cmdline,
         NEW i \in 0..Len(log)
  PROVE  /\ PlainUpTo(i)' <=> PlainUpTo(i)
         /\ \A x : LeftBehind(i, x) => LeftBehind(i, x)'
<1>1. Len(log) \in Nat /\ \A j \in 1..Len(log) : log'[j] = log[j]
  BY LoggedBehind, Zenon
<1>2. \A j \in 1..i : log'[j] = log[j]
  BY <1>1, SMT
<1>3. \A j \in 1..i : \A k \in j + 1 .. i : k \in 1..i
  BY <1>1, SMT
<1>4. Configured(cmdline)' = Configured(cmdline)
  BY Zenon DEF Configured
<1>5. PlainUpTo(i)' <=> PlainUpTo(i)
  BY <1>2, Zenon DEF PlainUpTo
<1>6. ASSUME NEW x, LeftBehind(i, x) PROVE LeftBehind(i, x)'
  BY <1>2, <1>3, <1>4, <1>6, Zenon DEF LeftBehind
<1> QED BY <1>5, <1>6, Zenon

\* A number that can be read leaves its own address behind, any other the one
\* that was there.
LEMMA NewEntry ==
  ASSUME log \in Seq(LogEntry), NEW d, NEW a, Logged(d, a), UNCHANGED cmdline,
         NEW n \in Nat, n = Len(log)
  PROVE  /\ IsNumber(d) => LeftBehind(n + 1, Typed(d))'
         /\ \A x : ~IsNumber(d) /\ LeftBehind(n, x) => LeftBehind(n + 1, x)'
<1>1. log'[n + 1].dial = d /\ \A j \in 1..n : log'[j] = log[j]
  BY LoggedBehind, Zenon
<1>2. n + 1 \in 1..n + 1 /\ \A k \in n + 1 + 1 .. n + 1 : FALSE
  BY SMT
<1>3. ASSUME IsNumber(d) PROVE LeftBehind(n + 1, Typed(d))'
  BY <1>1, <1>2, <1>3, Zenon DEF LeftBehind
<1>4. ASSUME NEW x, ~IsNumber(d), LeftBehind(n, x) PROVE LeftBehind(n + 1, x)'
  <2>1. \A j \in 1..n + 1 : j \in 1..n \/ j = n + 1
    BY SMT
  <2>2. \A j \in 1..n : j \in 1..n + 1 /\ \A k \in j + 1 .. n + 1 :
                       (k \in 1..n /\ k \in j + 1 .. n) \/ k = n + 1
    BY SMT
  <2>3. Configured(cmdline)' = Configured(cmdline)
    BY Zenon DEF Configured
  <2>4. CASE /\ \A j \in 1..n : ~IsNumber(log[j].dial)
             /\ x = Configured(cmdline)
    BY <1>1, <1>4, <2>1, <2>3, <2>4, Zenon DEF LeftBehind
  <2>5. ASSUME NEW j \in 1..n, IsNumber(log[j].dial), x = Typed(log[j].dial),
               \A k \in j + 1 .. n : ~IsNumber(log[k].dial)
        PROVE  LeftBehind(n + 1, x)'
    <3>1. j \in 1..n + 1 /\ IsNumber(log'[j].dial) /\ x = Typed(log'[j].dial)
      BY <1>1, <2>2, <2>5, Zenon
    <3>2. \A k \in j + 1 .. n + 1 : ~IsNumber(log'[k].dial)
      BY <1>1, <1>4, <2>2, <2>5, Zenon
    <3> QED BY <3>1, <3>2, Zenon DEF LeftBehind
  <2> QED BY <1>4, <2>4, <2>5, Zenon DEF LeftBehind
<1> QED BY <1>3, <1>4, Zenon

\* The invariant holds in the beginning.
LEMMA InitAddressInv == DiallingInit => AddressInv
<1> SUFFICES ASSUME DiallingInit PROVE AddressInv
  OBVIOUS
<1>1. log = <<>> /\ ~sock.exists /\ DOMAIN log = {}
  BY SMT DEF DiallingInit, Init, NoSock
<1> QED BY <1>1, Zenon DEF AddressInv, CallsAsDialled

\* Nothing is dialled, and tcp_sock keeps its address if it has one.
NoDial ==
  /\ log' = log /\ cmdline' = cmdline
  /\ main.pc = "serve" => main'.pc = "serve"
  /\ \/ sock' = sock
     \/ main.pc # "serve" /\ ~sock.exists /\ sock'.addr = Configured(cmdline)
     \/ sock'.exists = sock.exists /\ sock'.addr = sock.addr

\* Then the invariant is about the address alone.
LEMMA NotDialled ==
  ASSUME TypeOK, AddressInv, NoDial
  PROVE  AddressInv'
<1> USE DEF NoDial
<1>1. /\ \A i : PlainUpTo(i)' <=> PlainUpTo(i)
      /\ \A i, x : LeftBehind(i, x)' <=> LeftBehind(i, x)
  BY Zenon DEF PlainUpTo, LeftBehind, Configured
<1>2. CallsAsDialled'
  <2>1. \A i \in DOMAIN log : GoesAsDialled(i, log[i].dial, log[i].target)
    BY Zenon DEF AddressInv, CallsAsDialled
  <2>2. ASSUME NEW i \in DOMAIN log, GoesAsDialled(i, log[i].dial, log[i].target)
        PROVE  GoesAsDialled(i, log[i].dial, log[i].target)'
    BY <1>1, <2>2, Zenon DEF GoesAsDialled, PlainUpTo, LeftBehind, Configured
  <2> QED BY <2>1, <2>2, Zenon DEF CallsAsDialled
<1>3. ASSUME log = <<>> PROVE LeftBehind(Len(log), Configured(cmdline))
  <2>1. 1..Len(log) = {}
    BY <1>3, SMT
  <2> QED BY <2>1, Zenon DEF LeftBehind
<1>4. ASSUME sock'.exists, PlainUpTo(Len(log))'
      PROVE  LeftBehind(Len(log), sock.addr)'
  <2>1. PlainUpTo(Len(log)) /\ (LeftBehind(Len(log), sock'.addr) => LeftBehind(Len(log), sock.addr)')
    BY <1>4, Zenon DEF PlainUpTo, LeftBehind, Configured
  <2> QED BY <1>3, <1>4, <2>1, Zenon DEF AddressInv
<1>5. sock'.exists => sock'.addr \in Address
  <2>1. Configured(cmdline) \in Address
    BY ConfiguredIsAddress, Zenon DEF TypeOK
  <2> QED BY <2>1, Zenon DEF AddressInv
<1> QED BY <1>2, <1>4, <1>5, Zenon DEF AddressInv

\* Where call n, of the number d, has gone to, and the address b behind it.
Behind(n, d, a, b) ==
  /\ a = ToPty => d.groups \in {<<100>>, <<168>>} /\ d.port = NoPort
  /\ a # ToPty => ~IsAtd100(d) /\ (PlainUpTo(n)' => LeftBehind(n, a)')
  /\ sock'.exists => /\ sock'.addr = b /\ b \in Address
                     /\ PlainUpTo(n)' => LeftBehind(n, b)'

\* A call keeps it: the entry is the number that was dialled, and the address
\* it was connected to is the one it leaves behind.
LEMMA DialledStep ==
  ASSUME TypeOK, AddressInv, NEW d \in Numbers, Dial(d)
  PROVE  AddressInv'
<1>1. d \in DialText /\ log \in Seq(LogEntry) /\ sock \in SockState
  BY DiallingAssumption, Zenon DEF DiallingAssumption, TypeOK
<1>2. PICK n \in Nat : n = Len(log)
  BY <1>1, SMT
<1>3. n \in 0..n /\ \A i \in 1..n : i \in 0..n
  BY SMT
<1>4. ASSUME NEW a, NEW b, Logged(d, a), UNCHANGED cmdline, main'.pc = "serve",
             Behind(n + 1, d, a, b)
      PROVE  AddressInv'
  <2>1. /\ Len(log') = n + 1 /\ DOMAIN log = 1..n /\ DOMAIN log' = 1..n + 1
        /\ log'[n + 1].dial = d /\ log'[n + 1].target = a
        /\ \A j \in 1..n : log'[j] = log[j]
    BY <1>1, <1>2, <1>4, LoggedBehind, Zenon
  <2>2. ASSUME NEW i \in 1..n, PlainUpTo(i)', log[i].target # ToPty
        PROVE  LeftBehind(i, log[i].target)'
    <3>1. PlainUpTo(i) /\ \A x : LeftBehind(i, x) => LeftBehind(i, x)'
      BY <1>1, <1>2, <1>3, <1>4, <2>2, OldEntries, Zenon
    <3>2. PICK x : x = log[i].target
      OBVIOUS
    <3>3. log'[i].target = x /\ (LeftBehind(i, log[i].target) => LeftBehind(i, x))
      BY <2>1, <3>2, Zenon DEF LeftBehind
    <3>4. LeftBehind(i, x)' => LeftBehind(i, log[i].target)'
      BY <3>3, Zenon DEF LeftBehind
    <3>5. GoesAsDialled(i, log[i].dial, log[i].target)
      BY <2>1, Zenon DEF AddressInv, CallsAsDialled
    <3>6. LeftBehind(i, log[i].target)
      BY <2>2, <3>1, <3>5, Zenon DEF GoesAsDialled
    <3>7. LeftBehind(i, x)'
      BY <3>1, <3>2, <3>6, Zenon
    <3> QED BY <3>4, <3>7, Zenon
  <2>3. \A i \in 1..n + 1 : i \in 1..n \/ i = n + 1
    BY SMT
  <2>4. LeftBehind(n + 1, a)' => LeftBehind(n + 1, log[n + 1].target)'
    BY <2>1, Zenon DEF LeftBehind
  <2>5. ASSUME NEW i \in 1..n PROVE GoesAsDialled(i, log[i].dial, log[i].target)'
    <3>1. GoesAsDialled(i, log[i].dial, log[i].target) /\ log'[i] = log[i]
      BY <2>1, Zenon DEF AddressInv, CallsAsDialled
    <3> QED BY <2>2, <3>1, Zenon DEF GoesAsDialled, ToPty, IsAtd100
  <2>6. GoesAsDialled(n + 1, log[n + 1].dial, log[n + 1].target)'
    BY <1>4, <2>1, <2>4, Zenon DEF Behind, GoesAsDialled, ToPty, IsAtd100
  <2>7. CallsAsDialled'
    <3>1. ASSUME NEW i \in DOMAIN log' PROVE GoesAsDialled(i, log[i].dial, log[i].target)'
      <4>1. CASE i \in 1..n
        BY <2>5, <4>1, Zenon
      <4>2. CASE i = n + 1
        BY <2>6, <4>2, Zenon DEF GoesAsDialled, PlainUpTo, LeftBehind
      <4> QED BY <2>1, <2>3, <4>1, <4>2, Zenon
    <3> QED BY <3>1, Zenon DEF CallsAsDialled
  <2>8. sock'.exists => (LeftBehind(n + 1, b)' => LeftBehind(Len(log), sock.addr)')
    BY <1>4, <2>1, Zenon DEF Behind, LeftBehind
  <2>9. PlainUpTo(Len(log))' <=> PlainUpTo(n + 1)'
    BY <2>1, Zenon DEF PlainUpTo
  <2> QED BY <1>4, <2>7, <2>8, <2>9, Zenon DEF Behind, AddressInv
<1>5. ASSUME NEW a, Logged(d, a), UNCHANGED cmdline, PlainUpTo(n + 1)'
      PROVE  PlainUpTo(n) /\ IsPlain(d)
  <2>1. n + 1 \in 1..n + 1 /\ \A j \in 1..n : j \in 1..n + 1
    BY SMT
  <2>2. log'[n + 1].dial = d /\ \A j \in 1..n : log'[j] = log[j]
    BY <1>1, <1>2, <1>5, LoggedBehind, Zenon
  <2> QED BY <1>5, <2>1, <2>2, Zenon DEF PlainUpTo
<1>6. ASSUME DialPpp(d) PROVE AddressInv'
  <2>1. d.groups \in {<<100>>, <<168>>} /\ d.port = NoPort /\ ~IsNumber(d)
    BY <1>1, <1>6, PppNumbers, Zenon DEF DialPpp
  <2>2. Logged(d, ToPty) /\ UNCHANGED <<cmdline, main, sock>> /\ main.pc = "serve"
    BY <1>6, Zenon DEF DialPpp, MayDial, startVars
  <2>3. PICK b : b = sock.addr
    OBVIOUS
  <2>4. ASSUME sock.exists, PlainUpTo(n + 1)' PROVE LeftBehind(n + 1, b)'
    <3>1. PlainUpTo(n)
      BY <1>5, <2>2, <2>4, Zenon
    <3>2. LeftBehind(n, b)
      BY <1>2, <2>3, <2>4, <3>1, Zenon DEF AddressInv, LeftBehind, PlainUpTo
    <3> QED BY <1>1, <1>2, <2>1, <2>2, <3>2, NewEntry, Zenon
  <2>5. sock.exists => b \in Address
    BY <2>3, Zenon DEF AddressInv
  <2> QED BY <1>4, <2>1, <2>2, <2>3, <2>4, <2>5, Zenon DEF Behind
<1>7. ASSUME DialNoSock(d) \/ DialBare(d) PROVE AddressInv'
  <2>1. UNCHANGED <<cmdline, main, sock, log>>
    BY <1>7, Zenon DEF DialNoSock, DialBare, vars, startVars
  <2>2. NoDial
    BY <2>1, Zenon DEF NoDial
  <2> QED BY <2>2, NotDialled, Zenon
<1>8. ASSUME DialSock(d) PROVE AddressInv'
  <2>1. PICK a : a = SetAddr(d)
    OBVIOUS
  <2>2. /\ Logged(d, a) /\ UNCHANGED <<cmdline, main>> /\ main.pc = "serve"
        /\ sock.exists /\ sock' = [sock EXCEPT !.addr = a]
    BY <1>8, <2>1, Zenon DEF DialSock, MayDial, startVars
  <2>3. sock'.addr = a
    BY <1>1, <2>2, Zenon DEF SockState
  <2>5. a \in Address /\ a # ToPty
    <3>1. sock.addr \in Address
      BY <2>2, Zenon DEF AddressInv
    <3>2. a \in Address
      BY <2>1, <3>1, ParsedIsAddress, Zenon DEF SetAddr
    <3> QED BY <3>2, AddressIsNotPty, Zenon
  <2>6. ~IsAtd100(d)
    BY <1>1, <1>8, PppNumbers, Zenon DEF DialSock
  <2>4. ASSUME PlainUpTo(n + 1)' PROVE LeftBehind(n + 1, a)'
    <3>1. PlainUpTo(n) /\ IsPlain(d)
      BY <1>5, <2>2, <2>4, Zenon
    <3>2. ASSUME IsNumber(d) PROVE LeftBehind(n + 1, a)'
      <4>1. a = Typed(d)
        BY <1>1, <2>1, <3>1, <3>2, ParsedAsTyped, Zenon DEF SetAddr
      <4> QED BY <1>1, <1>2, <2>2, <3>2, <4>1, NewEntry, Zenon
    <3>3. ASSUME ~IsNumber(d) PROVE LeftBehind(n + 1, a)'
      <4>1. a = sock.addr
        BY <1>1, <2>1, <3>1, <3>3, ParsedAsTyped, Zenon DEF SetAddr
      <4>2. LeftBehind(n, a)
        BY <1>2, <2>2, <3>1, <4>1, Zenon DEF AddressInv, LeftBehind, PlainUpTo
      <4> QED BY <1>1, <1>2, <2>2, <3>3, <4>2, NewEntry, Zenon
    <3> QED BY <3>2, <3>3, Zenon
  <2> QED BY <1>4, <2>2, <2>3, <2>4, <2>5, <2>6, Zenon DEF Behind
<1> QED BY <1>6, <1>7, <1>8, Zenon DEF Dial

\* Every step keeps it.
LEMMA AddressStep ==
  ASSUME TypeOK, CallbackInv, AddressInv, [Next]_vars
  PROVE  AddressInv'
<1>1. main \in MainState /\ sock \in SockState
  BY Zenon DEF TypeOK
<1>2. ASSUME OptionModel \/ OptionOther \/ OptionsDone \/ MakeUsbAndPty \/ PtyModeOnly,
             UNCHANGED log
      PROVE  AddressInv'
  <2>1. UNCHANGED <<cmdline, sock>> /\ main.pc # "serve"
    BY <1>2, Zenon DEF OptionModel, OptionOther, OptionsDone, MakeUsbAndPty, PtyModeOnly
  <2> QED BY <1>2, <2>1, NotDialled, Zenon DEF NoDial
<1>3. ASSUME ConstructSock, UNCHANGED log PROVE AddressInv'
  <2>1. ~sock.exists /\ main.pc # "serve"
    BY <1>3, Zenon DEF ConstructSock, CallbackInv
  <2>2. UNCHANGED cmdline /\ (sock' = sock \/ sock'.addr = Configured(cmdline))
    BY <1>3, Zenon DEF ConstructSock, NoSock
  <2> QED BY <1>3, <2>1, <2>2, NotDialled, Zenon DEF NoDial
<1>4. ASSUME SetRingCallback \/ SetRecvCallback, UNCHANGED log PROVE AddressInv'
  <2>1. UNCHANGED cmdline /\ main.pc # "serve"
    BY <1>4, Zenon DEF SetRingCallback, SetRecvCallback
  <2>2. sock'.exists = sock.exists /\ sock'.addr = sock.addr
    BY <1>1, <1>4, SMT DEF SetRingCallback, SetRecvCallback, SockState
  <2> QED BY <1>4, <2>1, <2>2, NotDialled, Zenon DEF NoDial
<1>5. ASSUME Line, UNCHANGED log PROVE AddressInv'
  <2>1. UNCHANGED <<cmdline, main, sock>>
    BY <1>5, Zenon DEF Line, AcceptCaller, RingCaller, ReceivePayload, DeliverPayload, HangUp,
       startVars
  <2> QED BY <1>5, <2>1, NotDialled, Zenon DEF NoDial
<1>6. ASSUME UNCHANGED vars PROVE AddressInv'
  BY <1>6, NotDialled, Zenon DEF NoDial, vars, startVars
<1> QED BY <1>2, <1>3, <1>4, <1>5, <1>6, DialledStep, Zenon DEF Next, MainThread

\* Only 100 and 168, and certainly ATD100, are calls to the pseudo-terminal; as
\* long as no number wraps, every other goes to the number that was dialled,
\* less a first digit without T, P or a blank, or to the last one that could
\* be read, or to the address of the command line.
THEOREM CallsGoAsDialled == Spec => []CallsAsDialled
<1>1. DiallingInit => TypeOK /\ CallbackInv /\ AddressInv
  BY InitTypeOK, InitCallbackInv, InitAddressInv
<1>2. AddressInv => CallsAsDialled
  BY Zenon DEF AddressInv
<1> QED BY <1>1, <1>2, TypeStep, CallbackStep, AddressStep, PTL DEF Spec

-----------------------------------------------------------------------------
(* The program that was asked for.                                         *)

\* Among the first k options, the last that names a model.
IsLastModel(i, k) ==
  /\ i \in 1..k /\ cmdline.opts[i].opt = "m"
  /\ \A j \in i + 1 .. k : cmdline.opts[j].opt # "m"
AskedToServe(k) == \E i \in 1..k : cmdline.opts[i].opt = "s"

\* The first k options are worked off: the others are left, and the registry
\* has the last model that was named, if any was.
WorkedOff(k) ==
  /\ k + Len(main.opts) = Len(cmdline.opts)
  /\ \A i \in 1..Len(main.opts) : main.opts[i] = cmdline.opts[k + i]
  /\ \/ /\ \A i \in 1..k : cmdline.opts[i].opt # "m"
        /\ current_modem = NoModem /\ instance = NoModem
     \/ /\ current_modem = instance /\ instance.name \in Registry
        /\ \E i \in 1..k : IsLastModel(i, k) /\ instance.name = cmdline.opts[i].name
  /\ main.is_server <=> AskedToServe(k)

StartedInv ==
  /\ main.pc = "options" => \E k \in 0..Len(cmdline.opts) : WorkedOff(k)
  /\ main.pc \notin {"options", "exit"} =>
       /\ current_modem = instance /\ instance.name = Asked(cmdline)
       /\ main.is_server <=> AskedToServe(Len(cmdline.opts))
  /\ main.pc \in {"ring_callback", "recv_callback"} => sock.exists /\ SocketMode(cmdline)
  /\ main.pc = "serve" => (sock.exists <=> SocketMode(cmdline))
  /\ sock.exists => (lsn.pc # "off" <=> main.is_server)

\* Among all options the last that names a model is the one that was asked for.
LEMMA LastIsAsked ==
  ASSUME cmdline.opts \in Seq(Option),
         NEW i, IsLastModel(i, Len(cmdline.opts))
  PROVE  Asked(cmdline) = cmdline.opts[i].name
<1> DEFINE asked == {j \in DOMAIN cmdline.opts : cmdline.opts[j].opt = "m"}
           c == CHOOSE j \in asked : \A h \in asked : h <= j
<1>1. DOMAIN cmdline.opts = 1..Len(cmdline.opts) /\ Len(cmdline.opts) \in Nat
  BY SMT
<1>2. i \in asked /\ \A h \in asked : h <= i
  BY <1>1, SMT DEF IsLastModel
<1>3. c \in asked /\ \A h \in asked : h <= c
  BY <1>2, Zenon
<1>4. asked \subseteq Int
  BY <1>1, SMT
<1> HIDE DEF c
<1>5. i = c
  <2> HIDE DEF asked
  <2> QED BY <1>2, <1>3, <1>4, SMT
<1>6. Asked(cmdline) = cmdline.opts[c].name
  BY <1>2, Zenon DEF Asked, c
<1> QED BY <1>5, <1>6, Zenon

\* Where no option names one it is Omron's.
LEMMA OmronIsAsked ==
  ASSUME cmdline.opts \in Seq(Option),
         \A i \in 1..Len(cmdline.opts) : cmdline.opts[i].opt # "m"
  PROVE  Asked(cmdline) = "Omron"
<1>1. DOMAIN cmdline.opts = 1..Len(cmdline.opts)
  BY SMT
<1> QED BY <1>1, Zenon DEF Asked

\* The option at the head of those that are left is the next one.
LEMMA NextOption ==
  ASSUME cmdline.opts \in Seq(Option), main.opts \in Seq(Option), main.opts # <<>>,
         NEW k \in 0..Len(cmdline.opts), WorkedOff(k)
  PROVE  /\ k + 1 \in 0..Len(cmdline.opts) /\ Head(main.opts) = cmdline.opts[k + 1]
         /\ (k + 1) + Len(Tail(main.opts)) = Len(cmdline.opts)
         /\ \A i \in 1..Len(Tail(main.opts)) :
              Tail(main.opts)[i] = cmdline.opts[(k + 1) + i]
<1> DEFINE o == cmdline.opts
           m == main.opts
<1>1. k + Len(m) = Len(o) /\ \A i \in 1..Len(m) : m[i] = o[k + i]
  BY Zenon DEF WorkedOff
<1>2. /\ o \in Seq(Option) /\ m \in Seq(Option) /\ m # <<>> /\ k \in 0..Len(o)
  OBVIOUS
<1> HIDE DEF o, m
<1>3. /\ Len(m) \in Nat \ {0} /\ Len(o) \in Nat /\ Head(m) = m[1]
      /\ Len(Tail(m)) = Len(m) - 1
      /\ \A i \in 1..Len(Tail(m)) : Tail(m)[i] = m[i + 1]
  BY <1>2, SMT
<1>4. k + 1 \in 0..Len(o) /\ (k + 1) + Len(Tail(m)) = Len(o)
  BY <1>1, <1>2, <1>3, SMT
<1>5. Head(m) = o[k + 1]
  BY <1>1, <1>3, SMT
<1>6. ASSUME NEW i \in 1..Len(Tail(m)) PROVE Tail(m)[i] = o[(k + 1) + i]
  <2>1. i + 1 \in 1..Len(m) /\ k + (i + 1) = (k + 1) + i
    BY <1>2, <1>3, SMT
  <2> QED BY <1>1, <1>3, <2>1, Zenon
<1> QED BY <1>4, <1>5, <1>6, Zenon DEF o, m

\* It may be the last that names a model, or one that asks for a server.
LEMMA OneMoreOption ==
  ASSUME NEW k \in Nat
  PROVE  /\ AskedToServe(k + 1) <=> AskedToServe(k) \/ cmdline.opts[k + 1].opt = "s"
         /\ cmdline.opts[k + 1].opt = "m" => IsLastModel(k + 1, k + 1)
         /\ cmdline.opts[k + 1].opt # "m" =>
              /\ \A i : IsLastModel(i, k) => IsLastModel(i, k + 1)
              /\ (\A i \in 1..k : cmdline.opts[i].opt # "m")
                   => \A i \in 1..k + 1 : cmdline.opts[i].opt # "m"
<1>1. \A i : i \in 1..k + 1 <=> i \in 1..k \/ i = k + 1
  BY SMT
<1>2. \A i \in 1..k : \A j : j \in i + 1 .. k + 1 <=> j \in i + 1 .. k \/ j = k + 1
  BY SMT
<1>3. k + 1 \in 1..k + 1 /\ (k + 1) + 1 .. k + 1 = {}
  BY SMT
<1> QED BY <1>1, <1>2, <1>3, Zenon DEF AskedToServe, IsLastModel

\* In the beginning no option is worked off.
LEMMA InitStartedInv == DiallingInit => StartedInv
<1> SUFFICES ASSUME DiallingInit PROVE StartedInv
  OBVIOUS
<1>1. cmdline.opts \in Seq(Option)
  BY StartUpAssumption, Zenon DEF DiallingInit, Init, StartUpAssumption
<1>2. /\ main.pc = "options" /\ main.opts = cmdline.opts /\ main.is_server = FALSE
      /\ instance = NoModem /\ current_modem = NoModem /\ ~sock.exists
  BY Zenon DEF DiallingInit, Init, NoSock
<1>3. 0 \in 0..Len(cmdline.opts) /\ 1..0 = {} /\ 0 + Len(cmdline.opts) = Len(cmdline.opts)
      /\ \A i \in 1..Len(cmdline.opts) : 0 + i = i
  BY <1>1, SMT
<1>4. WorkedOff(0)
  BY <1>2, <1>3, Zenon DEF WorkedOff, AskedToServe
<1> QED BY <1>2, <1>3, <1>4, SMT DEF StartedInv

\* Working off an option keeps it.
LEMMA OptionsStarted ==
  ASSUME TypeOK, CallbackInv, StartedInv, OptionModel \/ OptionOther
  PROVE  StartedInv'
<1>1. /\ main \in MainState /\ main.opts \in Seq(Option) /\ main.opts # <<>>
      /\ main.pc = "options" /\ ~sock.exists
      /\ UNCHANGED <<cmdline, sock, lsn>>
  BY Zenon DEF TypeOK, MainState, CallbackInv, OptionModel, OptionOther, lineVars
<1>2. cmdline.opts \in Seq(Option)
  BY StartUpAssumption, Zenon DEF TypeOK, StartUpAssumption
<1>3. PICK k \in 0..Len(cmdline.opts) : WorkedOff(k)
  BY <1>1, Zenon DEF StartedInv
<1>4. /\ k + 1 \in 0..Len(cmdline.opts) /\ Head(main.opts) = cmdline.opts[k + 1]
      /\ (k + 1) + Len(Tail(main.opts)) = Len(cmdline.opts)
      /\ \A i \in 1..Len(Tail(main.opts)) : Tail(main.opts)[i] = cmdline.opts[(k + 1) + i]
  BY <1>1, <1>2, <1>3, NextOption, Zenon
<1>5. k \in Nat
  BY <1>2, <1>3, SMT
<1>6. /\ AskedToServe(k + 1) <=> AskedToServe(k) \/ cmdline.opts[k + 1].opt = "s"
      /\ cmdline.opts[k + 1].opt = "m" => IsLastModel(k + 1, k + 1)
      /\ cmdline.opts[k + 1].opt # "m" =>
           /\ \A i : IsLastModel(i, k) => IsLastModel(i, k + 1)
           /\ (\A i \in 1..k : cmdline.opts[i].opt # "m")
                => \A i \in 1..k + 1 : cmdline.opts[i].opt # "m"
  BY <1>5, OneMoreOption, Zenon
<1>7. \A i : i \in 1..k + 1 <=> i \in 1..k \/ i = k + 1
  BY <1>5, SMT
<1>8. (WorkedOff(k + 1))' /\ main'.pc = "options" => StartedInv'
  BY <1>1, <1>4, SMT DEF StartedInv
<1>9. main'.pc = "exit" => StartedInv'
  BY <1>1, SMT DEF StartedInv
<1>10. ASSUME OptionModel PROVE StartedInv'
  <2> DEFINE n == Head(main.opts).name
  <2>1. CASE n \notin Registry
    <3>1. main' = [main EXCEPT !.pc = "exit"]
      BY <1>10, <2>1, Zenon DEF OptionModel
    <3>2. main'.pc = "exit"
      BY <1>1, <3>1, Zenon DEF MainState
    <3> QED BY <1>9, <3>2
  <2>2. CASE n \in Registry
    <3>1. /\ main' = [main EXCEPT !.opts = Tail(@)] /\ Head(main.opts).opt = "m"
          /\ instance' = Instance(n) /\ current_modem' = Instance(n)
      BY <1>10, <2>2, Zenon DEF OptionModel
    <3>2. /\ main'.pc = "options" /\ main'.opts = Tail(main.opts)
          /\ main'.is_server = main.is_server
      BY <1>1, <3>1, Zenon DEF MainState
    <3>3. Instance(n).name = n
      BY Zenon DEF Instance
    <3>4. cmdline.opts[k + 1].opt = "m" /\ cmdline.opts[k + 1].name = n
      BY <1>4, <3>1, Zenon
    <3>5. k + 1 \in 1..k + 1 /\ IsLastModel(k + 1, k + 1)
      BY <1>6, <1>7, <3>4, Zenon
    <3>6. AskedToServe(k + 1) <=> AskedToServe(k)
      <4>1. "m" # "s"
        OBVIOUS
      <4> QED BY <1>6, <3>4, <4>1, Zenon
    <3>7. main.is_server <=> AskedToServe(k + 1)
      BY <1>3, <3>6, Zenon DEF WorkedOff
    <3>8. (WorkedOff(k + 1))'
      BY <1>1, <1>4, <2>2, <3>1, <3>2, <3>3, <3>4, <3>5, <3>7, Zenon
         DEF WorkedOff, AskedToServe, IsLastModel
    <3> QED BY <1>8, <3>2, <3>8
  <2> QED BY <2>1, <2>2
<1>11. ASSUME OptionOther PROVE StartedInv'
  <2>1. Head(main.opts).opt # "m" /\ UNCHANGED <<instance, current_modem>>
    BY <1>11, Zenon DEF OptionOther
  <2>2. CASE Head(main.opts).opt \in {"h", "?"}
    <3>1. main' = [main EXCEPT !.pc = "exit"]
      BY <1>11, <2>2, Zenon DEF OptionOther
    <3>2. main'.pc = "exit"
      BY <1>1, <3>1, Zenon DEF MainState
    <3> QED BY <1>9, <3>2
  <2>3. CASE Head(main.opts).opt \notin {"h", "?"}
    <3>1. main' = [main EXCEPT !.opts = Tail(@),
                               !.is_server = @ \/ Head(main.opts).opt = "s"]
      BY <1>11, <2>3, Zenon DEF OptionOther
    <3>2. /\ main'.pc = "options" /\ main'.opts = Tail(main.opts)
          /\ main'.is_server = (main.is_server \/ Head(main.opts).opt = "s")
      BY <1>1, <3>1, Zenon DEF MainState
    <3>3. main'.is_server <=> AskedToServe(k + 1)
      BY <1>3, <1>4, <1>6, <3>2, Zenon DEF WorkedOff
    <3>4. \/ /\ \A i \in 1..k + 1 : cmdline.opts[i].opt # "m"
             /\ current_modem = NoModem /\ instance = NoModem
          \/ /\ current_modem = instance /\ instance.name \in Registry
             /\ \E i \in 1..k + 1 : IsLastModel(i, k + 1)
                                    /\ instance.name = cmdline.opts[i].name
      BY <1>3, <1>4, <1>6, <1>7, <2>1, Zenon DEF WorkedOff
    <3>5. (WorkedOff(k + 1))'
      BY <1>1, <1>4, <2>1, <3>2, <3>3, <3>4, Zenon DEF WorkedOff, AskedToServe, IsLastModel
    <3> QED BY <1>8, <3>2, <3>5
  <2> QED BY <2>2, <2>3
<1> QED BY <1>10, <1>11

\* When they are all worked off the modem is the one that was asked for.
LEMMA OptionsDoneStarted ==
  ASSUME TypeOK, CallbackInv, StartedInv, OptionsDone
  PROVE  StartedInv'
<1>1. /\ main \in MainState /\ main.opts = <<>> /\ main.pc = "options" /\ ~sock.exists
      /\ main' = [main EXCEPT !.pc = "usb"] /\ UNCHANGED <<cmdline, sock, lsn>>
  BY Zenon DEF TypeOK, CallbackInv, OptionsDone, lineVars
<1>2. main'.pc = "usb" /\ main'.is_server = main.is_server
  BY <1>1, Zenon DEF MainState
<1>3. cmdline.opts \in Seq(Option)
  BY StartUpAssumption, Zenon DEF TypeOK, StartUpAssumption
<1>4. PICK k \in 0..Len(cmdline.opts) : WorkedOff(k)
  BY <1>1, Zenon DEF StartedInv
<1>5. k = Len(cmdline.opts)
  <2>1. k + Len(main.opts) = Len(cmdline.opts)
    BY <1>4, Zenon DEF WorkedOff
  <2>2. Len(main.opts) = 0
    BY <1>1, SMT
  <2> QED BY <1>3, <2>1, <2>2, SMT
<1>6. main.is_server <=> AskedToServe(Len(cmdline.opts))
  BY <1>4, <1>5, Zenon DEF WorkedOff
<1>7. current_modem' = instance' /\ instance'.name = Asked(cmdline)
  <2>1. CASE /\ \A i \in 1..k : cmdline.opts[i].opt # "m"
             /\ current_modem = NoModem /\ instance = NoModem
    <3>1. Asked(cmdline) = "Omron"
      BY <1>3, <1>5, <2>1, OmronIsAsked, Zenon
    <3>2. instance' = Instance("Omron") /\ current_modem' = Instance("Omron")
      BY <2>1, Zenon DEF OptionsDone
    <3>3. Instance("Omron").name = "Omron"
      BY Zenon DEF Instance
    <3> QED BY <3>1, <3>2, <3>3, Zenon
  <2>2. CASE /\ current_modem = instance /\ instance.name \in Registry
             /\ \E i \in 1..k : IsLastModel(i, k) /\ instance.name = cmdline.opts[i].name
    <3>1. instance.name = Asked(cmdline)
      BY <1>3, <1>5, <2>2, LastIsAsked, Zenon
    <3>2. current_modem # NoModem
      <4>1. NoModem.name \notin Registry
        BY SMT DEF NoModem, Registry
      <4> QED BY <2>2, <4>1, Zenon
    <3>3. UNCHANGED <<instance, current_modem>>
      BY <3>2, Zenon DEF OptionsDone
    <3> QED BY <2>2, <3>1, <3>3, Zenon
  <2> QED BY <1>4, <2>1, <2>2, Zenon DEF WorkedOff
<1>8. (AskedToServe(Len(cmdline.opts)))' <=> AskedToServe(Len(cmdline.opts))
  BY <1>1, Zenon DEF AskedToServe
<1>9. (Asked(cmdline))' = Asked(cmdline)
  BY <1>1, Zenon
<1> QED BY <1>1, <1>2, <1>6, <1>7, <1>8, <1>9, SMT DEF StartedInv

\* What follows leaves the options and the modem alone, makes the socket that
\* was asked for and starts the listen thread of a server.
LEMMA LinksStarted ==
  ASSUME TypeOK, CallbackInv, StartedInv, Running,
         MakeUsbAndPty \/ PtyModeOnly \/ ConstructSock \/ SetRingCallback \/ SetRecvCallback
  PROVE  StartedInv'
<1>1. /\ main \in MainState /\ sock \in SockState /\ lsn \in ListenState
      /\ UNCHANGED <<cmdline, instance, current_modem>>
  BY Zenon DEF TypeOK, MakeUsbAndPty, PtyModeOnly, ConstructSock, SetRingCallback,
               SetRecvCallback
<1>2. /\ main.pc \in {"usb", "sock", "ring_callback", "recv_callback"}
      /\ main'.pc \in {"usb", "sock", "ring_callback", "recv_callback", "serve"}
      /\ main'.is_server = main.is_server
  BY <1>1, SMT DEF MakeUsbAndPty, PtyModeOnly, ConstructSock, SetRingCallback,
                   SetRecvCallback, MainState
<1>3. /\ (AskedToServe(Len(cmdline.opts)))' <=> AskedToServe(Len(cmdline.opts))
      /\ (Asked(cmdline))' = Asked(cmdline)
      /\ (SocketMode(cmdline))' <=> SocketMode(cmdline)
  BY <1>1, Zenon DEF AskedToServe
<1>4. /\ main'.pc \in {"ring_callback", "recv_callback"} => sock'.exists /\ SocketMode(cmdline)
      /\ main'.pc = "serve" => (sock'.exists <=> SocketMode(cmdline))
      /\ sock'.exists => (lsn'.pc # "off" <=> main.is_server)
  <2>1. ASSUME MakeUsbAndPty \/ PtyModeOnly PROVE <1>4!:
    <3>1. /\ ~sock.exists /\ UNCHANGED sock
          /\ main'.pc \notin {"ring_callback", "recv_callback"}
          /\ main'.pc = "serve" => ~SocketMode(cmdline)
      BY <1>1, <2>1, SMT DEF MakeUsbAndPty, PtyModeOnly, MainState, CallbackInv
    <3> QED BY <3>1, Zenon
  <2>2. ASSUME ConstructSock PROVE <1>4!:
    <3>1. ~sock.exists /\ main.pc = "sock" /\ SocketMode(cmdline)
      BY <2>2, SMT DEF ConstructSock, CallbackInv
    <3>2. CASE /\ lsn' = [lsn EXCEPT !.pc = IF main.is_server THEN "accept" ELSE "off"]
               /\ sock' = [NoSock EXCEPT !.exists = TRUE, !.addr = Configured(cmdline)]
      <4>1. sock'.exists
        BY <3>2, Zenon DEF NoSock
      <4>2. lsn'.pc = IF main.is_server THEN "accept" ELSE "off"
        BY <1>1, <3>2, Zenon DEF ListenState
      <4> QED BY <3>1, <4>1, <4>2, SMT
    <3>3. CASE UNCHANGED <<main, sock, lsn>>
      BY <3>1, <3>3, SMT
    <3> QED BY <2>2, <3>2, <3>3, Zenon DEF ConstructSock
  <2>3. ASSUME SetRingCallback \/ SetRecvCallback PROVE <1>4!:
    <3>1. sock.exists /\ SocketMode(cmdline) /\ (lsn.pc # "off" <=> main.is_server)
      BY <2>3, SMT DEF SetRingCallback, SetRecvCallback, StartedInv
    <3>2. sock'.exists = sock.exists /\ UNCHANGED lsn
      BY <1>1, <2>3, SMT DEF SetRingCallback, SetRecvCallback, SockState, lineVars
    <3> QED BY <3>1, <3>2, Zenon
  <2> QED BY <2>1, <2>2, <2>3
<1>5. /\ current_modem = instance /\ instance.name = Asked(cmdline)
      /\ main.is_server <=> AskedToServe(Len(cmdline.opts))
  BY <1>2, SMT DEF StartedInv
<1> QED BY <1>1, <1>2, <1>3, <1>4, <1>5, SMT DEF StartedInv

\* The line and dialling touch none of it: the listen thread goes on
\* listening, and the socket stays.
LEMMA RunStarted ==
  ASSUME TypeOK, CallbackInv, StartedInv,
         \/ Line
         \/ \E d \in Numbers : Dial(d)
  PROVE  StartedInv'
<1>1. main \in MainState /\ sock \in SockState /\ lsn \in ListenState
  BY Zenon DEF TypeOK
<1>2. /\ UNCHANGED <<cmdline, main, instance, current_modem>>
      /\ sock'.exists = sock.exists
      /\ (lsn'.pc # "off" <=> lsn.pc # "off")
  <2>1. ASSUME Line PROVE <1>2!:
    BY <1>1, <2>1, SMT DEF Line, AcceptCaller, RingCaller, ReceivePayload, DeliverPayload,
                           HangUp, ListenState, startVars
  <2>2. ASSUME NEW d \in Numbers, Dial(d) PROVE <1>2!:
    <3>1. UNCHANGED <<cmdline, main, instance, current_modem, lsn>>
      BY <2>2, Zenon DEF Dial, DialPpp, DialNoSock, DialBare, DialSock, startVars, lineVars, vars
    <3>2. UNCHANGED sock \/ sock' = [sock EXCEPT !.addr = SetAddr(d)]
      BY <2>2, Zenon DEF Dial, DialPpp, DialNoSock, DialBare, DialSock, vars
    <3>3. sock'.exists = sock.exists
      BY <1>1, <3>2, Zenon DEF SockState
    <3> QED BY <3>1, <3>3, Zenon
  <2> QED BY <2>1, <2>2, Zenon
<1>3. /\ (\E k \in 0..Len(cmdline.opts) : WorkedOff(k))'
           <=> \E k \in 0..Len(cmdline.opts) : WorkedOff(k)
      /\ (AskedToServe(Len(cmdline.opts)))' <=> AskedToServe(Len(cmdline.opts))
      /\ (Asked(cmdline))' = Asked(cmdline)
      /\ (SocketMode(cmdline))' <=> SocketMode(cmdline)
  BY <1>2, Zenon DEF WorkedOff, IsLastModel, AskedToServe
<1> QED BY <1>2, <1>3, Zenon DEF StartedInv

\* Every step keeps it.
LEMMA StartedStep ==
  ASSUME TypeOK, CallbackInv, StartedInv, [Next]_vars
  PROVE  StartedInv'
<1>1. CASE UNCHANGED vars
  <2>1. UNCHANGED <<cmdline, main, instance, current_modem, sock, lsn>>
    BY <1>1, Zenon DEF vars, startVars, lineVars
  <2> QED BY <2>1, Zenon DEF StartedInv, WorkedOff, IsLastModel, AskedToServe
<1> QED BY <1>1, OptionsStarted, OptionsDoneStarted, LinksStarted, RunStarted, Zenon
        DEF Next, MainThread

\* When the event loop begins the program is what its command line asked for:
\* the modem is the last one named, there is a socket exactly when an address
\* and a port were given, and a server listens, and only a server.
THEOREM StartsAsAsked == Spec => []StartedAsAsked
<1>1. ASSUME TypeOK, CallbackInv, StartedInv PROVE StartedAsAsked
  <2> SUFFICES ASSUME main.pc = "serve" PROVE StartedAsAsked
    BY Zenon DEF StartedAsAsked
  <2>1. cmdline.opts \in Seq(Option)
    BY <1>1, StartUpAssumption, Zenon DEF TypeOK, StartUpAssumption
  <2>2. DOMAIN cmdline.opts = 1..Len(cmdline.opts)
    BY <2>1, SMT
  <2>3. /\ current_modem = instance /\ instance.name = Asked(cmdline)
        /\ main.is_server <=> AskedToServe(Len(cmdline.opts))
        /\ sock.exists <=> SocketMode(cmdline)
        /\ sock.exists => (lsn.pc # "off" <=> main.is_server)
        /\ ~sock.exists => lsn.pc = "off"
    BY <1>1, SMT DEF StartedInv, CallbackInv
  <2> QED BY <2>2, <2>3, Zenon DEF StartedAsAsked, AskedToServe
<1> QED BY <1>1, InitTypeOK, TypeStep, InitCallbackInv, CallbackStep,
           InitStartedInv, StartedStep, PTL DEF Spec

=============================================================================
