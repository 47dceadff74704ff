----------------------------- MODULE MCDialling -----------------------------
(***************************************************************************)
(* A small instance of Dialling for TLC.                                   *)
(***************************************************************************)
EXTENDS Dialling

Number(mark, groups, port, tail) ==
  [mark |-> mark, groups |-> groups, port |-> port, tail |-> tail]
Tone(groups, port) == Number("tone", groups, port, "none")

\* Numbers that can be read ...
GoodNumbers ==
  {Tone(<<10, 0, 0, 1>>, NoPort), Number("blank", <<10, 0, 0, 2>>, 7000, "dash"),
   Tone(<<1, 2, 3, 4, 5>>, NoPort)}
\* ... that cannot ...
BadNumbers ==
  {Tone(<<10, 0, 0, 256>>, NoPort), Tone(<<10, 0, 0, 3>>, 70000), Tone(<<>>, NoPort),
   Tone(<<1, 2, 3, 4, 5>>, 80), Number("blank", <<100>>, NoPort, "none"),
   Number("none", <<100>>, NoPort, "dash_comma")}
\* ... that lose their first digit, or get a sign from what follows it ...
UnmarkedNumbers ==
  {Number("none", <<192, 168, 0, 1>>, NoPort, "none"),
   Number("none", <<7, 8, 9, 10>>, NoPort, "none"),
   Number("none", <<7, 8, 9, 10, 11>>, NoPort, "none"),
   Number("none", <<7, 0, 9, 10, 11>>, NoPort, "none")}
\* ... that wrap or are out of the range of strtoul() ...
LongNumbers ==
  {Tone(<<UInt + 10, 0, 0, 4>>, NoPort), Tone(<<ULong + 10, 0, 0, 5>>, NoPort)}
\* ... and of the PPP service.
PppNumbers ==
  {Tone(<<100>>, NoPort), Number("none", <<100>>, NoPort, "none"),
   Number("none", <<168>>, NoPort, "comma")}

AllNumbers ==
  GoodNumbers \cup BadNumbers \cup UnmarkedNumbers \cup LongNumbers \cup PppNumbers
  \cup {Number("none", <<>>, NoPort, "none")}

Dotted == [form |-> "dotted", ip |-> <<192, 168, 0, 9>>]
Dashed == [form |-> "dashed", number |-> Number("none", <<192, 168, 0, 9>>, NoPort, "none")]
CommandLine(opts, ip, port) == [opts |-> opts, ip |-> ip, port |-> port]
M(n) == [opt |-> "m", name |-> n]
O(c) == [opt |-> c]

SomeCommandLines ==
  {CommandLine(<<>>, [form |-> "none"], 0),
   CommandLine(<<M("Lucent")>>, Dotted, 10023),
   CommandLine(<<M("Lucent"), M("SmartSCM"), M("SmartSCM")>>, [form |-> "word"], 10023),
   CommandLine(<<O("s"), O("v")>>, Dotted, 10023),
   CommandLine(<<O("s"), M("Lucent"), M("Omron")>>, Dashed, 80000),
   CommandLine(<<O("v")>>, Dotted, -1),
   CommandLine(<<M("Nokia"), O("s")>>, Dotted, 10023),
   CommandLine(<<O("s"), O("h")>>, Dotted, 10023)}

=============================================================================
