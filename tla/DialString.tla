------------------------------ MODULE DialString ------------------------------
(***************************************************************************)
(* What the program makes of a number: isPPPNumber() and parse_address(),  *)
(* applied to the text behind "ATD", and parse_address() to the address of *)
(* the command line.                                                       *)
(*                                                                         *)
(* A number is taken apart as sscanf() and find() see it: what stands in   *)
(* front (T or P, a blank, nothing), the groups of digits between dashes,  *)
(* the digits behind '#', and what stands behind it all.  A group is the   *)
(* number that was typed, however long, and typed without leading zeros.   *)
(***************************************************************************)
EXTENDS Integers, Sequences

CONSTANTS
  UInt,              \* how many values an unsigned int has, 2^32
  ULong              \* an unsigned long: 2^32 or 2^64, as the build has it

ASSUME WidthAssumption ==
  /\ UInt \in Nat /\ UInt > 2 * 65536
  /\ ULong \in Nat /\ ULong >= UInt /\ ULong % UInt = 0

NoPort == -1
TCP_DEFAULT_PORT == 10023

DialText == [mark   : {"tone", "blank", "none"},
             groups : Seq(Nat),
             port   : Nat \cup {NoPort},
             tail   : {"none", "dash", "comma", "dash_comma"}]

Byte == 0..255
Port == {n \in Nat : n <= 65535}
Octets == [1..4 -> Byte]
Address == [ip : Octets, port : Port]

-----------------------------------------------------------------------------
(* sscanf("%u").                                                           *)

\* An unsigned long stored into an int: reduced to 32 bits, then signed.
AsInt(n) == LET u == n % UInt IN IF u < UInt \div 2 THEN u ELSE u - UInt

\* strtoul() takes a sign, and what is out of its range for its largest value.
Scan(n) == AsInt(IF n \in 1 - ULong .. ULong - 1 THEN n ELSE ULong - 1)

\* Mutant: what is negative is not refused.
ScansToAddressSigned(groups, port) ==
  /\ IF port = NoPort THEN Len(groups) >= 4 ELSE Len(groups) = 4
  /\ \A i \in 1..4 : Scan(groups[i]) <= 255
  /\ port # NoPort => Scan(port) \in Port \ {0}

\* parse_address() returns true: four conversions, or five with '#', all of
\* them in range.  Without '#' a fifth group is not looked at.
ScansToAddress(groups, port) ==
  /\ IF port = NoPort THEN Len(groups) >= 4 ELSE Len(groups) = 4
  /\ \A i \in 1..4 : Scan(groups[i]) \in Byte
  /\ port # NoPort => Scan(port) \in Port \ {0}

\* What it stores in *parsed_addr then, and only then.
ParsedAddress(groups, port) ==
  [ip   |-> [i \in 1..4 |-> Scan(groups[i])],
   port |-> IF port = NoPort THEN TCP_DEFAULT_PORT ELSE Scan(port)]

-----------------------------------------------------------------------------
(* The dial string.                                                        *)

\* The largest power of ten in a number of two digits or more.
Magnitude(n) == CHOOSE m \in {10^k : k \in 1..9} : m <= n /\ n < 10 * m

\* line.substr(4): the character behind "ATD" is dropped, mark or digit.  The
\* dash behind a dropped one-digit group is the sign of the next.
Substr4(d) ==
  IF d.mark # "none" \/ d.groups = <<>> THEN d.groups
  ELSE IF Head(d.groups) >= 10
       THEN <<Head(d.groups) % Magnitude(Head(d.groups))>> \o Tail(d.groups)
  ELSE IF Len(d.groups) = 1 THEN <<>>
  ELSE <<-d.groups[2]>> \o SubSeq(d.groups, 3, Len(d.groups))

\* Nothing behind "ATD": substr(4) throws.
IsBare(d) == d.mark = "none" /\ d.groups = <<>> /\ d.port = NoPort /\ d.tail = "none"

\* T or P, a dash at the very end and an extension behind a comma are
\* stripped, in this order; a blank or a dash in front of the comma are not.
isPPPNumber(d) ==
  /\ d.mark # "blank" /\ d.tail # "dash_comma"
  /\ d.groups \in {<<100>>, <<168>>} /\ d.port = NoPort

=============================================================================
