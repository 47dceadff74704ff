------------------------------- MODULE BulkOut -------------------------------
(***************************************************************************)
(* What the host writes to the modem, byte by byte: how a bulk OUT thread  *)
(* unpacks transfers into its buffer, cuts lines off it while the carrier  *)
(* is down and passes all of it to the link while it is up.  The four      *)
(* modems have a thread each, the same but for Omron's header and the NULs *)
(* Lucent skips.                                                           *)
(*                                                                         *)
(* Of process_at() this module knows that it may raise the carrier and     *)
(* that a bare ATD ends the process, of handle_disconnect() that it drops  *)
(* the carrier; CallSession has the rest of both, and of send(), with      *)
(* transfers of whole lines instead of bytes.                              *)
(***************************************************************************)
EXTENDS Integers, Sequences

CONSTANTS
  Transfers,         \* what the host may write in one transfer
  MaxTransfers,      \* how many of them
  MaxDrops           \* how often it hangs up

Byte == 0..255
NUL == 0
CR == 13
ATD == <<65, 84, 68>>

ASSUME BulkOutAssumption ==
  Transfers \subseteq Seq(Byte) /\ MaxTransfers \in Nat /\ MaxDrops \in Nat

Models == {"Lucent", "Omron", "OnlineStation", "SmartSCM"}

VARIABLES
  model,             \* ctx.current_modem
  has_sock,          \* ctx.sock is not null
  char_signed,       \* whether the compiler's char is
  connected,         \* ctx.connected
  pc,                \* the thread: in ep_read(), in a loop or in process_at()
  buffer,
  line,              \* the line process_at() was given
  died,              \* an exception was not caught
  received,          \* history: the payload of all transfers
  taken,             \* history: the bytes that left the buffer, and whereto
  env                \* transfers and drops so far, the last transfer; raised: how
                     \* much was taken when the carrier rose; fell: whether it
                     \* dropped behind the off-line loop

vars == <<model, has_sock, char_signed, connected, pc, buffer, line, died,
          received, taken, env>>

Init ==
  /\ model \in Models /\ has_sock \in BOOLEAN /\ char_signed \in BOOLEAN
  /\ connected = FALSE /\ pc = "read" /\ buffer = <<>> /\ line = <<>> /\ died = FALSE
  /\ received = <<>> /\ taken = <<>>
  /\ env = [transfers |-> 0, drops |-> 0, raised |-> 0, fell |-> FALSE, last |-> <<>>]

Running == ~died
MinOf(m, n) == IF m < n THEN m ELSE n

-----------------------------------------------------------------------------
(* Transfers.                                                              *)

AsChar(b) == IF char_signed /\ b >= 128 THEN b - 256 ELSE b

\* pkt.data[0] >> 2, and ret - 1 if that is less.  Of an empty transfer it is
\* negative, whatever the packet before left in pkt.data[0].
PayloadLength(t) == IF t = <<>> THEN -1 ELSE MinOf(AsChar(t[1]) \div 4, Len(t) - 1)

\* Mutant: a payload that is not as long as its header says is an error.
ThrowsOnMismatch(t) ==
  model = "Omron" /\ (t = <<>> \/ AsChar(t[1]) \div 4 # Len(t) - 1)

\* buffer.append() takes its length for a size_t, and one below 0 is too long.
Throws(t) == model = "Omron" /\ PayloadLength(t) < 0

\* Mutant: all that came is the payload.
UnpackAll(t) == IF model = "Omron" THEN Tail(t) ELSE t

Unpack(t) == IF model = "Omron" THEN SubSeq(t, 2, 1 + PayloadLength(t)) ELSE t

\* What the header of a transfer says, as far as it came.
PayloadOf(t) ==
  IF model = "Omron" THEN SubSeq(t, 2, 1 + MinOf(t[1] \div 4, Len(t) - 1)) ELSE t

ReadTransfer(t) ==
  /\ pc = "read" /\ env.transfers < MaxTransfers
  /\ env' = [env EXCEPT !.transfers = @ + 1, !.fell = @ /\ Throws(t),
                        !.last = t]
  /\ IF Throws(t)
     THEN died' = TRUE /\ UNCHANGED <<pc, buffer, received>>
     ELSE /\ buffer' = buffer \o Unpack(t) /\ received' = received \o PayloadOf(t)
          /\ pc' = "offline" /\ UNCHANGED died
  /\ UNCHANGED <<model, has_sock, char_signed, connected, line, taken>>

-----------------------------------------------------------------------------
(* The off-line loop.                                                      *)

\* Lucent erases the NULs in front: n of them.
Skipped(n) ==
  /\ n \in 0..Len(buffer) /\ (n > 0 => model = "Lucent")
  /\ \A i \in 1..n : buffer[i] = NUL
  /\ n < Len(buffer) /\ model = "Lucent" => buffer[n + 1] # NUL

\* The first newline behind the first n bytes.
FirstCR(n, i) ==
  /\ i \in n + 1 .. Len(buffer) /\ buffer[i] = CR
  /\ \A j \in n + 1 .. i - 1 : buffer[j] # CR

NoCR == \A i \in 1..Len(buffer) : buffer[i] # CR

\* The first Len(whereto) bytes leave the buffer.
Take(whereto) ==
  /\ buffer' = SubSeq(buffer, Len(whereto) + 1, Len(buffer))
  /\ taken' = taken \o [j \in 1..Len(whereto) |-> [c |-> buffer[j], to |-> whereto[j]]]

\* Mutant: the newline stays.
TakeLineLeavesCR ==
  /\ pc = "offline" /\ ~connected
  /\ \E n \in 0..Len(buffer), i \in 1..Len(buffer) :
       /\ Skipped(n) /\ FirstCR(n, i)
       /\ Take([j \in 1 .. i - 1 |-> IF j <= n THEN "nul" ELSE "line"])
       /\ line' = SubSeq(buffer, n + 1, i - 1)
       /\ pc' = IF i = n + 1 THEN "offline" ELSE "process_at"
  /\ UNCHANGED <<model, has_sock, char_signed, connected, died, received, env>>

\* Mutant: the carrier is not looked at between two lines.
TakeLineOnline ==
  /\ pc = "offline"
  /\ \E n \in 0..Len(buffer), i \in 1..Len(buffer) :
       /\ Skipped(n) /\ FirstCR(n, i)
       /\ Take([j \in 1..i |-> IF j <= n THEN "nul" ELSE IF j < i THEN "line" ELSE "cr"])
       /\ line' = SubSeq(buffer, n + 1, i - 1)
       /\ pc' = IF i = n + 1 THEN "offline" ELSE "process_at"
  /\ UNCHANGED <<model, has_sock, char_signed, connected, died, received, env>>

\* A line is cut off and given to process_at(), if it is not empty.
TakeLine ==
  /\ pc = "offline" /\ ~connected
  /\ \E n \in 0..Len(buffer), i \in 1..Len(buffer) :
       /\ Skipped(n) /\ FirstCR(n, i)
       /\ Take([j \in 1..i |-> IF j <= n THEN "nul" ELSE IF j < i THEN "line" ELSE "cr"])
       /\ line' = SubSeq(buffer, n + 1, i - 1)
       /\ pc' = IF i = n + 1 THEN "offline" ELSE "process_at"
  /\ UNCHANGED <<model, has_sock, char_signed, connected, died, received, env>>

\* process_at(): some lines raise the carrier.  With a socket the dial string of
\* a bare ATD, which is no PPP number, is looked for behind the end of the line.
process_at ==
  /\ pc = "process_at"
  /\ IF has_sock /\ line = ATD
     THEN died' = TRUE /\ UNCHANGED <<connected, pc, line, env>>
     ELSE /\ pc' = "offline" /\ line' = <<>> /\ UNCHANGED died
          /\ \/ connected' = TRUE /\ env' = [env EXCEPT !.raised = Len(taken)]
             \/ UNCHANGED <<connected, env>>
  /\ UNCHANGED <<model, has_sock, char_signed, buffer, received, taken>>

\* Mutant: one line of each transfer is taken.
OfflineDoneEarly ==
  /\ pc = "offline" /\ pc' = "online"
  /\ \/ connected /\ UNCHANGED <<buffer, taken>>
     \/ /\ ~connected
        /\ \E n \in 0..Len(buffer) : Skipped(n) /\ Take([j \in 1..n |-> "nul"])
  /\ UNCHANGED <<model, has_sock, char_signed, connected, line, died, received, env>>

\* The carrier is up, or there is no whole line.
OfflineDone ==
  /\ pc = "offline" /\ pc' = "online"
  /\ \/ connected /\ UNCHANGED <<buffer, taken>>
     \/ /\ ~connected /\ NoCR
        /\ \E n \in 0..Len(buffer) : Skipped(n) /\ Take([j \in 1..n |-> "nul"])
  /\ UNCHANGED <<model, has_sock, char_signed, connected, line, died, received, env>>

-----------------------------------------------------------------------------
(* The on-line loop.                                                       *)

\* send(), to a link that may be gone, and buffer.clear().
Send ==
  /\ pc = "online" /\ connected /\ buffer # <<>>
  /\ Take([j \in 1..Len(buffer) |-> "link"])
  /\ UNCHANGED <<model, has_sock, char_signed, connected, pc, line, died, received, env>>

OnlineDone ==
  /\ pc = "online" /\ (~connected \/ buffer = <<>>)
  /\ pc' = "read"
  /\ UNCHANGED <<model, has_sock, char_signed, connected, buffer, line, died, received, taken, env>>

-----------------------------------------------------------------------------
(* The specification.                                                      *)

\* handle_disconnect(), on another thread.
handle_disconnect ==
  /\ connected /\ env.drops < MaxDrops
  /\ connected' = FALSE
  /\ env' = [env EXCEPT !.drops = @ + 1, !.fell = @ \/ pc = "online"]
  /\ UNCHANGED <<model, has_sock, char_signed, pc, buffer, line, died, received, taken>>

BulkOutThread == Running /\ (TakeLine \/ process_at \/ OfflineDone \/ Send \/ OnlineDone)
HostWrites == Running /\ \E t \in Transfers : ReadTransfer(t)
HostHangsUp == Running /\ handle_disconnect
WaitForHost == (Running => pc = "read") /\ UNCHANGED vars

Next == BulkOutThread \/ HostWrites \/ HostHangsUp \/ WaitForHost

Spec == Init /\ [][Next]_vars

\* The thread runs, and process_at(), unless it throws, and send() return.
FairSpec == Spec /\ WF_vars(BulkOutThread)

-----------------------------------------------------------------------------
(* Properties.                                                             *)

Whereto == {"nul", "line", "cr", "link"}

\* Every variable has its type.
TypeOK ==
  /\ model \in Models /\ has_sock \in BOOLEAN /\ char_signed \in BOOLEAN
  /\ connected \in BOOLEAN /\ died \in BOOLEAN
  /\ pc \in {"read", "offline", "process_at", "online"}
  /\ buffer \in Seq(Byte) /\ line \in Seq(Byte) /\ received \in Seq(Byte)
  /\ taken \in Seq([c : Byte, to : Whereto])
  /\ env \in [transfers : Nat, drops : Nat, raised : Nat, fell : BOOLEAN, last : Seq(Byte)]

\* However the host splits what it writes, and whenever the carrier changes,
\* the payload goes through the buffer in order: every byte is taken once or
\* still there, those that are not passed on are newlines and, for Lucent,
\* NULs in front of a line.
StreamKept ==
  /\ received = [i \in 1..Len(taken) |-> taken[i].c] \o buffer
  /\ \A i \in 1..Len(taken) :
       /\ taken[i].to = "nul" =>
            /\ model = "Lucent" /\ taken[i].c = NUL
            /\ i > 1 => taken[i - 1].to # "line"
       /\ taken[i].to = "cr" <=> taken[i].c = CR /\ taken[i].to # "link"
       /\ taken[i].to = "line" => i < Len(taken) /\ taken[i + 1].to \in {"line", "cr"}

\* Between the line that raised the carrier and what is passed to the link
\* there is no other line: once a line was taken off-line nothing behind it
\* goes to a far end that is gone, until a line raises the carrier again.
PayloadBehindConnect ==
  pc = "online" /\ connected =>
    /\ env.raised > 0 /\ taken[env.raised].to = "cr"
    /\ \A i \in env.raised + 1 .. Len(taken) : taken[i].to = "link"

\* When the thread waits for the next transfer no whole command is left in
\* the buffer, and no payload while the carrier is up: only one that the
\* carrier dropped over, between the two loops, waits for what comes next.
NothingWaits ==
  pc = "read" => (connected => buffer = <<>>) /\ (NoCR \/ env.fell)

\* The last that left the buffer is this line, from behind the line, NUL or
\* payload before it to its newline.
LastLine(s) ==
  LET n == Len(taken) - Len(s) - 1 IN
    /\ n >= 0 /\ taken[Len(taken)].to = "cr"
    /\ \A j \in 1..Len(s) : taken[n + j].c = s[j] /\ taken[n + j].to = "line"
    /\ n > 0 => taken[n].to # "line"

\* The thread dies of two things the host may write, however it is split over
\* transfers and whatever the carrier left in the buffer: an Omron transfer that
\* is empty or, where char is signed, one whose header says 32 bytes or more (a
\* header that says more than came does no harm); and, where there is a socket,
\* a line that is ATD and nothing else.
DiesOnlyOfInput ==
  died => \/ /\ pc = "read" /\ model = "Omron"
             /\ env.last = <<>> \/ (char_signed /\ env.last[1] >= 128)
          \/ pc = "process_at" /\ has_sock /\ LastLine(ATD)

\* The thread comes back to ep_read() or dies: neither loop goes on for ever.
ReadsAgain == pc # "read" ~> pc = "read" \/ died

=============================================================================
