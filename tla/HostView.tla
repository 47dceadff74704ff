------------------------------- MODULE HostView -------------------------------
(***************************************************************************)
(* What a modem promises to the program that talks to it, whatever links,  *)
(* threads and descriptors lie behind it:                                  *)
(*                                                                         *)
(*   - it takes a command only while the carrier is down,                  *)
(*   - it answers each command it takes with one result code, and sends    *)
(*     none that answers no command,                                       *)
(*   - the carrier rises only after CONNECT, and at once after it as far   *)
(*     as result codes go; it may drop at any time.                        *)
(*                                                                         *)
(* RING, echo and payload may come at any time: when they may is a matter  *)
(* of CallSession.                                                         *)
(***************************************************************************)
EXTENDS Integers, Sequences

VARIABLES
  phase,             \* where the command interpreter is
  connected,         \* the carrier, as the host reads it from the modem
  tx                 \* what the host was sent

hostVars == <<phase, connected, tx>>

Codes == {"OK", "ERROR", "CONNECT", "BUSY"}

HostInit == phase = "command" /\ connected = FALSE /\ tx = <<>>

Take ==
  /\ phase = "command" /\ ~connected
  /\ phase' = "executing"
  /\ UNCHANGED <<connected, tx>>

\* The last piece sent, after a step that sent one.
Sent(codes) ==
  /\ Len(tx') = Len(tx) + 1
  /\ SubSeq(tx', 1, Len(tx)) = tx
  /\ tx'[Len(tx')].code \in codes

Refuse ==
  /\ phase = "executing"
  /\ Sent(Codes \ {"CONNECT"})
  /\ phase' = "command"
  /\ UNCHANGED connected

Announce ==
  /\ phase = "executing"
  /\ Sent({"CONNECT"})
  /\ phase' = "announced"
  /\ UNCHANGED connected

Raise ==
  /\ phase = "announced"
  /\ phase' = "command"
  /\ connected' = TRUE
  /\ UNCHANGED tx

Drop ==
  /\ connected' = FALSE
  /\ UNCHANGED <<phase, tx>>

Other ==
  /\ Sent({"RING", "ECHO", "DATA"})
  /\ UNCHANGED <<phase, connected>>

HostNext == Take \/ Refuse \/ Announce \/ Raise \/ Drop \/ Other

HostSpec == HostInit /\ [][HostNext]_hostVars

=============================================================================
