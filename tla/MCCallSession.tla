---------------------------- MODULE MCCallSession ----------------------------
(***************************************************************************)
(* Small instances of CallSession for TLC.                                 *)
(***************************************************************************)
EXTENDS CallSession

\* The Lucent modem's process_at_ext(), and a modem without one.
LucentReply == [l \in {"ATI", "AT+GCI?"} |-> IF l = "ATI" THEN "OK" ELSE "ERROR"]
NoReply == [l \in {} |-> "OK"]

\* A player that dials out, and a PPP call.
ClientPackets == {<<"ATDnum">>, <<"ATD100">>, <<"data">>}
\* A player that waits for calls.
AnswerPackets == {<<"ATA">>}
\* One that dials while calls may come in.
GlarePackets == {<<"ATA">>, <<"ATDnum">>, <<"ATD">>}
\* PPP calls by either number, and in server mode.
PppPackets == {<<"ATD100">>, <<"ATD168">>}
Ppp100Packets == {<<"ATD100">>}
\* Command lines of every kind, several of them in one transfer, and payload
\* that is left in front of one.
CommandPackets == {<<"ATZ", "ATI">>, <<"AT+GCI?", "CR", "ATE0">>, <<"data">>,
                   <<"data", "AT">>, <<"ATD">>, <<"ATD100">>, <<"ATA">>, <<"ATDnum">>}

=============================================================================
