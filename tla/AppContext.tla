------------------------------ MODULE AppContext ------------------------------
(***************************************************************************)
(* The state that every thread of the emulator shares through the global   *)
(* `ctx`: the carrier flag and the transmit buffer towards the USB host.   *)
(*                                                                         *)
(* The buffer is seen here from its far end: tx is the sequence of pieces  *)
(* that were put into it, each one piece per enqueue() call, because the   *)
(* ring buffer is first-in first-out (RingBuffer.tla).  A piece remembers  *)
(* what it is and which connection it came from; the text of a result code *)
(* and the bytes of a payload are left out.                                *)
(***************************************************************************)
EXTENDS Integers, Sequences

CONSTANT MaxConn     \* how many connections one behaviour may open

ASSUME MaxConnAssumption == MaxConn \in Nat \ {0}

Conn == 1..MaxConn   \* a connection: a TCP stream or an opened pseudo-terminal
NoConn == 0

ResultCode == {"OK", "ERROR", "CONNECT", "BUSY"}
Piece == [code : ResultCode \cup {"RING", "ECHO", "DATA"},
          conn : Conn \cup {NoConn},   \* whose call, ring or payload it is
          n    : Nat]                  \* the payload's place in its stream

VARIABLES
  connected,         \* ctx.connected
  tx                 \* everything put into ctx.usb_tx_buffer so far

ctxVars == <<connected, tx>>

CtxInit == connected = FALSE /\ tx = <<>>

\* ctx.usb_tx_buffer.enqueue() of one piece.
Enqueue(code, conn, n) ==
  tx' = Append(tx, [code |-> code, conn |-> conn, n |-> n])

\* The caller's RING, sent by tcp_sock's listen thread whatever the state of
\* the line.
ring_callback(c) == Enqueue("RING", c, 0)

=============================================================================
