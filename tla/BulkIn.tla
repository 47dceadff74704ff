-------------------------------- MODULE BulkIn --------------------------------
(***************************************************************************)
(* What the host reads from the modem: the threads that empty              *)
(* usb_tx_buffer into the bulk IN endpoint and report the carrier (DCD),   *)
(* for the four modems.  Omron and SmartSCM put the carrier in front of    *)
(* the payload of each packet; Lucent and OnlineStation report it on an    *)
(* interrupt endpoint, with a thread of its own.                           *)
(*                                                                         *)
(* The buffer is a number of bytes: that it keeps their order is the       *)
(* matter of RingBuffer.  wait() may return at any time, for data or when  *)
(* 40 ms are over, so the step behind it is simply possible.  Two modems   *)
(* also tell whether there is more to read: SmartSCM with a line status    *)
(* (LSR) in front of each byte and, when the buffer is empty, behind the   *)
(* last; OnlineStation with a bit of its interrupt packet.                 *)
(***************************************************************************)
EXTENDS Integers

CONSTANTS
  Packet,            \* payload that fits one packet
  MaxBytes,          \* bytes the other threads enqueue
  MaxFlips           \* how often the carrier rises and drops

ASSUME BulkInAssumption == Packet \in Nat \ {0} /\ MaxBytes \in Nat /\ MaxFlips \in Nat

Models == {"Lucent", "Omron", "OnlineStation", "SmartSCM"}
InBand == {"Omron", "SmartSCM"}          \* the carrier travels with the payload
TellsMore == {"OnlineStation", "SmartSCM"}    \* whether there is more to read
OnChange == {"Lucent", "Omron", "SmartSCM"}   \* it is reported when it changes

VARIABLES
  model,             \* ctx.current_modem
  connected,         \* ctx.connected
  pending,           \* bytes in ctx.usb_tx_buffer
  data,              \* bulk_in_thread, data_in_thread of SmartSCM
  intr,              \* intr_in_thread
  host,              \* what the host has read
  env                \* bytes enqueued, carrier changes, early: it rose before
                     \* the host had been told anything of it

vars == <<model, connected, pending, data, intr, host, env>>

Init ==
  /\ model \in Models
  /\ connected = FALSE /\ pending = 0
  /\ data = [pc |-> "wait", n |-> 0, dcd |-> FALSE, last_dcd |-> TRUE, empty |-> FALSE]
  /\ intr = [pc |-> IF model \in InBand THEN "none" ELSE "wait",
             dcd |-> FALSE, last_dcd |-> TRUE, more |-> FALSE]
  /\ host = [dcd |-> "unknown", more |-> "unknown", bytes |-> 0]
  /\ env = [bytes |-> 0, flips |-> 0, early |-> FALSE]

DcdOf(b) == IF b THEN "up" ELSE "down"
MoreOf(b) == IF b THEN "yes" ELSE "no"

-----------------------------------------------------------------------------
(* The other threads: process_at, handle_disconnect and the callbacks.     *)

EnqueueBytes ==
  /\ \E n \in 1..MaxBytes - env.bytes :
       /\ pending' = pending + n
       /\ env' = [env EXCEPT !.bytes = @ + n]
  /\ UNCHANGED <<model, connected, data, intr, host>>

Carrier ==
  /\ env.flips < MaxFlips
  /\ connected' = ~connected
  /\ env' = [env EXCEPT !.flips = @ + 1,
                        !.early = @ \/ (host.dcd = "unknown" /\ ~connected)]
  /\ UNCHANGED <<model, pending, data, intr, host>>

-----------------------------------------------------------------------------
(* The bulk IN thread.                                                     *)

\* dequeue() of what fits.  Lucent waits again when that is nothing; an empty
\* packet of OnlineStation is written.
Dequeue ==
  /\ data.pc = "wait"
  /\ LET n == IF pending < Packet THEN pending ELSE Packet
     IN  /\ pending' = pending - n
         /\ data' = [data EXCEPT !.n = n,
                                 !.pc = IF model \in InBand THEN "load"
                                        ELSE IF model = "Lucent" /\ n = 0 THEN "wait"
                                        ELSE "write"]
  /\ UNCHANGED <<model, connected, intr, host, env>>

AfterLoad == IF model = "SmartSCM" THEN "status" ELSE "write"

\* Mutant: a packet without a change of the carrier is never sent.
LoadDcdDrops ==
  /\ data.pc = "load"
  /\ data' = IF data.n = 0 \/ data.last_dcd = connected
             THEN [data EXCEPT !.pc = "wait"]
             ELSE [data EXCEPT !.pc = AfterLoad, !.dcd = connected, !.last_dcd = connected]
  /\ UNCHANGED <<model, connected, pending, intr, host, env>>

\* The carrier is read behind the payload; without payload and without a
\* change nothing is sent.
LoadDcd ==
  /\ data.pc = "load"
  /\ data' = IF data.n = 0 /\ data.last_dcd = connected
             THEN [data EXCEPT !.pc = "wait"]
             ELSE [data EXCEPT !.pc = AfterLoad, !.dcd = connected, !.last_dcd = connected]
  /\ UNCHANGED <<model, connected, pending, intr, host, env>>

\* Mutant: only a packet without payload tells that the buffer is empty.
LoadStatusBare ==
  /\ data.pc = "status"
  /\ data' = [data EXCEPT !.pc = "write", !.empty = pending = 0 /\ data.n = 0]
  /\ UNCHANGED <<model, connected, pending, intr, host, env>>

\* SmartSCM looks at the buffer again, behind the carrier.
LoadStatus ==
  /\ data.pc = "status"
  /\ data' = [data EXCEPT !.pc = "write", !.empty = pending = 0]
  /\ UNCHANGED <<model, connected, pending, intr, host, env>>

\* What the last line status of a packet tells; a packet without payload has
\* none when the buffer is not empty.
MoreRead == IF model # "SmartSCM" \/ (data.n = 0 /\ ~data.empty)
            THEN host.more ELSE MoreOf(~data.empty)

\* ep_write() returns when the host has read the packet.
WritePacket ==
  /\ data.pc = "write"
  /\ host' = [host EXCEPT !.bytes = @ + data.n,
                          !.dcd = IF model \in InBand THEN DcdOf(data.dcd) ELSE @,
                          !.more = MoreRead]
  /\ data' = [data EXCEPT !.pc = "wait", !.n = 0]
  /\ UNCHANGED <<model, connected, pending, intr, env>>

BulkInThread == Dequeue \/ LoadDcd \/ LoadStatus \/ WritePacket

-----------------------------------------------------------------------------
(* The interrupt IN thread.                                                *)

\* OnlineStation looks at the buffer before it looks at the carrier.
IntrStatus ==
  /\ intr.pc = "wait" /\ model = "OnlineStation"
  /\ intr' = [intr EXCEPT !.pc = "load", !.more = pending > 0]
  /\ UNCHANGED <<model, connected, pending, data, host, env>>

BeforeLoad == IF model = "OnlineStation" THEN "load" ELSE "wait"

\* Mutant: last_dcd is not set.
IntrLoadForgets ==
  /\ intr.pc = BeforeLoad
  /\ ~(model \in OnChange /\ intr.last_dcd = connected)
  /\ intr' = [intr EXCEPT !.pc = "write", !.dcd = connected]
  /\ UNCHANGED <<model, connected, pending, data, host, env>>

\* Lucent reports a change, OnlineStation the state, each time.
IntrLoad ==
  /\ intr.pc = BeforeLoad
  /\ ~(model \in OnChange /\ intr.last_dcd = connected)
  /\ intr' = [intr EXCEPT !.pc = "write", !.dcd = connected, !.last_dcd = connected]
  /\ UNCHANGED <<model, connected, pending, data, host, env>>

IntrWrite ==
  /\ intr.pc = "write"
  /\ host' = [host EXCEPT !.dcd = DcdOf(intr.dcd),
                          !.more = IF model = "OnlineStation" THEN MoreOf(intr.more) ELSE @]
  /\ intr' = [intr EXCEPT !.pc = "wait"]
  /\ UNCHANGED <<model, connected, pending, data, env>>

IntrThread == IntrStatus \/ IntrLoad \/ IntrWrite

Next == EnqueueBytes \/ Carrier \/ BulkInThread \/ IntrThread

Spec == Init /\ [][Next]_vars

\* The threads run and the host polls both endpoints.
FairSpec == Spec /\ WF_vars(BulkInThread) /\ WF_vars(IntrThread)

-----------------------------------------------------------------------------
(* Properties.                                                             *)

\* Every byte that was put into the buffer is still there, in the packet that
\* is being sent, or with the host: none is lost between dequeue() and
\* ep_write(), and none is sent twice.
NothingLost == env.bytes = pending + data.n + host.bytes

\* Everything that was enqueued arrives, and the host's picture of the
\* carrier settles on the truth when the carrier does.  The one exception is
\* last_dcd, which is true from the start: a carrier that rises before
\* intr_in_thread has reported anything is not reported.
HostSettles ==
  /\ <>[](host.bytes = env.bytes)
  /\ \A c \in BOOLEAN :
       <>[](connected = c) => <>[]\/ host.dcd = DcdOf(c)
                                  \/ host.dcd = "unknown" /\ env.early

\* A host of SmartSCM or OnlineStation is not left with a status that promises
\* bytes when there are none, although the status is read from the buffer
\* after, or beside, the dequeue() of the bytes it goes with.
StatusSettles == <>[](model \in TellsMore => host.more # "yes")

=============================================================================
