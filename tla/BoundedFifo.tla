----------------------------- MODULE BoundedFifo -----------------------------
(***************************************************************************)
(* What ring_buffer promises the threads that share it: a first-in         *)
(* first-out queue of limited capacity on which enqueue() and dequeue()    *)
(* are each one step.  A call that does not fit is cut off, never          *)
(* reordered and never mixed with another; dequeue() takes all there is up *)
(* to the size of a packet.                                                *)
(***************************************************************************)
EXTENDS Integers, Sequences

CONSTANTS
  Capacity,          \* how many bytes fit
  Packet,            \* how many bytes one dequeue() may take
  Calls              \* the byte sequences that may be enqueued

VARIABLES
  queue,             \* the bytes inside
  taken              \* the bytes that came out, in order

fifoVars == <<queue, taken>>

Smaller(a, b) == IF a <= b THEN a ELSE b

FifoInit == queue = <<>> /\ taken = <<>>

Put(bytes) ==
  /\ queue' = queue \o SubSeq(bytes, 1, Smaller(Len(bytes), Capacity - Len(queue)))
  /\ UNCHANGED taken

Take ==
  LET n == Smaller(Packet, Len(queue))
  IN  /\ taken' = taken \o SubSeq(queue, 1, n)
      /\ queue' = SubSeq(queue, n + 1, Len(queue))

FifoNext == Take \/ \E bytes \in Calls : Put(bytes)

FifoSpec == FifoInit /\ [][FifoNext]_fifoVars

=============================================================================
