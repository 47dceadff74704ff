------------------------------ MODULE RingBuffer ------------------------------
(***************************************************************************)
(* ring_buffer, the buffer between the threads that send something to the  *)
(* USB host and the threads that write it to the bulk and interrupt IN     *)
(* endpoints: an array with two wrapping indices under a mutex, and a      *)
(* condition variable with a timed wait.                                   *)
(*                                                                         *)
(* The threads are those of the emulator.  Producers (the bulk OUT thread  *)
(* in process_at, a receive thread, the listen thread) call enqueue() and  *)
(* then notify_one(), which is outside the mutex.  One reader, bulk_in,    *)
(* waits and then dequeues; a watcher, the intr_in thread of two of the    *)
(* modems, waits on the same condition variable and dequeues nothing.      *)
(*                                                                         *)
(* A byte is named by its producer, the call and its place in the call.    *)
(***************************************************************************)
EXTENDS Integers, Sequences, FiniteSets

CONSTANTS
  buffer_size,       \* one more than fits
  Producer,          \* the threads that enqueue
  Watcher,           \* the threads that only wait
  Packet,            \* max_length of bulk_in's dequeue()
  Lengths,           \* the lengths of the enqueue() calls
  MaxCalls,          \* enqueue() calls of each producer
  NoByte             \* what an array cell holds before it is written

Reader == "bulk_in"
Waiter == Watcher \cup {Reader}
Free == "free"       \* nobody holds the mutex

ASSUME RingAssumption ==
  /\ buffer_size \in Nat /\ buffer_size >= 2
  /\ Packet \in Nat \ {0} /\ MaxCalls \in Nat /\ Lengths \subseteq Nat \ {0}
  /\ Producer \cap Waiter = {} /\ Reader \notin Watcher /\ Free \notin Producer \cup Waiter

VARIABLES
  buffer, write_ptr, read_ptr,
  mtx,               \* the thread that holds the mutex, or Free
  prod,              \* [Producer -> its enqueue() call]
  wait,              \* [Waiter -> where it is in its loop]
  got,               \* what the dequeue() in progress has taken
  taken              \* history: everything dequeued, in order

ringVars == <<buffer, write_ptr, read_ptr>>
vars == <<ringVars, mtx, prod, wait, got, taken>>

Cell == 0..buffer_size - 1
Byte(p, call, i) == [from |-> p, call |-> call, n |-> i]

Init ==
  /\ buffer = [i \in Cell |-> NoByte]
  /\ write_ptr = 0 /\ read_ptr = 0
  /\ mtx = Free
  /\ prod = [p \in Producer |-> [pc |-> "idle", ptr |-> 0, length |-> 0, calls |-> 0]]
  /\ wait = [t \in Waiter |-> "loop"]
  /\ got = <<>> /\ taken = <<>>

\* Mutant: the indices are not wrapped at the end of the array.
SucUnwrapped(i) == IF i < buffer_size THEN i + 1 ELSE 0
Suc(i) == (i + 1) % buffer_size

is_empty_without_lock == write_ptr = read_ptr

\* Mutant: the cell that tells full from empty is used.
IsFullNever == FALSE
is_full_without_lock == Suc(write_ptr) = read_ptr

Lock(t) == mtx = Free /\ mtx' = t
Unlock(t) == mtx = t /\ mtx' = Free

-----------------------------------------------------------------------------
(* enqueue() and notify_one().                                             *)

EnqueueLock(p) ==
  /\ prod[p].pc = "idle" /\ prod[p].calls < MaxCalls
  /\ Lock(p)
  /\ \E length \in Lengths :
       prod' = [prod EXCEPT ![p] = [pc |-> "copy", ptr |-> 0, length |-> length,
                                    calls |-> @.calls + 1]]
  /\ UNCHANGED <<ringVars, wait, got, taken>>

enqueue_single_without_lock(p) ==
  /\ prod[p].pc = "copy" /\ prod[p].ptr < prod[p].length
  /\ ~is_full_without_lock
  /\ buffer' = [buffer EXCEPT ![write_ptr] = Byte(p, prod[p].calls, prod[p].ptr + 1)]
  /\ write_ptr' = Suc(write_ptr)
  /\ prod' = [prod EXCEPT ![p].ptr = @ + 1]
  /\ UNCHANGED <<read_ptr, mtx, wait, got, taken>>

\* Mutant: the mutex is held on to when the buffer is full.
EnqueueHolds(p) ==
  /\ prod[p].pc = "copy"
  /\ prod[p].ptr = prod[p].length \/ is_full_without_lock
  /\ prod' = [prod EXCEPT ![p].pc = "notify", ![p].ptr = 0, ![p].length = 0]
  /\ mtx' = IF prod[p].ptr = prod[p].length THEN Free ELSE p
  /\ UNCHANGED <<ringVars, wait, got, taken>>

\* All copied, or full: what is left over is dropped.
EnqueueUnlock(p) ==
  /\ prod[p].pc = "copy"
  /\ prod[p].ptr = prod[p].length \/ is_full_without_lock
  /\ Unlock(p)
  \* process_at() does not notify behind the echo of a line.
  /\ \E pc \in {"notify", "idle"} :
       prod' = [prod EXCEPT ![p] = [@ EXCEPT !.pc = pc, !.ptr = 0, !.length = 0]]
  /\ UNCHANGED <<ringVars, wait, got, taken>>

\* notify_one() wakes one waiting thread, whichever that is.
notify_one(p) ==
  /\ prod[p].pc = "notify"
  /\ prod' = [prod EXCEPT ![p].pc = "idle"]
  /\ IF \E t \in Waiter : wait[t] = "asleep"
     THEN \E t \in Waiter : wait[t] = "asleep" /\ wait' = [wait EXCEPT ![t] = "woken"]
     ELSE UNCHANGED wait
  /\ UNCHANGED <<ringVars, mtx, got, taken>>

Enqueue(p) ==
  \/ EnqueueLock(p)
  \/ enqueue_single_without_lock(p)
  \/ EnqueueUnlock(p)
  \/ notify_one(p)

-----------------------------------------------------------------------------
(* wait().                                                                 *)

WaitLock(t) ==
  /\ wait[t] = "loop"
  /\ Lock(t)
  /\ wait' = [wait EXCEPT ![t] = "check"]
  /\ UNCHANGED <<ringVars, prod, got, taken>>

\* Mutant: a wake-up is taken for data.
WaitCheckOnce(t) ==
  /\ wait[t] \in {"check", "recheck"}
  /\ Unlock(t)
  /\ wait' = [wait EXCEPT ![t] = IF wait[t] = "check" /\ is_empty_without_lock
                                 THEN "asleep" ELSE "ready"]
  /\ UNCHANGED <<ringVars, prod, got, taken>>

\* The predicate; without data the thread sleeps and gives up the mutex in
\* one step.
WaitCheck(t) ==
  /\ wait[t] \in {"check", "recheck"}
  /\ Unlock(t)
  /\ wait' = [wait EXCEPT ![t] = IF is_empty_without_lock THEN "asleep" ELSE "ready"]
  /\ UNCHANGED <<ringVars, prod, got, taken>>

\* Mutant: wait() has no time limit.
NoTimeout(t) == FALSE

\* 40 ms are over ...
Timeout(t) ==
  /\ wait[t] = "asleep"
  /\ wait' = [wait EXCEPT ![t] = "late"]
  /\ UNCHANGED <<ringVars, mtx, prod, got, taken>>

\* ... or a condition variable wakes up for no reason.
Spurious(t) ==
  /\ wait[t] = "asleep"
  /\ wait' = [wait EXCEPT ![t] = "woken"]
  /\ UNCHANGED <<ringVars, mtx, prod, got, taken>>

\* Awake, the thread takes the mutex again and asks the predicate; after the
\* time limit it returns with either answer.
Relock(t) ==
  /\ wait[t] = "woken"
  /\ Lock(t)
  /\ wait' = [wait EXCEPT ![t] = "recheck"]
  /\ UNCHANGED <<ringVars, prod, got, taken>>

LateReturn(t) ==
  /\ wait[t] = "late" /\ mtx = Free
  /\ wait' = [wait EXCEPT ![t] = IF is_empty_without_lock THEN "nothing" ELSE "ready"]
  /\ UNCHANGED <<ringVars, mtx, prod, got, taken>>

Wait(t) ==
  \/ WaitLock(t)
  \/ WaitCheck(t)
  \/ Timeout(t)
  \/ Relock(t)
  \/ LateReturn(t)

-----------------------------------------------------------------------------
(* The loops around wait(): the reader's dequeue() and its ep_write(), and *)
(* the watcher's ep_write().                                               *)

DequeueLock ==
  /\ wait[Reader] \in {"ready", "nothing"}
  /\ Lock(Reader)
  /\ wait' = [wait EXCEPT ![Reader] = "take"]
  /\ UNCHANGED <<ringVars, prod, got, taken>>

dequeue_single_without_lock ==
  /\ wait[Reader] = "take" /\ Len(got) < Packet
  /\ ~is_empty_without_lock
  /\ got' = Append(got, buffer[read_ptr])
  /\ read_ptr' = Suc(read_ptr)
  /\ UNCHANGED <<buffer, write_ptr, mtx, prod, wait, taken>>

DequeueUnlock ==
  /\ wait[Reader] = "take"
  /\ Len(got) = Packet \/ is_empty_without_lock
  /\ Unlock(Reader)
  /\ taken' = taken \o got
  /\ got' = <<>>
  /\ wait' = [wait EXCEPT ![Reader] = "write"]
  /\ UNCHANGED <<ringVars, prod>>

ep_write(t) ==
  /\ \/ wait[t] = "write"
     \/ t \in Watcher /\ wait[t] \in {"ready", "nothing"}
  /\ wait' = [wait EXCEPT ![t] = "loop"]
  /\ UNCHANGED <<ringVars, mtx, prod, got, taken>>

Dequeue == DequeueLock \/ dequeue_single_without_lock \/ DequeueUnlock

Next ==
  \/ \E p \in Producer : Enqueue(p)
  \/ \E t \in Waiter : Wait(t) \/ Spurious(t) \/ ep_write(t)
  \/ Dequeue

Spec == Init /\ [][Next]_vars

\* The reader goes on: it is not kept from the mutex for ever, its time limit
\* passes and the host polls its endpoint.  Of the others only that they leave
\* a critical section.
Fairness ==
  /\ SF_vars(Wait(Reader) \/ Dequeue \/ ep_write(Reader))
  /\ \A p \in Producer : WF_vars(enqueue_single_without_lock(p) \/ EnqueueUnlock(p))
  /\ \A t \in Watcher : WF_vars(WaitCheck(t))

FairSpec == Spec /\ Fairness

-----------------------------------------------------------------------------
(* Properties.                                                             *)

get_count == (write_ptr - read_ptr + buffer_size) % buffer_size

Bytes == [from : Producer, call : 1..MaxCalls, n : Nat]

\* Every variable has its type; in particular both indices stay in the array.
TypeOK ==
  /\ buffer \in [Cell -> Bytes \cup {NoByte}]
  /\ write_ptr \in Cell /\ read_ptr \in Cell
  /\ prod \in [Producer -> [pc : {"idle", "copy", "notify"}, ptr : Nat,
                            length : Nat, calls : 0..MaxCalls]]
  /\ wait \in [Waiter -> {"loop", "check", "asleep", "woken", "recheck", "late",
                          "ready", "nothing", "take", "write"}]
  /\ mtx \in Producer \cup Waiter \cup {Free}
  /\ got \in Seq(Bytes) /\ taken \in Seq(Bytes)

\* Only the thread that holds the mutex is inside a critical section.
MutualExclusion ==
  /\ \A p \in Producer : prod[p].pc = "copy" <=> mtx = p
  /\ \A t \in Waiter : wait[t] \in {"check", "recheck", "take"} <=> mtx = t

\* Before the reader dequeues because wait() saw data, the data is still
\* there: no other thread takes any.
ReadyMeansData == wait[Reader] = "ready" => ~is_empty_without_lock

\* What is in the array, oldest byte first.
Contents == [i \in 1..get_count |-> buffer[(read_ptr + i - 1) % buffer_size]]

\* ring_buffer implements BoundedFifo.  A call takes effect when it gives up
\* the mutex: until then the queue is what it was before the call.
Queue == IF mtx \in Producer THEN SubSeq(Contents, 1, get_count - prod[mtx].ptr)
         ELSE got \o Contents
Fifo == INSTANCE BoundedFifo WITH
          queue <- Queue,
          Capacity <- buffer_size - 1,
          Calls <- {[i \in 1..n |-> Byte(p, c, i)] :
                      n \in Lengths, p \in Producer, c \in 1..MaxCalls}
FifoPromise == Fifo!FifoSpec

\* Nothing stays in the buffer for good, although a notify_one() may wake the
\* watcher in place of the reader and process_at() does not notify behind an
\* echo: the time limit of wait() makes up for both.
Drained == ~is_empty_without_lock ~> is_empty_without_lock

=============================================================================
