--------------------------- MODULE RingBufferProofs ---------------------------
(***************************************************************************)
(* Theorems about RingBuffer, for every size of the buffer and any number  *)
(* of threads: its invariants, and that it implements BoundedFifo.         *)
(***************************************************************************)
EXTENDS RingBuffer, SequenceTheorems, TLAPS

-----------------------------------------------------------------------------
(* The indices.                                                            *)

\* An index stays in the array, and moves.
LEMMA SucInArray ==
  ASSUME NEW i \in Cell
  PROVE  Suc(i) = (IF i = buffer_size - 1 THEN 0 ELSE i + 1)
<1>1. buffer_size \in Nat /\ buffer_size >= 2 /\ i \in Int /\ 0 <= i /\ i <= buffer_size - 1
  BY RingAssumption, SMT DEF Cell
<1>2. CASE i = buffer_size - 1
  BY <1>1, <1>2, SMT DEF Suc
<1>3. CASE i # buffer_size - 1
  <2>1. i + 1 < buffer_size /\ i + 1 \in Nat
    BY <1>1, <1>3, SMT
  <2> QED BY <1>1, <1>3, <2>1, SMT DEF Suc
<1> QED BY <1>2, <1>3

\* The cells between the indices, in the order of the array.
InUse(c) == IF read_ptr <= write_ptr THEN read_ptr <= c /\ c < write_ptr
                                     ELSE read_ptr <= c \/ c < write_ptr

\* Those hold bytes that were enqueued.
Filled == \A c \in Cell : InUse(c) => buffer[c] \in Bytes

\* A producer that copies is in one of its calls.
Calling == \A p \in Producer : prod[p].pc = "copy" => prod[p].calls \in 1..MaxCalls

\* The inductive invariant.
Safe == TypeOK /\ MutualExclusion /\ ReadyMeansData /\ Filled /\ Calling

ProdPc == {"idle", "copy", "notify"}
WaitPc == {"loop", "check", "asleep", "woken", "recheck", "late",
           "ready", "nothing", "take", "write"}
ProdType == [pc : ProdPc, ptr : Nat, length : Nat, calls : 0..MaxCalls]

\* A thread that waits changes its place in the loop, and maybe the mutex;
\* nothing else of the invariant is about it.
LEMMA WaitStep ==
  ASSUME Safe, NEW t \in Waiter, NEW pc \in WaitPc,
         wait' = [wait EXCEPT ![t] = pc],
         UNCHANGED <<ringVars, prod>>,
         mtx' \in {mtx, t, Free}, got' \in Seq(Bytes), taken' \in Seq(Bytes),
         \A u \in Producer \cup Waiter : u # t => (mtx' = u <=> mtx = u),
         pc \in {"check", "recheck", "take"} <=> mtx' = t,
         t = Reader /\ pc = "ready" => ~is_empty_without_lock
  PROVE  Safe'
<1> USE DEF Safe
<1>1. TypeOK'
  <2>1. wait' \in [Waiter -> WaitPc]
    BY Zenon DEF TypeOK, WaitPc
  <2>2. mtx' \in Producer \cup Waiter \cup {Free}
    BY Zenon DEF TypeOK
  <2> QED BY <2>1, <2>2, Zenon DEF TypeOK, ringVars, WaitPc
<1>2. wait'[t] = pc /\ \A u \in Waiter : u # t => wait'[u] = wait[u]
  BY Zenon DEF TypeOK
<1>3. MutualExclusion'
  <2>1. ASSUME NEW p \in Producer PROVE (prod[p].pc = "copy" <=> mtx = p)'
    <3>1. p # t /\ p \in Producer \cup Waiter
      BY RingAssumption, SMT
    <3>2. mtx' = p <=> mtx = p
      BY <3>1, Zenon
    <3> QED BY <3>2, Zenon DEF MutualExclusion
  <2>2. ASSUME NEW u \in Waiter PROVE (wait[u] \in {"check", "recheck", "take"} <=> mtx = u)'
    BY <1>2, <2>2, Zenon DEF MutualExclusion
  <2> QED BY <2>1, <2>2, Zenon DEF MutualExclusion
<1>4. ReadyMeansData'
  BY <1>2, Zenon DEF ReadyMeansData, is_empty_without_lock, ringVars, Waiter
<1>5. Filled' /\ Calling'
  BY Zenon DEF Filled, Calling, InUse, ringVars
<1> QED BY <1>1, <1>3, <1>4, <1>5

\* The empty buffer is safe.
LEMMA InitSafe == Init => Safe
<1> SUFFICES ASSUME Init PROVE Safe
  OBVIOUS
<1> USE RingAssumption DEF Init
<1>1. TypeOK
  <2>1. <<>> \in Seq(Bytes)
    OBVIOUS
  <2>2. write_ptr \in Cell /\ read_ptr \in Cell
    BY SMT DEF Cell
  <2>3. prod \in [Producer -> ProdType]
    BY SMT DEF ProdType, ProdPc
  <2> QED BY <2>1, <2>2, <2>3, SMT DEF TypeOK, ProdType, ProdPc
<1>2. MutualExclusion
  BY SMT DEF MutualExclusion
<1>3. ReadyMeansData
  BY SMT DEF ReadyMeansData, Waiter
<1>4. Filled /\ Calling
  BY SMT DEF Filled, Calling, InUse, Cell
<1> QED BY <1>1, <1>2, <1>3, <1>4 DEF Safe

\* A producer changes its own record and, with it, the mutex.
LEMMA ProducerStep ==
  ASSUME Safe, NEW p \in Producer, NEW r \in ProdType,
         prod' = [prod EXCEPT ![p] = r],
         mtx' \in {mtx, p, Free},
         \A u \in Producer \cup Waiter : u # p => (mtx' = u <=> mtx = u),
         r.pc = "copy" <=> mtx' = p,
         r.pc = "copy" => r.calls \in 1..MaxCalls
  PROVE  /\ prod' \in [Producer -> ProdType]
         /\ mtx' \in Producer \cup Waiter \cup {Free}
         /\ \A q \in Producer : (prod[q].pc = "copy" <=> mtx = q)'
         /\ \A t \in Waiter : mtx' = t <=> mtx = t
         /\ Calling'
<1> USE DEF Safe
<1>1. prod \in [Producer -> ProdType] /\ mtx \in Producer \cup Waiter \cup {Free}
  BY Zenon DEF TypeOK, ProdType, ProdPc
<1>2. prod' \in [Producer -> ProdType] /\ mtx' \in Producer \cup Waiter \cup {Free}
  BY <1>1, Zenon
<1>3. prod'[p] = r /\ \A q \in Producer : q # p => prod'[q] = prod[q]
  BY <1>1, Zenon
<1>4. ASSUME NEW q \in Producer PROVE (prod[q].pc = "copy" <=> mtx = q)'
  <2>1. CASE q = p
    BY <1>3, <2>1, Zenon
  <2>2. CASE q # p
    <3>1. mtx' = q <=> mtx = q
      BY <2>2, SMT
    <3> QED BY <1>3, <2>2, <3>1, Zenon DEF MutualExclusion
  <2> QED BY <2>1, <2>2
<1>5. \A t \in Waiter : mtx' = t <=> mtx = t
  BY RingAssumption, SMT
<1>6. Calling'
  BY <1>3, Zenon DEF Calling
<1> QED BY <1>2, <1>4, <1>5, <1>6

\* Producers leave the waiting threads alone.
LEMMA EnqueueSafe ==
  ASSUME Safe, NEW p \in Producer, Enqueue(p)
  PROVE  Safe'
<1> USE DEF Safe
<1>1. prod \in [Producer -> ProdType] /\ p \in Producer
  BY Zenon DEF TypeOK, ProdType, ProdPc
<1>2. /\ prod[p].ptr \in Nat /\ prod[p].length \in Nat /\ prod[p].calls \in 0..MaxCalls
      /\ prod[p].pc \in ProdPc
  BY <1>1, Zenon DEF ProdType
<1>3. MaxCalls \in Nat /\ p # Free /\ Lengths \subseteq Nat
  BY RingAssumption, SMT
<1>4. CASE EnqueueLock(p)
  <2>1. PICK length \in Lengths :
          prod' = [prod EXCEPT ![p] = [pc |-> "copy", ptr |-> 0, length |-> length,
                                       calls |-> prod[p].calls + 1]]
    BY <1>4, Zenon DEF EnqueueLock
  <2> DEFINE r == [pc |-> "copy", ptr |-> 0, length |-> length, calls |-> prod[p].calls + 1]
  <2>2. prod[p].calls + 1 \in 1..MaxCalls /\ prod[p].calls + 1 \in 0..MaxCalls
    BY <1>2, <1>3, <1>4, SMT DEF EnqueueLock
  <2>3. length \in Nat /\ 0 \in Nat
    BY <1>3
  <2>4. r \in ProdType /\ r.pc = "copy" /\ r.calls = prod[p].calls + 1
    BY <2>2, <2>3, Zenon DEF ProdType, ProdPc
  <2>5. mtx = Free /\ mtx' = p
    BY <1>4 DEF EnqueueLock, Lock
  <2>6. \A u \in Producer \cup Waiter : u # p => (mtx' = u <=> mtx = u)
    BY <2>5, RingAssumption, SMT
  <2> HIDE DEF r
  <2>7. prod' = [prod EXCEPT ![p] = r]
    BY <2>1 DEF r
  <2>8. /\ prod' \in [Producer -> ProdType]
        /\ mtx' \in Producer \cup Waiter \cup {Free}
        /\ \A q \in Producer : (prod[q].pc = "copy" <=> mtx = q)'
        /\ \A t \in Waiter : mtx' = t <=> mtx = t
        /\ Calling'
    BY <2>2, <2>4, <2>5, <2>6, <2>7, ProducerStep, Zenon
  <2>9. UNCHANGED <<ringVars, wait, got, taken>>
    BY <1>4 DEF EnqueueLock
  <2> QED
    BY <2>8, <2>9, Zenon DEF TypeOK, MutualExclusion, ReadyMeansData, Filled, InUse,
       is_empty_without_lock, ringVars, ProdType, ProdPc
<1>5. CASE enqueue_single_without_lock(p)
  <2> DEFINE r == [prod[p] EXCEPT !.ptr = prod[p].ptr + 1]
             b == Byte(p, prod[p].calls, prod[p].ptr + 1)
  <2>1. prod[p].pc = "copy" /\ mtx' = mtx
    BY <1>5 DEF enqueue_single_without_lock
  <2>2. mtx = p /\ prod[p].calls \in 1..MaxCalls
    BY <2>1, Zenon DEF MutualExclusion, Calling
  <2>3. prod[p].ptr + 1 \in Nat
    BY <1>2, SMT
  <2>4. r \in ProdType /\ r.pc = "copy" /\ r.calls = prod[p].calls
    BY <1>1, <2>1, <2>3, Zenon DEF ProdType
  <2>5. prod' = [prod EXCEPT ![p] = r]
    BY <1>5, Zenon DEF enqueue_single_without_lock
  <2> HIDE DEF r
  <2>6. /\ prod' \in [Producer -> ProdType]
        /\ mtx' \in Producer \cup Waiter \cup {Free}
        /\ \A q \in Producer : (prod[q].pc = "copy" <=> mtx = q)'
        /\ \A t \in Waiter : mtx' = t <=> mtx = t
        /\ Calling'
    BY <2>1, <2>2, <2>4, <2>5, ProducerStep, Zenon
  <2>7. b \in Bytes
    BY <2>2, <2>3, Zenon DEF Byte, Bytes
  <2> HIDE DEF b
  <2>8. /\ UNCHANGED <<read_ptr, wait, got, taken>>
        /\ buffer' = [buffer EXCEPT ![write_ptr] = b]
        /\ write_ptr' = Suc(write_ptr)
        /\ Suc(write_ptr) # read_ptr
    BY <1>5 DEF enqueue_single_without_lock, b, is_full_without_lock
  <2>9. write_ptr \in Cell /\ read_ptr \in Cell
    BY DEF TypeOK
  <2>10. Suc(write_ptr) = IF write_ptr = buffer_size - 1 THEN 0 ELSE write_ptr + 1
    BY <2>9, SucInArray
  <2>11. buffer_size \in Nat /\ buffer_size >= 2
    BY RingAssumption
  <2>12. write_ptr' \in Cell
    BY <2>8, <2>9, <2>10, <2>11, SMT DEF Cell
  <2>13. buffer' \in [Cell -> Bytes \cup {NoByte}]
    BY <2>7, <2>8, Zenon DEF TypeOK
  <2>14. TypeOK'
    BY <2>6, <2>8, <2>12, <2>13, Zenon DEF TypeOK, ProdType, ProdPc
  <2>15. Filled'
    <3> SUFFICES ASSUME NEW c \in Cell, InUse(c)' PROVE buffer'[c] \in Bytes
      BY Zenon DEF Filled
    <3>1. CASE c = write_ptr
      BY <2>7, <2>8, <3>1, Zenon DEF TypeOK
    <3>2. CASE c # write_ptr
      <4>1. InUse(c)
        BY <2>8, <2>9, <2>10, <2>11, <3>2, SMT DEF InUse, Cell
      <4>2. buffer'[c] = buffer[c]
        BY <2>8, <3>2, Zenon DEF TypeOK
      <4> QED BY <4>1, <4>2, Zenon DEF Filled
    <3> QED BY <3>1, <3>2
  <2>16. MutualExclusion'
    BY <2>6, <2>8, Zenon DEF MutualExclusion
  <2>17. ReadyMeansData'
    BY <2>8, Zenon DEF ReadyMeansData, is_empty_without_lock
  <2> QED BY <2>6, <2>14, <2>15, <2>16, <2>17
<1>6. CASE EnqueueUnlock(p)
  <2>1. PICK pc \in {"notify", "idle"} :
          prod' = [prod EXCEPT ![p] = [prod[p] EXCEPT !.pc = pc, !.ptr = 0, !.length = 0]]
    BY <1>6, Zenon DEF EnqueueUnlock
  <2> DEFINE r == [prod[p] EXCEPT !.pc = pc, !.ptr = 0, !.length = 0]
  <2>2. r \in ProdType
    BY <1>1, Zenon DEF ProdType, ProdPc
  <2>3. r.pc = pc /\ pc # "copy"
    BY <1>1, Zenon DEF ProdType
  <2>4. prod' = [prod EXCEPT ![p] = r]
    BY <2>1
  <2> HIDE DEF r
  <2>5. mtx = p /\ mtx' = Free
    BY <1>6 DEF EnqueueUnlock, Unlock
  <2>6. \A u \in Producer \cup Waiter : u # p => (mtx' = u <=> mtx = u)
    BY <2>5, RingAssumption, SMT
  <2>7. /\ prod' \in [Producer -> ProdType]
        /\ mtx' \in Producer \cup Waiter \cup {Free}
        /\ \A q \in Producer : (prod[q].pc = "copy" <=> mtx = q)'
        /\ \A t \in Waiter : mtx' = t <=> mtx = t
        /\ Calling'
    BY <1>3, <2>2, <2>3, <2>4, <2>5, <2>6, ProducerStep, Zenon
  <2>8. UNCHANGED <<ringVars, wait, got, taken>>
    BY <1>6 DEF EnqueueUnlock
  <2> QED
    BY <2>7, <2>8, Zenon DEF TypeOK, MutualExclusion, ReadyMeansData, Filled, InUse,
       is_empty_without_lock, ringVars, ProdType, ProdPc
<1>7. CASE notify_one(p)
  <2> DEFINE r == [prod[p] EXCEPT !.pc = "idle"]
  <2>1. r \in ProdType /\ r.pc = "idle"
    BY <1>1, Zenon DEF ProdType, ProdPc
  <2>2. prod' = [prod EXCEPT ![p] = r] /\ prod[p].pc = "notify"
    BY <1>7, Zenon DEF notify_one
  <2>3. mtx' = mtx /\ mtx # p
    BY <1>7, <2>2, Zenon DEF notify_one, MutualExclusion
  <2> HIDE DEF r
  <2>4. /\ prod' \in [Producer -> ProdType]
        /\ mtx' \in Producer \cup Waiter \cup {Free}
        /\ \A q \in Producer : (prod[q].pc = "copy" <=> mtx = q)'
        /\ Calling'
    BY <2>1, <2>2, <2>3, ProducerStep, Zenon
  <2>5. UNCHANGED <<ringVars, got, taken>>
    BY <1>7 DEF notify_one
  <2>6. CASE UNCHANGED wait
    BY <2>3, <2>4, <2>5, <2>6, Zenon DEF TypeOK, MutualExclusion, ReadyMeansData, Filled,
       InUse, is_empty_without_lock, ringVars, ProdType, ProdPc
  <2>7. ASSUME NEW t \in Waiter, wait[t] = "asleep", wait' = [wait EXCEPT ![t] = "woken"]
        PROVE  Safe'
    <3>1. wait' \in [Waiter -> WaitPc]
      BY <2>7, Zenon DEF TypeOK, WaitPc
    <3>2. \A u \in Waiter : wait'[u] = IF u = t THEN "woken" ELSE wait[u]
      BY <2>7, Zenon DEF TypeOK
    <3>3. TypeOK'
      BY <2>4, <2>5, <3>1, Zenon DEF TypeOK, ringVars, ProdType, ProdPc, WaitPc
    <3>4. ASSUME NEW u \in Waiter PROVE (wait[u] \in {"check", "recheck", "take"} <=> mtx = u)'
      <4>1. wait[u] \in {"check", "recheck", "take"} <=> mtx = u
        BY DEF MutualExclusion
      <4>2. CASE u = t
        BY <2>3, <2>7, <3>2, <4>1, <4>2, SMT
      <4>3. CASE u # t
        BY <2>3, <3>2, <4>1, <4>3, Zenon
      <4> QED BY <4>2, <4>3
    <3>5. MutualExclusion'
      BY <2>4, <3>4, Zenon DEF MutualExclusion
    <3>6. ReadyMeansData' /\ Filled'
      BY <2>5, <3>2, Zenon DEF ReadyMeansData, Filled, InUse, is_empty_without_lock,
         ringVars, Waiter
    <3> QED BY <2>4, <3>3, <3>5, <3>6
  <2> QED BY <1>7, <2>6, <2>7, Zenon DEF notify_one
<1> QED BY <1>4, <1>5, <1>6, <1>7 DEF Enqueue

\* A thread in wait(), or in the loop around it.
LEMMA WaitSafe ==
  ASSUME Safe, NEW t \in Waiter, Wait(t) \/ Spurious(t) \/ ep_write(t)
  PROVE  Safe'
<1> USE DEF Safe
<1>1. got \in Seq(Bytes) /\ taken \in Seq(Bytes) /\ t # Free
  BY RingAssumption, SMT DEF TypeOK
<1>2. wait[t] \in {"check", "recheck", "take"} <=> mtx = t
  BY DEF MutualExclusion
<1>3. CASE WaitLock(t)
  <2>1. mtx = Free /\ mtx' = t /\ wait' = [wait EXCEPT ![t] = "check"]
        /\ UNCHANGED <<ringVars, prod, got, taken>>
    BY <1>3 DEF WaitLock, Lock
  <2>2. \A u \in Producer \cup Waiter : u # t => (mtx' = u <=> mtx = u)
    BY <2>1, RingAssumption, SMT
  <2> QED BY <1>1, <2>1, <2>2, WaitStep, Zenon DEF WaitPc
<1>4. CASE WaitCheck(t)
  <2>1. mtx = t /\ mtx' = Free /\ UNCHANGED <<ringVars, prod, got, taken>>
    BY <1>4 DEF WaitCheck, Unlock
  <2>2. \A u \in Producer \cup Waiter : u # t => (mtx' = u <=> mtx = u)
    BY <2>1, RingAssumption, SMT
  <2>3. CASE is_empty_without_lock
    <3>1. wait' = [wait EXCEPT ![t] = "asleep"]
      BY <1>4, <2>3 DEF WaitCheck
    <3> QED BY <1>1, <2>1, <2>2, <3>1, WaitStep, Zenon DEF WaitPc
  <2>4. CASE ~is_empty_without_lock
    <3>1. wait' = [wait EXCEPT ![t] = "ready"]
      BY <1>4, <2>4 DEF WaitCheck
    <3> QED BY <1>1, <2>1, <2>2, <2>4, <3>1, WaitStep, Zenon DEF WaitPc
  <2> QED BY <2>3, <2>4
<1>5. CASE Timeout(t) \/ Spurious(t)
  <2>1. PICK pc \in {"late", "woken"} : wait' = [wait EXCEPT ![t] = pc]
    BY <1>5, Zenon DEF Timeout, Spurious
  <2>2. wait[t] = "asleep" /\ UNCHANGED <<ringVars, mtx, prod, got, taken>>
    BY <1>5, Zenon DEF Timeout, Spurious
  <2>3. mtx # t /\ pc \notin {"check", "recheck", "take", "ready"} /\ pc \in WaitPc
    BY <1>2, <2>2, SMT DEF WaitPc
  <2> QED BY <1>1, <2>1, <2>2, <2>3, WaitStep, Zenon
<1>6. CASE Relock(t)
  <2>1. mtx = Free /\ mtx' = t /\ wait' = [wait EXCEPT ![t] = "recheck"]
        /\ UNCHANGED <<ringVars, prod, got, taken>>
    BY <1>6 DEF Relock, Lock
  <2>2. \A u \in Producer \cup Waiter : u # t => (mtx' = u <=> mtx = u)
    BY <2>1, RingAssumption, SMT
  <2> QED BY <1>1, <2>1, <2>2, WaitStep, Zenon DEF WaitPc
<1>7. CASE LateReturn(t)
  <2>1. mtx = Free /\ mtx # t /\ UNCHANGED <<ringVars, mtx, prod, got, taken>>
    BY <1>1, <1>7 DEF LateReturn
  <2>2. CASE is_empty_without_lock
    <3>1. wait' = [wait EXCEPT ![t] = "nothing"]
      BY <1>7, <2>2 DEF LateReturn
    <3> QED BY <1>1, <2>1, <3>1, WaitStep, Zenon DEF WaitPc
  <2>3. CASE ~is_empty_without_lock
    <3>1. wait' = [wait EXCEPT ![t] = "ready"]
      BY <1>7, <2>3 DEF LateReturn
    <3> QED BY <1>1, <2>1, <2>3, <3>1, WaitStep, Zenon DEF WaitPc
  <2> QED BY <2>2, <2>3
<1>8. CASE ep_write(t)
  <2>1. wait' = [wait EXCEPT ![t] = "loop"] /\ UNCHANGED <<ringVars, mtx, prod, got, taken>>
    BY <1>8 DEF ep_write
  <2>2. mtx # t
    BY <1>2, <1>8, SMT DEF ep_write
  <2> QED BY <1>1, <2>1, <2>2, WaitStep, Zenon DEF WaitPc
<1> QED BY <1>3, <1>4, <1>5, <1>6, <1>7, <1>8 DEF Wait

\* The reader takes what is in use, and only what is in use.
LEMMA DequeueSafe ==
  ASSUME Safe, Dequeue
  PROVE  Safe'
<1> USE DEF Safe
<1>1. Reader \in Waiter /\ got \in Seq(Bytes) /\ taken \in Seq(Bytes) /\ Reader # Free
  BY RingAssumption, SMT DEF TypeOK, Waiter
<1>2. wait[Reader] \in {"check", "recheck", "take"} <=> mtx = Reader
  BY <1>1 DEF MutualExclusion
<1>3. CASE DequeueLock
  <2>1. mtx = Free /\ mtx' = Reader /\ wait' = [wait EXCEPT ![Reader] = "take"]
        /\ UNCHANGED <<ringVars, prod, got, taken>>
    BY <1>3 DEF DequeueLock, Lock
  <2>2. \A u \in Producer \cup Waiter : u # Reader => (mtx' = u <=> mtx = u)
    BY <2>1, RingAssumption, SMT
  <2> QED BY <1>1, <2>1, <2>2, WaitStep, Zenon DEF WaitPc
<1>4. CASE dequeue_single_without_lock
  <2>1. /\ wait[Reader] = "take" /\ write_ptr # read_ptr
        /\ got' = Append(got, buffer[read_ptr]) /\ read_ptr' = Suc(read_ptr)
        /\ UNCHANGED <<buffer, write_ptr, mtx, prod, wait, taken>>
    BY <1>4 DEF dequeue_single_without_lock, is_empty_without_lock
  <2>2. write_ptr \in Cell /\ read_ptr \in Cell
    BY DEF TypeOK
  <2>3. Suc(read_ptr) = IF read_ptr = buffer_size - 1 THEN 0 ELSE read_ptr + 1
    BY <2>2, SucInArray
  <2>4. buffer_size \in Nat /\ buffer_size >= 2
    BY RingAssumption
  <2>5. read_ptr' \in Cell
    BY <2>1, <2>2, <2>3, <2>4, SMT DEF Cell
  <2>6. InUse(read_ptr)
    BY <2>1, <2>2, SMT DEF InUse, Cell
  <2>7. got' \in Seq(Bytes)
    BY <1>1, <2>1, <2>2, <2>6, SMT DEF Filled
  <2>8. TypeOK'
    BY <2>1, <2>5, <2>7, Zenon DEF TypeOK
  <2>9. Filled'
    <3> SUFFICES ASSUME NEW c \in Cell, InUse(c)' PROVE InUse(c)
      BY <2>1, Zenon DEF Filled
    <3> QED BY <2>1, <2>2, <2>3, <2>4, SMT DEF InUse, Cell
  <2>10. MutualExclusion' /\ ReadyMeansData' /\ Calling'
    BY <2>1, Zenon DEF MutualExclusion, ReadyMeansData, Calling
  <2> QED BY <2>8, <2>9, <2>10
<1>5. CASE DequeueUnlock
  <2>1. /\ mtx = Reader /\ mtx' = Free /\ wait' = [wait EXCEPT ![Reader] = "write"]
        /\ UNCHANGED <<ringVars, prod>> /\ got' = <<>> /\ taken' = taken \o got
    BY <1>5 DEF DequeueUnlock, Unlock
  <2>2. \A u \in Producer \cup Waiter : u # Reader => (mtx' = u <=> mtx = u)
    BY <2>1, RingAssumption, SMT
  <2>3. got' \in Seq(Bytes) /\ taken' \in Seq(Bytes)
    BY <1>1, <2>1, SMT
  <2> QED BY <1>1, <2>1, <2>2, <2>3, WaitStep, Zenon DEF WaitPc
<1> QED BY <1>3, <1>4, <1>5 DEF Dequeue

\* Every step keeps Safe.
LEMMA NextSafe == Safe /\ [Next]_vars => Safe'
<1> SUFFICES ASSUME Safe, [Next]_vars PROVE Safe'
  OBVIOUS
<1>1. CASE UNCHANGED vars
  BY <1>1, Zenon DEF vars, ringVars, Safe, TypeOK, MutualExclusion, ReadyMeansData, Filled,
     Calling, InUse, is_empty_without_lock
<1>2. ASSUME NEW p \in Producer, Enqueue(p) PROVE Safe'
  BY <1>2, EnqueueSafe
<1>3. ASSUME NEW t \in Waiter, Wait(t) \/ Spurious(t) \/ ep_write(t) PROVE Safe'
  BY <1>3, WaitSafe
<1>4. CASE Dequeue
  BY <1>4, DequeueSafe
<1> QED BY <1>1, <1>2, <1>3, <1>4 DEF Next

\* The invariant behind the theorems on the buffer: types, exclusion and that
\* the cells between the indices hold bytes.
THEOREM RingSafe == Spec => []Safe
<1>1. Init => Safe
  BY InitSafe
<1>2. Safe /\ [Next]_vars => Safe'
  BY NextSafe
<1> QED BY <1>1, <1>2, PTL DEF Spec

\* ring_buffer: both indices stay in the array and what a reader takes out
\* are bytes that were enqueued.
THEOREM RingTypeCorrect == Spec => []TypeOK
<1>1. Safe => TypeOK
  BY DEF Safe
<1> QED BY <1>1, RingSafe, PTL

\* Whoever reads or writes an index holds the mutex.
THEOREM RingExcludes == Spec => []MutualExclusion
<1>1. Safe => MutualExclusion
  BY DEF Safe
<1> QED BY <1>1, RingSafe, PTL

\* wait() and dequeue() take the mutex separately, and yet what wait() saw is
\* there when dequeue() looks.
THEOREM ReadyHasData == Spec => []ReadyMeansData
<1>1. Safe => ReadyMeansData
  BY DEF Safe
<1> QED BY <1>1, RingSafe, PTL

-----------------------------------------------------------------------------
(* What lies between two indices of an array.                              *)

Count(r, w) == (w - r + buffer_size) % buffer_size
Place(r, i) == (r + i - 1) % buffer_size
ContentsOf(b, r, w) == [i \in 1..Count(r, w) |-> b[Place(r, i)]]
Between(r, w, c) == IF r <= w THEN r <= c /\ c < w ELSE r <= c \/ c < w

\* How many cells are between two indices, without the modulus.
LEMMA CountIs ==
  ASSUME NEW r \in Cell, NEW w \in Cell
  PROVE  /\ Count(r, w) = IF w >= r THEN w - r ELSE w - r + buffer_size
         /\ Count(r, w) \in 0..buffer_size - 1
<1>1. buffer_size \in Nat /\ buffer_size >= 2 /\ r \in Int /\ w \in Int
      /\ 0 <= r /\ r <= buffer_size - 1 /\ 0 <= w /\ w <= buffer_size - 1
  BY RingAssumption, SMT DEF Cell
<1>2. Count(r, w) = IF w >= r THEN w - r ELSE w - r + buffer_size
  BY <1>1, SMT DEF Count
<1> QED BY <1>1, <1>2, SMT

\* Where the i-th of them is, without the modulus.
LEMMA PlaceIs ==
  ASSUME NEW r \in Cell, NEW i \in 1..buffer_size
  PROVE  /\ Place(r, i) = IF r + i - 1 < buffer_size THEN r + i - 1 ELSE r + i - 1 - buffer_size
         /\ Place(r, i) \in Cell
<1>1. buffer_size \in Nat /\ buffer_size >= 2 /\ r \in Int /\ i \in Int
      /\ 0 <= r /\ r <= buffer_size - 1 /\ 1 <= i /\ i <= buffer_size
  BY RingAssumption, SMT DEF Cell
<1>2. CASE r + i - 1 < buffer_size
  BY <1>1, <1>2, SMT DEF Place, Cell
<1>3. CASE ~(r + i - 1 < buffer_size)
  <2>1. r + i - 1 - buffer_size \in 0..buffer_size - 1
    BY <1>1, <1>3, SMT
  <2>2. Place(r, i) = r + i - 1 - buffer_size
    BY <1>1, <1>3, <2>1, SMT DEF Place
  <2> QED BY <1>1, <1>3, <2>1, <2>2, SMT DEF Cell
<1> QED BY <1>2, <1>3

\* A function on 1..n is a sequence.
LEMMA FunctionIsSeq ==
  ASSUME NEW S, NEW n \in Nat, NEW f \in [1..n -> S]
  PROVE  f \in Seq(S) /\ Len(f) = n
<1>1. f \in Seq(S)
  BY SeqDef, Zenon
<1>2. DOMAIN f = 1..n /\ DOMAIN f = 1..Len(f) /\ Len(f) \in Nat
  BY <1>1, LenProperties, Zenon
<1> QED BY <1>1, <1>2, SMT

\* What is between two indices is a sequence of bytes.
LEMMA ContentsAre ==
  ASSUME NEW b \in [Cell -> Bytes \cup {NoByte}], NEW r \in Cell, NEW w \in Cell,
         \A c \in Cell : Between(r, w, c) => b[c] \in Bytes
  PROVE  /\ ContentsOf(b, r, w) \in Seq(Bytes)
         /\ Len(ContentsOf(b, r, w)) = Count(r, w)
         /\ \A i \in 1..Count(r, w) : ContentsOf(b, r, w)[i] = b[Place(r, i)]
<1>1. buffer_size \in Nat /\ buffer_size >= 2 /\ Count(r, w) \in Nat
      /\ Count(r, w) <= buffer_size - 1
  <2>1. Count(r, w) \in 0..buffer_size - 1
    BY CountIs
  <2> QED BY <2>1, RingAssumption, SMT
<1>c. Count(r, w) = IF w >= r THEN w - r ELSE w - r + buffer_size
  BY CountIs
<1>2. ASSUME NEW i \in 1..Count(r, w) PROVE b[Place(r, i)] \in Bytes
  <2>1. i \in 1..buffer_size
    BY <1>1, SMT
  <2>2. /\ Place(r, i) = IF r + i - 1 < buffer_size THEN r + i - 1 ELSE r + i - 1 - buffer_size
        /\ Place(r, i) \in Cell
    BY <2>1, PlaceIs
  <2>3. Between(r, w, Place(r, i))
    BY <1>1, <1>c, <2>2, SMT DEF Between, Cell
  <2> QED BY <2>2, <2>3
<1>3. ContentsOf(b, r, w) \in [1..Count(r, w) -> Bytes]
  BY <1>2, Zenon DEF ContentsOf
<1>4. ContentsOf(b, r, w) \in Seq(Bytes) /\ Len(ContentsOf(b, r, w)) = Count(r, w)
  BY <1>1, <1>3, FunctionIsSeq
<1> QED BY <1>4, Zenon DEF ContentsOf

\* A byte written at the end.
LEMMA AppendContents ==
  ASSUME NEW b \in [Cell -> Bytes \cup {NoByte}], NEW r \in Cell, NEW w \in Cell,
         \A c \in Cell : Between(r, w, c) => b[c] \in Bytes,
         NEW x \in Bytes, Suc(w) # r
  PROVE  /\ Count(r, Suc(w)) = Count(r, w) + 1
         /\ ContentsOf([b EXCEPT ![w] = x], r, Suc(w)) = Append(ContentsOf(b, r, w), x)
<1> DEFINE d == [b EXCEPT ![w] = x]
           old == ContentsOf(b, r, w)
           new == ContentsOf(d, r, Suc(w))
<1>1. buffer_size \in Nat /\ buffer_size >= 2
  BY RingAssumption
<1>2. Suc(w) = (IF w = buffer_size - 1 THEN 0 ELSE w + 1) /\ Suc(w) \in Cell
  BY <1>1, SucInArray, SMT DEF Cell
<1>c. /\ Count(r, w) = IF w >= r THEN w - r ELSE w - r + buffer_size
      /\ Count(r, Suc(w)) = IF Suc(w) >= r THEN Suc(w) - r ELSE Suc(w) - r + buffer_size
  BY <1>2, CountIs
<1>3. /\ Count(r, Suc(w)) = Count(r, w) + 1 /\ Count(r, w) \in Nat
      /\ Count(r, w) + 1 <= buffer_size - 1
  BY <1>1, <1>2, <1>c, SMT DEF Cell
<1>4. d \in [Cell -> Bytes \cup {NoByte}] /\ d[w] = x /\ \A c \in Cell : c # w => d[c] = b[c]
  BY Zenon
<1>5. ASSUME NEW c \in Cell, Between(r, Suc(w), c) PROVE d[c] \in Bytes
  <2>1. CASE c = w
    BY <1>4, <2>1
  <2>2. CASE c # w
    <3>1. Between(r, w, c)
      BY <1>1, <1>2, <1>5, <2>2, SMT DEF Between, Cell
    <3> QED BY <1>4, <2>2, <3>1
  <2> QED BY <2>1, <2>2
<1> HIDE DEF d
<1>6. /\ old \in Seq(Bytes) /\ Len(old) = Count(r, w)
      /\ \A i \in 1..Count(r, w) : old[i] = b[Place(r, i)]
  BY ContentsAre
<1>7. /\ new \in Seq(Bytes) /\ Len(new) = Count(r, w) + 1
      /\ \A i \in 1..Count(r, w) + 1 : new[i] = d[Place(r, i)]
  BY <1>2, <1>3, <1>4, <1>5, ContentsAre
<1> HIDE DEF old, new
<1>8. ASSUME NEW i \in 1..Count(r, w) + 1 PROVE new[i] = Append(old, x)[i]
  <2>1. i \in 1..buffer_size
    BY <1>1, <1>3, SMT
  <2>2. /\ Place(r, i) = IF r + i - 1 < buffer_size THEN r + i - 1 ELSE r + i - 1 - buffer_size
        /\ Place(r, i) \in Cell
    BY <2>1, PlaceIs
  <2>3. CASE i = Count(r, w) + 1
    <3>1. Place(r, i) = w
      BY <1>1, <1>3, <1>c, <2>2, <2>3, SMT DEF Cell
    <3>2. Append(old, x)[i] = x
      BY <1>6, <2>3, AppendProperties
    <3> QED BY <1>4, <1>7, <3>1, <3>2
  <2>4. CASE i # Count(r, w) + 1
    <3>1. i \in 1..Count(r, w)
      BY <1>3, <2>4, SMT
    <3>2. Place(r, i) # w
      BY <1>1, <1>2, <1>3, <1>c, <2>2, <3>1, SMT DEF Cell
    <3>3. Append(old, x)[i] = old[i]
      BY <1>6, <3>1, AppendProperties
    <3> QED BY <1>4, <1>6, <1>7, <2>2, <3>1, <3>2, <3>3
  <2> QED BY <2>3, <2>4
<1>9. Append(old, x) \in Seq(Bytes) /\ Len(Append(old, x)) = Count(r, w) + 1
  BY <1>6, AppendProperties
<1>10. new = Append(old, x)
  BY <1>7, <1>8, <1>9, SeqEqual
<1> QED BY <1>3, <1>10 DEF d, old, new

\* The oldest byte taken away.
LEMMA TailContents ==
  ASSUME NEW b \in [Cell -> Bytes \cup {NoByte}], NEW r \in Cell, NEW w \in Cell,
         \A c \in Cell : Between(r, w, c) => b[c] \in Bytes,
         w # r
  PROVE  /\ Count(r, w) = Count(Suc(r), w) + 1
         /\ ContentsOf(b, r, w) \in Seq(Bytes) /\ ContentsOf(b, r, w) # <<>>
         /\ Head(ContentsOf(b, r, w)) = b[r]
         /\ ContentsOf(b, Suc(r), w) = Tail(ContentsOf(b, r, w))
<1> DEFINE old == ContentsOf(b, r, w)
           new == ContentsOf(b, Suc(r), w)
<1>1. buffer_size \in Nat /\ buffer_size >= 2
  BY RingAssumption
<1>2. Suc(r) = (IF r = buffer_size - 1 THEN 0 ELSE r + 1) /\ Suc(r) \in Cell
  BY <1>1, SucInArray, SMT DEF Cell
<1>c. /\ Count(r, w) = IF w >= r THEN w - r ELSE w - r + buffer_size
      /\ Count(Suc(r), w) = IF w >= Suc(r) THEN w - Suc(r) ELSE w - Suc(r) + buffer_size
  BY <1>2, CountIs
<1>3. /\ Count(r, w) = Count(Suc(r), w) + 1 /\ Count(Suc(r), w) \in Nat
      /\ Count(r, w) <= buffer_size - 1
  BY <1>1, <1>2, <1>c, SMT DEF Cell
<1>4. ASSUME NEW c \in Cell, Between(Suc(r), w, c) PROVE b[c] \in Bytes
  <2>1. Between(r, w, c)
    BY <1>1, <1>2, <1>4, SMT DEF Between, Cell
  <2> QED BY <2>1
<1>5. /\ old \in Seq(Bytes) /\ Len(old) = Count(r, w)
      /\ \A i \in 1..Count(r, w) : old[i] = b[Place(r, i)]
  BY ContentsAre
<1>6. /\ new \in Seq(Bytes) /\ Len(new) = Count(Suc(r), w)
      /\ \A i \in 1..Count(Suc(r), w) : new[i] = b[Place(Suc(r), i)]
  BY <1>2, <1>4, ContentsAre
<1> HIDE DEF old, new
<1>7. old # <<>>
  BY <1>3, <1>5, SMT
<1>8. Head(old) = b[r]
  <2>1. 1 \in 1..Count(r, w) /\ 1 \in 1..buffer_size
    BY <1>1, <1>3, SMT
  <2>2. Place(r, 1) = r
    <3>1. Place(r, 1) = IF r + 1 - 1 < buffer_size THEN r + 1 - 1 ELSE r + 1 - 1 - buffer_size
      BY <2>1, PlaceIs
    <3> QED BY <1>1, <3>1, SMT DEF Cell
  <2>3. Head(old) = old[1]
    BY <1>5, <1>7, SMT
  <2> QED BY <1>5, <2>1, <2>2, <2>3
<1>9. /\ Tail(old) \in Seq(Bytes) /\ Len(Tail(old)) = Count(Suc(r), w)
      /\ \A i \in 1..Count(Suc(r), w) : Tail(old)[i] = old[i + 1]
  <2>1. Tail(old) \in Seq(Bytes) /\ Len(Tail(old)) = Len(old) - 1
        /\ \A i \in 1..Len(Tail(old)) : Tail(old)[i] = old[i + 1]
    BY <1>5, <1>7, HeadTailProperties
  <2> QED BY <1>3, <1>5, <2>1, SMT
<1>10. ASSUME NEW i \in 1..Count(Suc(r), w) PROVE new[i] = Tail(old)[i]
  <2>1. i + 1 \in 1..Count(r, w) /\ i + 1 \in 1..buffer_size /\ i \in 1..buffer_size
    BY <1>1, <1>3, SMT
  <2>2. Place(Suc(r), i) = Place(r, i + 1)
    <3>1. Place(r, i + 1) = IF r + i < buffer_size THEN r + i ELSE r + i - buffer_size
      <4>1. Place(r, i + 1) = IF r + (i + 1) - 1 < buffer_size THEN r + (i + 1) - 1
                               ELSE r + (i + 1) - 1 - buffer_size
        BY <2>1, PlaceIs
      <4> QED BY <1>1, <2>1, <4>1, SMT DEF Cell
    <3>2. Place(Suc(r), i) = IF Suc(r) + i - 1 < buffer_size THEN Suc(r) + i - 1
                             ELSE Suc(r) + i - 1 - buffer_size
      BY <1>2, <2>1, PlaceIs
    <3> QED BY <1>1, <1>2, <1>3, <2>1, <3>1, <3>2, SMT DEF Cell
  <2> QED BY <1>5, <1>6, <1>9, <2>1, <2>2
<1>11. new = Tail(old)
  BY <1>6, <1>9, <1>10, SeqEqual
<1> QED BY <1>3, <1>5, <1>7, <1>8, <1>11 DEF old, new

-----------------------------------------------------------------------------
(* Sequences.                                                              *)

\* Appending to two sequences is appending to the second.
LEMMA AppendToConcat ==
  \A s, t \in Seq(Bytes) : \A x \in Bytes : Append(s \o t, x) = s \o Append(t, x)
<1> TAKE s \in Seq(Bytes), t \in Seq(Bytes)
<1> TAKE x \in Bytes
<1> DEFINE y == <<x>>
<1>1. \A a, b, c \in Seq(Bytes) : (a \o b) \o c = a \o (b \o c)
  BY ConcatAssociative, SMT
<1>2. y \in Seq(Bytes) /\ s \o t \in Seq(Bytes)
  BY ConcatProperties
<1>3. Append(s \o t, x) = (s \o t) \o y /\ Append(t, x) = t \o y
  BY <1>2, AppendIsConcat
<1> HIDE DEF y
<1>4. (s \o t) \o y = s \o (t \o y)
  BY <1>1, <1>2, Zenon
<1> QED BY <1>3, <1>4

\* A sequence in two parts.
LEMMA Parts ==
  ASSUME NEW S, NEW s \in Seq(S), NEW t \in Seq(S)
  PROVE  /\ SubSeq(s \o t, 1, Len(s)) = s
         /\ SubSeq(s \o t, Len(s) + 1, Len(s \o t)) = t
<1> DEFINE st == s \o t
           a == SubSeq(st, 1, Len(s))
           z == SubSeq(st, Len(s) + 1, Len(st))
<1>1. Len(s) \in Nat /\ Len(t) \in Nat /\ 1 \in Int
  BY LenProperties
<1>2. /\ st \in Seq(S) /\ Len(st) = Len(s) + Len(t)
      /\ \A i \in 1..Len(s) + Len(t) : st[i] = IF i <= Len(s) THEN s[i] ELSE t[i - Len(s)]
  BY ConcatProperties
<1> HIDE DEF st
<1>3. a = s
  <2>1. \A i \in 1..Len(s) : st[i] = s[i] /\ s[i] \in S
    BY <1>1, <1>2, ElementOfSeq, SMT
  <2>2. /\ a \in Seq(S) /\ Len(a) = (IF 1 <= Len(s) THEN Len(s) - 1 + 1 ELSE 0)
        /\ \A i \in 1..Len(s) - 1 + 1 : a[i] = st[1 + i - 1]
    BY <1>1, <2>1, SubSeqProperties
  <2> HIDE DEF a
  <2>3. Len(a) = Len(s) /\ \A i \in 1..Len(a) : a[i] = s[i]
    BY <1>1, <2>1, <2>2, SMT
  <2> QED BY <2>2, <2>3, SeqEqual
<1>4. z = t
  <2>1. \A i \in Len(s) + 1..Len(st) : st[i] = t[i - Len(s)] /\ i - Len(s) \in 1..Len(t)
    BY <1>1, <1>2, SMT
  <2>2. \A i \in Len(s) + 1..Len(st) : st[i] \in S
    BY <2>1, ElementOfSeq
  <2>3. Len(s) + 1 \in Int /\ Len(st) \in Int
    BY <1>1, <1>2, SMT
  <2>4. /\ z \in Seq(S)
        /\ Len(z) = (IF Len(s) + 1 <= Len(st) THEN Len(st) - (Len(s) + 1) + 1 ELSE 0)
        /\ \A i \in 1..Len(st) - (Len(s) + 1) + 1 : z[i] = st[Len(s) + 1 + i - 1]
    BY <2>2, <2>3, SubSeqProperties
  <2> HIDE DEF z
  <2>5. Len(z) = Len(t)
    BY <1>1, <1>2, <2>4, SMT
  <2>6. ASSUME NEW i \in 1..Len(z) PROVE z[i] = t[i]
    <3>1. /\ i \in 1..Len(st) - (Len(s) + 1) + 1 /\ Len(s) + 1 + i - 1 \in Len(s) + 1..Len(st)
          /\ Len(s) + 1 + i - 1 - Len(s) = i
      BY <1>1, <1>2, <2>5, SMT
    <3>2. z[i] = st[Len(s) + 1 + i - 1]
      BY <2>4, <3>1
    <3> QED BY <2>1, <3>1, <3>2
  <2> QED BY <2>4, <2>5, <2>6, SeqEqual
<1> QED BY <1>3, <1>4 DEF st, a, z

\* The first element of the second sequence moves to the end of the first.
LEMMA HeadMoves ==
  ASSUME NEW S, NEW s \in Seq(S), NEW t \in Seq(S), t # <<>>
  PROVE  Append(s, Head(t)) \o Tail(t) = s \o t
<1> DEFINE y == <<Head(t)>>
           z == Tail(t)
<1>1. /\ Head(t) \in S /\ z \in Seq(S) /\ Len(z) = Len(t) - 1
      /\ \A i \in 1..Len(z) : z[i] = t[i + 1]
  BY HeadTailProperties
<1>2. y \in Seq(S) /\ Len(y) = 1 /\ y[1] = t[1]
  BY <1>1
<1>3. Append(s, Head(t)) = s \o y
  BY <1>1, AppendIsConcat
<1>4. Len(t) \in Nat /\ Len(t) >= 1
  BY LenProperties, EmptySeq, SMT
<1> HIDE DEF y, z
<1>5. y \o z = t
  <2>1. /\ y \o z \in Seq(S) /\ Len(y \o z) = Len(y) + Len(z)
        /\ \A i \in 1..Len(y) + Len(z) : (y \o z)[i] = IF i <= Len(y) THEN y[i] ELSE z[i - Len(y)]
    <3>1. y \in Seq(S) /\ z \in Seq(S)
      BY <1>1, <1>2
    <3> QED BY <3>1, ConcatProperties
  <2>2. Len(y \o z) = Len(t)
    BY <1>1, <1>2, <1>4, <2>1, SMT
  <2>3. ASSUME NEW i \in 1..Len(t) PROVE (y \o z)[i] = t[i]
    <3>1. CASE i = 1
      BY <1>1, <1>2, <1>4, <2>1, <3>1, SMT
    <3>2. CASE i # 1
      <4>1. i - 1 \in 1..Len(z) /\ i - 1 + 1 = i /\ ~(i <= Len(y)) /\ i \in 1..Len(y) + Len(z)
            /\ i - Len(y) = i - 1
        BY <1>1, <1>2, <1>4, <3>2, SMT
      <4>2. (y \o z)[i] = z[i - 1]
        BY <2>1, <4>1
      <4> QED BY <1>1, <4>1, <4>2
    <3> QED BY <3>1, <3>2
  <2> DEFINE u == y \o z
  <2>4. u \in Seq(S) /\ Len(u) = Len(t) /\ \A i \in 1..Len(u) : u[i] = t[i]
    BY <2>1, <2>2, <2>3
  <2> HIDE DEF u
  <2>5. u = t
    BY <2>4, SeqEqual
  <2> QED BY <2>5 DEF u
<1>6. \A a, b, c \in Seq(S) : (a \o b) \o c = a \o (b \o c)
  BY ConcatAssociative, SMT
<1>7. (s \o y) \o z = s \o (y \o z)
  BY <1>1, <1>2, <1>6, Zenon
<1> QED BY <1>3, <1>5, <1>7 DEF z

-----------------------------------------------------------------------------
(* The bytes of a call.                                                    *)

CallBytes(p, call, n) == [i \in 1..n |-> Byte(p, call, i)]

\* The first n bytes of a call.
LEMMA CallBytesAre ==
  ASSUME NEW p \in Producer, NEW call \in 1..MaxCalls, NEW n \in Nat
  PROVE  /\ CallBytes(p, call, n) \in Seq(Bytes) /\ Len(CallBytes(p, call, n)) = n
         /\ \A i \in 1..n : CallBytes(p, call, n)[i] = Byte(p, call, i)
<1>1. ASSUME NEW i \in 1..n PROVE Byte(p, call, i) \in Bytes
  <2>1. i \in Nat
    BY SMT
  <2> QED BY <2>1, Zenon DEF Byte, Bytes
<1>2. CallBytes(p, call, n) \in [1..n -> Bytes]
  BY <1>1, Zenon DEF CallBytes
<1>3. \A i \in 1..n : CallBytes(p, call, n)[i] = Byte(p, call, i)
  BY Zenon DEF CallBytes
<1>4. CallBytes(p, call, n) \in Seq(Bytes) /\ Len(CallBytes(p, call, n)) = n
  BY <1>2, FunctionIsSeq
<1> QED BY <1>3, <1>4

\* One byte more.
LEMMA CallBytesGrow ==
  ASSUME NEW p \in Producer, NEW call \in 1..MaxCalls, NEW n \in Nat
  PROVE  /\ Byte(p, call, n + 1) \in Bytes
         /\ CallBytes(p, call, n + 1) = Append(CallBytes(p, call, n), Byte(p, call, n + 1))
<1> DEFINE x == Byte(p, call, n + 1)
           s == CallBytes(p, call, n)
           t == CallBytes(p, call, n + 1)
           u == Append(s, x)
<1>1. n + 1 \in Nat /\ n + 1 \in 1..n + 1
  BY SMT
<1>2. x \in Bytes
  BY <1>1, Zenon DEF Byte, Bytes
<1>3. s \in Seq(Bytes) /\ Len(s) = n /\ \A i \in 1..n : s[i] = Byte(p, call, i)
  BY CallBytesAre
<1>4. t \in Seq(Bytes) /\ Len(t) = n + 1 /\ \A i \in 1..n + 1 : t[i] = Byte(p, call, i)
  BY <1>1, CallBytesAre
<1> HIDE DEF s, t
<1>5. /\ u \in Seq(Bytes) /\ Len(u) = n + 1
      /\ \A i \in 1..n : u[i] = s[i]
      /\ u[n + 1] = x
  BY <1>2, <1>3, AppendProperties
<1> HIDE DEF u
<1>6. \A i \in 1..n + 1 : t[i] = u[i]
  <2> TAKE i \in 1..n + 1
  <2>1. CASE i = n + 1
    BY <1>1, <1>4, <1>5, <2>1
  <2>2. CASE i # n + 1
    <3>1. i \in 1..n
      BY <2>2, SMT
    <3> QED BY <1>3, <1>4, <1>5, <3>1
  <2> QED BY <2>1, <2>2
<1>7. t = u
  BY <1>4, <1>5, <1>6, SeqEqual
<1> QED BY <1>2, <1>7 DEF s, t, u

\* The beginning of a call is a shorter call.
LEMMA CallBytesCut ==
  ASSUME NEW p \in Producer, NEW call \in 1..MaxCalls, NEW n \in Nat, NEW m \in Nat, n <= m
  PROVE  SubSeq(CallBytes(p, call, m), 1, n) = CallBytes(p, call, n)
<1> DEFINE s == CallBytes(p, call, n)
           t == CallBytes(p, call, m)
           u == SubSeq(t, 1, n)
<1>1. s \in Seq(Bytes) /\ Len(s) = n /\ \A i \in 1..n : s[i] = Byte(p, call, i)
  BY CallBytesAre
<1>2. t \in Seq(Bytes) /\ Len(t) = m /\ \A i \in 1..m : t[i] = Byte(p, call, i)
  BY CallBytesAre
<1> HIDE DEF s, t
<1>3. \A i \in 1..n : i \in 1..m /\ t[i] \in Bytes /\ 1 + i - 1 = i
  BY <1>2, ElementOfSeq, SMT
<1>4. 1 \in Int /\ n \in Int
  OBVIOUS
<1>5. /\ u \in Seq(Bytes) /\ Len(u) = (IF 1 <= n THEN n - 1 + 1 ELSE 0)
      /\ \A i \in 1..n - 1 + 1 : u[i] = t[1 + i - 1]
  BY <1>3, <1>4, SubSeqProperties
<1> HIDE DEF u
<1>6. Len(u) = n /\ \A i \in 1..n : u[i] = s[i]
  BY <1>1, <1>2, <1>3, <1>5, SMT
<1>7. u = s
  BY <1>1, <1>5, <1>6, SeqEqual
<1> QED BY <1>7 DEF s, t, u

-----------------------------------------------------------------------------
(* The invariant.                                                          *)

\* The call a producer is in: the bytes copied so far, behind what was there.
Written(p) == CallBytes(p, prod[p].calls, prod[p].ptr)
Before(p) == SubSeq(Contents, 1, get_count - prod[p].ptr)
CopiedBy(p) ==
  /\ prod[p].length \in Lengths
  /\ prod[p].ptr <= prod[p].length /\ prod[p].ptr <= get_count
  /\ Contents = Before(p) \o Written(p)
Copied == \A p \in Producer : prod[p].pc = "copy" => CopiedBy(p)

\* What dequeue() has taken stays inside the call.
Taking == Len(got) <= Packet /\ (got # <<>> => wait[Reader] = "take")

Inner == Safe /\ Copied /\ Taking

\* What the abstract queue does in a step.
Promised == Fifo!FifoNext \/ UNCHANGED <<Queue, taken>>

\* The contents, in terms of the lemmas above.
LEMMA Now ==
  ASSUME Safe
  PROVE  /\ buffer \in [Cell -> Bytes \cup {NoByte}] /\ read_ptr \in Cell /\ write_ptr \in Cell
         /\ \A c \in Cell : Between(read_ptr, write_ptr, c) => buffer[c] \in Bytes
         /\ Contents = ContentsOf(buffer, read_ptr, write_ptr)
         /\ get_count = Count(read_ptr, write_ptr)
         /\ Contents \in Seq(Bytes) /\ Len(Contents) = get_count
         /\ get_count \in Nat /\ get_count <= buffer_size - 1
         /\ got \in Seq(Bytes) /\ taken \in Seq(Bytes)
<1>1. buffer \in [Cell -> Bytes \cup {NoByte}] /\ read_ptr \in Cell /\ write_ptr \in Cell
      /\ got \in Seq(Bytes) /\ taken \in Seq(Bytes)
  BY DEF Safe, TypeOK
<1>2. \A c \in Cell : Between(read_ptr, write_ptr, c) => buffer[c] \in Bytes
  BY Zenon DEF Safe, Filled, InUse, Between
<1>3. get_count = Count(read_ptr, write_ptr)
  BY DEF get_count, Count
<1>4. Contents = ContentsOf(buffer, read_ptr, write_ptr)
  BY <1>3, Zenon DEF Contents, ContentsOf, Place
<1>5. Contents \in Seq(Bytes) /\ Len(Contents) = get_count
  BY <1>1, <1>2, <1>3, <1>4, ContentsAre
<1>6. Count(read_ptr, write_ptr) \in 0..buffer_size - 1
  BY <1>1, CountIs
<1>7. get_count \in Nat /\ get_count <= buffer_size - 1
  BY <1>3, <1>6, RingAssumption, SMT
<1> QED BY <1>1, <1>2, <1>3, <1>4, <1>5, <1>7

\* Nothing has been taken unless the reader holds the mutex, and then the
\* queue is what is in the array.
LEMMA NotTaking ==
  ASSUME Inner, mtx # Reader
  PROVE  got \o Contents = Contents
<1>1. got = <<>>
  BY RingAssumption, SMT DEF Inner, Safe, MutualExclusion, Taking, Waiter
<1>2. Contents \in Seq(Bytes)
  BY Now DEF Inner
<1> QED BY <1>1, <1>2, ConcatEmptySeq

\* A step that leaves the array alone leaves the contents alone.
LEMMA SameContents ==
  ASSUME UNCHANGED ringVars
  PROVE  Contents' = Contents /\ get_count' = get_count
BY Zenon DEF Contents, get_count, ringVars

\* Copied survives a step in which no producer copies or begins to.
LEMMA CopiedKept ==
  ASSUME Copied, UNCHANGED ringVars,
         \A q \in Producer : prod'[q].pc = "copy" =>
           /\ prod[q].pc = "copy" /\ prod'[q].ptr = prod[q].ptr
           /\ prod'[q].length = prod[q].length /\ prod'[q].calls = prod[q].calls
  PROVE  Copied'
<1>1. Contents' = Contents /\ get_count' = get_count
  BY SameContents
<1>2. ASSUME NEW q \in Producer, prod'[q].pc = "copy" PROVE CopiedBy(q)'
  <2>1. CopiedBy(q) /\ prod'[q].ptr = prod[q].ptr
        /\ prod'[q].length = prod[q].length /\ prod'[q].calls = prod[q].calls
    BY <1>2 DEF Copied
  <2>2. Written(q)' = Written(q) /\ Before(q)' = Before(q)
    BY <1>1, <2>1, Zenon DEF Written, Before
  <2> QED BY <1>1, <2>1, <2>2, Zenon DEF CopiedBy
<1> QED BY <1>2, Zenon DEF Copied

\* The queue is what it was when no call takes effect.
LEMMA NoEffect ==
  ASSUME UNCHANGED <<ringVars, got, taken>>,
         mtx \in Producer <=> mtx' \in Producer,
         mtx \in Producer => mtx' = mtx /\ prod'[mtx].ptr = prod[mtx].ptr
  PROVE  Promised
<1>1. Contents' = Contents /\ get_count' = get_count
  BY SameContents
<1>2. Queue' = Queue
  <2>1. CASE mtx \in Producer
    BY <1>1, <2>1, Zenon DEF Queue
  <2>2. CASE mtx \notin Producer
    BY <1>1, <2>2, Zenon DEF Queue
  <2> QED BY <2>1, <2>2
<1> QED BY <1>2 DEF Promised

\* A thread in wait(), or in the loop around it, changes nothing of the queue.
LEMMA WaitFifo ==
  ASSUME Inner, NEW t \in Waiter, Wait(t) \/ Spurious(t) \/ ep_write(t)
  PROVE  Copied' /\ Taking' /\ Promised
<1>1. UNCHANGED <<ringVars, prod, got, taken>>
  BY Zenon DEF Wait, Spurious, ep_write, WaitLock, WaitCheck, Timeout, Relock, LateReturn
<1>2. Copied'
  BY <1>1, CopiedKept, Zenon DEF Inner
<1>3. mtx \in Producer \cup Waiter \cup {Free} /\ wait \in [Waiter -> WaitPc]
  BY Zenon DEF Inner, Safe, TypeOK, WaitPc
<1>4. t \notin Producer /\ Free \notin Producer
  BY RingAssumption, SMT
<1>5. mtx' = mtx \/ (mtx \notin Producer /\ mtx' \notin Producer)
  <2>1. mtx' = mtx \/ (mtx \in {t, Free} /\ mtx' \in {t, Free})
    BY Zenon DEF Wait, Spurious, ep_write, WaitLock, WaitCheck, Timeout, Relock, LateReturn,
       Lock, Unlock
  <2> QED BY <1>4, <2>1, SMT
<1>6. Promised
  BY <1>1, <1>5, NoEffect, Zenon
<1>7. wait[t] # "take"
  BY SMT DEF Wait, Spurious, ep_write, WaitLock, WaitCheck, Timeout, Relock, LateReturn
<1>8. \A u \in Waiter : u # t => wait'[u] = wait[u]
  BY <1>3, Zenon DEF Wait, Spurious, ep_write, WaitLock, WaitCheck, Timeout, Relock, LateReturn
<1>9. Taking'
  BY <1>1, <1>7, <1>8, Zenon DEF Inner, Taking, Waiter
<1> QED BY <1>2, <1>6, <1>9

\* dequeue() takes effect when it gives up the mutex; until then a byte only
\* moves from the array to what has been taken.
LEMMA DequeueFifo ==
  ASSUME Inner, Dequeue
  PROVE  Copied' /\ Taking' /\ Promised
<1>1. Reader \in Waiter /\ Reader \notin Producer /\ Free \notin Producer /\ Reader # Free
  BY RingAssumption, SMT DEF Waiter
<1>2. wait \in [Waiter -> WaitPc] /\ (wait[Reader] = "take" => mtx = Reader)
  BY <1>1, Zenon DEF Inner, Safe, TypeOK, MutualExclusion, WaitPc
<1>3. Packet \in Nat
  BY RingAssumption
<1>4. CASE DequeueLock
  <2>1. /\ UNCHANGED <<ringVars, prod, got, taken>> /\ mtx = Free /\ mtx' = Reader
        /\ wait' = [wait EXCEPT ![Reader] = "take"]
    BY <1>4 DEF DequeueLock, Lock
  <2>2. Copied'
    BY <2>1, CopiedKept, Zenon DEF Inner
  <2>3. Promised
    BY <1>1, <2>1, NoEffect, Zenon
  <2>4. Taking'
    BY <1>1, <1>2, <2>1, Zenon DEF Inner, Taking
  <2> QED BY <2>2, <2>3, <2>4
<1>5. CASE dequeue_single_without_lock
  <2>1. /\ wait[Reader] = "take" /\ Len(got) < Packet /\ write_ptr # read_ptr
        /\ got' = Append(got, buffer[read_ptr]) /\ read_ptr' = Suc(read_ptr)
        /\ UNCHANGED <<buffer, write_ptr, mtx, prod, wait, taken>>
    BY <1>5 DEF dequeue_single_without_lock, is_empty_without_lock
  <2>2. mtx = Reader
    BY <1>2, <2>1
  <2>3. /\ Contents \in Seq(Bytes) /\ Contents # <<>>
        /\ Head(Contents) = buffer[read_ptr]
        /\ ContentsOf(buffer, Suc(read_ptr), write_ptr) = Tail(Contents)
    <3>1. /\ buffer \in [Cell -> Bytes \cup {NoByte}] /\ read_ptr \in Cell /\ write_ptr \in Cell
          /\ \A c \in Cell : Between(read_ptr, write_ptr, c) => buffer[c] \in Bytes
          /\ Contents = ContentsOf(buffer, read_ptr, write_ptr)
      BY Now DEF Inner
    <3> QED BY <2>1, <3>1, TailContents
  <2>4. Contents' = Tail(Contents)
    <3>1. Contents' = ContentsOf(buffer, Suc(read_ptr), write_ptr)
      BY <2>1, Zenon DEF Contents, ContentsOf, get_count, Count, Place
    <3> QED BY <2>3, <3>1
  <2>5. got \in Seq(Bytes)
    BY DEF Inner, Safe, TypeOK
  <2>6. got' \o Contents' = got \o Contents
    <3>1. Append(got, Head(Contents)) \o Tail(Contents) = got \o Contents
      BY <2>3, <2>5, HeadMoves
    <3> QED BY <2>1, <2>3, <2>4, <3>1
  <2>7. Promised
    BY <1>1, <2>1, <2>2, <2>6, Zenon DEF Promised, Queue
  <2>8. Len(got') = Len(got) + 1
    <3>1. buffer[read_ptr] \in Bytes
      BY <2>3
    <3> QED BY <2>1, <2>5, <3>1, AppendProperties
  <2>9. Taking'
    BY <1>3, <2>1, <2>5, <2>8, LenProperties, SMT DEF Taking
  <2>10. Copied'
    BY <1>1, <2>1, <2>2, Zenon DEF Inner, Safe, MutualExclusion, Copied
  <2> QED BY <2>7, <2>9, <2>10
<1>6. CASE DequeueUnlock
  <2>1. /\ wait[Reader] = "take" /\ (Len(got) = Packet \/ write_ptr = read_ptr)
        /\ mtx = Reader /\ mtx' = Free
        /\ taken' = taken \o got /\ got' = <<>>
        /\ UNCHANGED <<ringVars, prod>>
    BY <1>6 DEF DequeueUnlock, Unlock, is_empty_without_lock
  <2>2. Copied'
    BY <2>1, CopiedKept, Zenon DEF Inner
  <2>3. Taking'
    BY <1>3, <2>1, SMT DEF Taking
  <2>4. /\ Contents \in Seq(Bytes) /\ got \in Seq(Bytes) /\ Contents' = Contents
        /\ Len(Contents) = get_count /\ get_count \in Nat
        /\ read_ptr \in Cell /\ write_ptr \in Cell
    BY <2>1, Now, SameContents DEF Inner
  <2>5. Queue = got \o Contents /\ Queue' = Contents
    <3>1. Queue = got \o Contents
      BY <1>1, <2>1, Zenon DEF Queue
    <3>2. Queue' = <<>> \o Contents
      BY <1>1, <2>1, <2>4, Zenon DEF Queue
    <3>3. <<>> \o Contents = Contents
      BY <2>4, ConcatEmptySeq
    <3> QED BY <3>1, <3>2, <3>3
  <2>6. Fifo!Smaller(Packet, Len(Queue)) = Len(got)
    <3>1. Len(Queue) = Len(got) + get_count /\ Len(got) \in Nat
      BY <2>4, <2>5, ConcatProperties, LenProperties
    <3>2. Len(got) <= Packet
      BY DEF Inner, Taking
    <3>3. write_ptr = read_ptr => get_count = 0
      BY <2>4, CountIs, RingAssumption, SMT DEF get_count, Count, Cell
    <3> QED BY <1>3, <2>1, <2>4, <3>1, <3>2, <3>3, SMT DEF Fifo!Smaller
  <2>7. /\ SubSeq(got \o Contents, 1, Len(got)) = got
        /\ SubSeq(got \o Contents, Len(got) + 1, Len(got \o Contents)) = Contents
    BY <2>4, Parts
  <2>8. Fifo!Take
    BY <2>1, <2>5, <2>6, <2>7, Zenon DEF Fifo!Take
  <2> QED BY <2>2, <2>3, <2>8 DEF Promised, Fifo!FifoNext
<1> QED BY <1>4, <1>5, <1>6 DEF Dequeue

\* While the mutex is free or belongs to p, nobody else copies.
LEMMA OthersIdle ==
  ASSUME Inner, NEW p \in Producer, mtx \in {p, Free}
  PROVE  \A q \in Producer : q # p => prod[q].pc # "copy"
BY RingAssumption, SMT DEF Inner, Safe, MutualExclusion

\* A call begins: nothing has been copied.
LEMMA EnqueueLockFifo ==
  ASSUME Inner, NEW p \in Producer, EnqueueLock(p)
  PROVE  Copied' /\ Promised
<1>1. PICK length \in Lengths :
        prod' = [prod EXCEPT ![p] = [pc |-> "copy", ptr |-> 0, length |-> length,
                                     calls |-> prod[p].calls + 1]]
  BY Zenon DEF EnqueueLock
<1>2. mtx = Free /\ mtx' = p /\ prod[p].calls < MaxCalls
      /\ UNCHANGED <<ringVars, wait, got, taken>>
  BY DEF EnqueueLock, Lock
<1>3. prod \in [Producer -> ProdType] /\ prod[p].calls \in 0..MaxCalls
  BY Zenon DEF Inner, Safe, TypeOK, ProdType, ProdPc
<1>4. /\ prod'[p].ptr = 0 /\ prod'[p].length = length
      /\ prod'[p].calls = prod[p].calls + 1
      /\ \A q \in Producer : q # p => prod'[q] = prod[q]
  BY <1>1, <1>3, Zenon
<1>5. /\ Contents' = Contents /\ get_count' = get_count
      /\ Contents \in Seq(Bytes) /\ Len(Contents) = get_count /\ get_count \in Nat
  BY <1>2, Now, SameContents DEF Inner
<1>6. Before(p)' = Contents
  <2>1. get_count - 0 = Len(Contents)
    BY <1>5, SMT
  <2>2. SubSeq(Contents, 1, Len(Contents)) = Contents
    BY <1>5, SubSeqFull
  <2> QED BY <1>4, <1>5, <2>1, <2>2, Zenon DEF Before
<1>7. Written(p)' = <<>>
  <2>1. prod[p].calls + 1 \in 1..MaxCalls /\ 0 \in Nat
    BY <1>2, <1>3, RingAssumption, SMT
  <2>2. CallBytes(p, prod[p].calls + 1, 0) \in Seq(Bytes)
        /\ Len(CallBytes(p, prod[p].calls + 1, 0)) = 0
    BY <2>1, CallBytesAre
  <2> QED BY <1>4, <2>2, SMT DEF Written
<1>8. CopiedBy(p)'
  <2>1. Contents \o <<>> = Contents
    BY <1>5, ConcatEmptySeq
  <2>2. length \in Lengths /\ 0 <= length /\ 0 <= get_count
    BY <1>5, RingAssumption, SMT
  <2> QED BY <1>4, <1>5, <1>6, <1>7, <2>1, <2>2, Zenon DEF CopiedBy
<1>9. Copied'
  <2>1. \A q \in Producer : q # p => prod[q].pc # "copy"
    BY <1>2, OthersIdle
  <2> QED BY <1>4, <1>8, <2>1, Zenon DEF Copied
<1>10. Promised
  <2>1. Queue = Contents
    <3>1. mtx \notin Producer /\ mtx # Reader
      BY <1>2, RingAssumption, SMT DEF Waiter
    <3>2. got \o Contents = Contents
      BY <3>1, NotTaking
    <3> QED BY <3>1, <3>2, Zenon DEF Queue
  <2>2. Queue' = Before(p)'
    BY <1>2, Zenon DEF Queue, Before
  <2> QED BY <1>2, <1>6, <2>1, <2>2 DEF Promised
<1> QED BY <1>9, <1>10

\* A byte is copied; the queue is still what it was before the call.
LEMMA EnqueueSingleFifo ==
  ASSUME Inner, NEW p \in Producer, enqueue_single_without_lock(p)
  PROVE  Copied' /\ Promised
<1> DEFINE c == prod[p].calls
           k == prod[p].ptr
           b == Byte(p, c, k + 1)
           q == Before(p)
           w == Written(p)
<1>1. /\ prod[p].pc = "copy" /\ k < prod[p].length /\ Suc(write_ptr) # read_ptr
      /\ buffer' = [buffer EXCEPT ![write_ptr] = b] /\ write_ptr' = Suc(write_ptr)
      /\ prod' = [prod EXCEPT ![p].ptr = k + 1]
      /\ UNCHANGED <<read_ptr, mtx, wait, got, taken>>
  BY Zenon DEF enqueue_single_without_lock, is_full_without_lock
<1>2. prod \in [Producer -> ProdType] /\ k \in Nat /\ prod[p].length \in Nat /\ mtx = p
  BY <1>1, Zenon DEF Inner, Safe, TypeOK, ProdType, ProdPc, MutualExclusion
<1>3. c \in 1..MaxCalls /\ CopiedBy(p)
  BY <1>1, Zenon DEF Inner, Safe, Calling, Copied
<1>4. /\ prod'[p].ptr = k + 1 /\ prod'[p].length = prod[p].length /\ prod'[p].calls = c
      /\ \A u \in Producer : u # p => prod'[u] = prod[u]
  BY <1>1, <1>2, Zenon DEF ProdType
<1>5. b \in Bytes /\ CallBytes(p, c, k + 1) = Append(w, b)
  BY <1>2, <1>3, CallBytesGrow DEF Written
<1>6. /\ Contents \in Seq(Bytes) /\ Len(Contents) = get_count /\ get_count \in Nat
      /\ k <= get_count /\ Contents = q \o w
  BY <1>3, Now DEF Inner, CopiedBy
<1>7. Contents' = Append(Contents, b) /\ get_count' = get_count + 1
  <2>1. /\ buffer \in [Cell -> Bytes \cup {NoByte}] /\ read_ptr \in Cell /\ write_ptr \in Cell
        /\ \A d \in Cell : Between(read_ptr, write_ptr, d) => buffer[d] \in Bytes
        /\ Contents = ContentsOf(buffer, read_ptr, write_ptr)
        /\ get_count = Count(read_ptr, write_ptr)
    BY Now DEF Inner
  <2> HIDE DEF b
  <2>2. /\ Count(read_ptr, Suc(write_ptr)) = get_count + 1
        /\ ContentsOf([buffer EXCEPT ![write_ptr] = b], read_ptr, Suc(write_ptr))
             = Append(Contents, b)
    BY <1>1, <1>5, <2>1, AppendContents
  <2>3. get_count' = Count(read_ptr, Suc(write_ptr))
    BY <1>1, Zenon DEF get_count, Count
  <2>4. Contents' = ContentsOf([buffer EXCEPT ![write_ptr] = b], read_ptr, Suc(write_ptr))
    <3>1. /\ buffer' = [buffer EXCEPT ![write_ptr] = b] /\ read_ptr' = read_ptr
          /\ write_ptr' = Suc(write_ptr)
      BY <1>1 DEF b
    <3>2. Contents' = ContentsOf(buffer', read_ptr', write_ptr')
      BY DEF Contents, ContentsOf, get_count, Count, Place
    <3> QED BY <3>1, <3>2
  <2> QED BY <2>2, <2>3, <2>4
<1>8. w \in Seq(Bytes) /\ Len(w) = k
  BY <1>2, <1>3, CallBytesAre DEF Written
<1>9. q \in Seq(Bytes) /\ Len(q) = get_count - k
  <2>1. 1 \in Int /\ get_count - k \in Int /\ \A i \in 1..get_count - k : Contents[i] \in Bytes
    BY <1>2, <1>6, ElementOfSeq, SMT
  <2>2. q \in Seq(Bytes)
        /\ Len(q) = IF 1 <= get_count - k THEN get_count - k - 1 + 1 ELSE 0
    BY <2>1, SubSeqProperties DEF Before
  <2> QED BY <1>2, <1>6, <2>2, SMT
<1> HIDE DEF b, q, w
<1>10. /\ Append(w, b) \in Seq(Bytes)
       /\ Append(q \o w, b) = q \o Append(w, b)
       /\ SubSeq(q \o Append(w, b), 1, Len(q)) = q
  <2>1. Append(w, b) \in Seq(Bytes)
    BY <1>5, <1>8, AppendProperties
  <2>2. Append(q \o w, b) = q \o Append(w, b)
    BY <1>5, <1>8, <1>9, AppendToConcat, Zenon
  <2>3. SubSeq(q \o Append(w, b), 1, Len(q)) = q
    BY <1>9, <2>1, Parts
  <2> QED BY <2>1, <2>2, <2>3
<1>11. Contents' = q \o Append(w, b)
  BY <1>6, <1>7, <1>10
<1>12. Written(p)' = Append(w, b)
  BY <1>4, <1>5, Zenon DEF Written
<1>13. Before(p)' = q
  <2>1. get_count + 1 - (k + 1) = Len(q)
    BY <1>2, <1>6, <1>9, SMT
  <2>2. Before(p)' = SubSeq(q \o Append(w, b), 1, get_count + 1 - (k + 1))
    <3>1. Before(p)' = SubSeq(Contents', 1, get_count' - prod'[p].ptr)
      BY DEF Before
    <3>2. prod'[p].ptr = k + 1
      BY <1>4
    <3>3. get_count' - prod'[p].ptr = get_count + 1 - (k + 1)
      <4>1. get_count' = get_count + 1
        BY <1>7
      <4>2. get_count \in Nat /\ k \in Nat
        BY <1>2, <1>6
      <4> QED BY <3>2, <4>1, <4>2, SMT
    <3>4. Before(p)' = SubSeq(Contents', 1, get_count + 1 - (k + 1))
      BY <3>1, <3>3
    <3> QED BY <1>11, <3>4, Zenon
  <2> QED BY <1>10, <2>1, <2>2
<1>14. CopiedBy(p)'
  <2>1. prod[p].length \in Lengths /\ k + 1 <= prod[p].length /\ k + 1 <= get_count + 1
    BY <1>1, <1>2, <1>3, <1>6, SMT DEF CopiedBy
  <2> QED BY <1>4, <1>7, <1>11, <1>12, <1>13, <2>1, Zenon DEF CopiedBy
<1>15. Copied'
  <2>1. \A u \in Producer : u # p => prod[u].pc # "copy"
    BY <1>2, OthersIdle
  <2> QED BY <1>4, <1>14, <2>1, Zenon DEF Copied
<1>16. Queue = q /\ Queue' = Before(p)'
  BY <1>1, <1>2, Zenon DEF Queue, Before, q
<1> QED BY <1>1, <1>13, <1>15, <1>16 DEF Promised

\* The call takes effect: what was copied is the call, or as much of it as
\* fits.
LEMMA EnqueueUnlockFifo ==
  ASSUME Inner, NEW p \in Producer, EnqueueUnlock(p)
  PROVE  Copied' /\ Promised
<1> DEFINE c == prod[p].calls
           k == prod[p].ptr
           length == prod[p].length
           bytes == CallBytes(p, c, length)
           q == Before(p)
<1>1. /\ prod[p].pc = "copy" /\ (k = length \/ Suc(write_ptr) = read_ptr)
      /\ mtx = p /\ mtx' = Free
      /\ UNCHANGED <<ringVars, wait, got, taken>>
  BY Zenon DEF EnqueueUnlock, Unlock, is_full_without_lock
<1>2. prod \in [Producer -> ProdType] /\ k \in Nat /\ length \in Nat
  BY Zenon DEF Inner, Safe, TypeOK, ProdType, ProdPc
<1>3. c \in 1..MaxCalls /\ CopiedBy(p)
  BY <1>1, Zenon DEF Inner, Safe, Calling, Copied
<1>4. /\ Contents' = Contents /\ get_count' = get_count
      /\ Contents \in Seq(Bytes) /\ Len(Contents) = get_count /\ get_count \in Nat
      /\ get_count <= buffer_size - 1
      /\ read_ptr \in Cell /\ write_ptr \in Cell /\ get_count = Count(read_ptr, write_ptr)
  BY <1>1, Now, SameContents DEF Inner
<1>5. /\ length \in Lengths /\ k <= length /\ k <= get_count
      /\ Contents = q \o Written(p)
  BY <1>3 DEF CopiedBy
<1>6. Copied'
  <2>1. \A u \in Producer : u # p => prod[u].pc # "copy" /\ prod'[u] = prod[u]
    <3>1. \A u \in Producer : u # p => prod[u].pc # "copy"
      BY <1>1, OthersIdle
    <3> QED BY <1>2, <3>1, Zenon DEF EnqueueUnlock
  <2>2. prod'[p].pc # "copy"
    <3>1. PICK pc \in {"notify", "idle"} :
            prod' = [prod EXCEPT ![p] = [prod[p] EXCEPT !.pc = pc, !.ptr = 0, !.length = 0]]
      BY Zenon DEF EnqueueUnlock
    <3>2. prod'[p].pc = pc
      BY <1>2, <3>1, Zenon DEF ProdType
    <3> QED BY <3>2
  <2> QED BY <2>1, <2>2, Zenon DEF Copied
<1>7. Len(q) = get_count - k
  <2>1. 1 \in Int /\ get_count - k \in Int /\ \A i \in 1..get_count - k : Contents[i] \in Bytes
    BY <1>2, <1>4, ElementOfSeq, SMT
  <2>2. Len(q) = IF 1 <= get_count - k THEN get_count - k - 1 + 1 ELSE 0
    BY <2>1, SubSeqProperties DEF Before
  <2> QED BY <1>2, <1>4, <1>5, <2>2, SMT
<1>8. Suc(write_ptr) = read_ptr => get_count = buffer_size - 1
  <2>1. Count(read_ptr, write_ptr) = IF write_ptr >= read_ptr THEN write_ptr - read_ptr
                                     ELSE write_ptr - read_ptr + buffer_size
    BY <1>4, CountIs
  <2>2. Suc(write_ptr) = IF write_ptr = buffer_size - 1 THEN 0 ELSE write_ptr + 1
    BY <1>4, SucInArray
  <2>3. write_ptr \in Int /\ read_ptr \in Int /\ 0 <= write_ptr /\ write_ptr <= buffer_size - 1
        /\ buffer_size \in Int
    BY <1>4, RingAssumption, SMT DEF Cell
  <2> QED BY <1>4, <2>1, <2>2, <2>3, SMT
<1>9. Fifo!Smaller(length, buffer_size - 1 - Len(q)) = k
  <2>1. k = length \/ get_count = buffer_size - 1
    BY <1>1, <1>8
  <2>2. buffer_size - 1 - Len(q) = buffer_size - 1 - get_count + k /\ k <= length
    <3>1. get_count \in Int /\ k \in Int /\ buffer_size \in Int
      BY <1>2, <1>4, RingAssumption, SMT
    <3> HIDE DEF k, q, length
    <3>2. buffer_size - 1 - (get_count - k) = buffer_size - 1 - get_count + k
      BY <3>1, SMT
    <3> QED BY <1>5, <1>7, <3>2, Zenon
  <2>3. \A x, y \in Int : Fifo!Smaller(x, y) = IF x <= y THEN x ELSE y
    BY DEF Fifo!Smaller
  <2> HIDE DEF k, length
  <2>4. length \in Int /\ buffer_size - 1 - get_count + k \in Int /\ buffer_size \in Int
        /\ get_count \in Int /\ k \in Int
    BY <1>2, <1>4, RingAssumption, SMT
  <2>5. IF length <= buffer_size - 1 - get_count + k
        THEN length = k ELSE buffer_size - 1 - get_count + k = k
    BY <1>4, <2>1, <2>2, <2>4, SMT
  <2> QED BY <2>2, <2>3, <2>4, <2>5
<1>10. SubSeq(bytes, 1, k) = Written(p) /\ Len(bytes) = length
  BY <1>2, <1>3, <1>5, CallBytesCut, CallBytesAre DEF Written
<1>11. Queue = q /\ Queue' = Contents
  <2>1. Queue = q
    BY <1>1, Zenon DEF Queue, Before
  <2>2. mtx' \notin Producer /\ mtx # Reader
    BY <1>1, RingAssumption, SMT DEF Waiter
  <2>3. Queue' = got \o Contents
    BY <1>1, <1>4, <2>2, Zenon DEF Queue
  <2>4. got \o Contents = Contents
    BY <2>2, NotTaking
  <2> QED BY <2>1, <2>3, <2>4
<1>12. bytes \in {[i \in 1..n |-> Byte(r, d, i)] : n \in Lengths, r \in Producer, d \in 1..MaxCalls}
  <2>1. bytes = [i \in 1..length |-> Byte(p, c, i)]
    BY DEF CallBytes
  <2> HIDE DEF bytes
  <2> QED BY <1>3, <1>5, <2>1
<1> HIDE DEF bytes, q
<1>13. Fifo!Put(bytes)
  BY <1>1, <1>5, <1>9, <1>10, <1>11, Zenon DEF Fifo!Put
<1>14. Fifo!FifoNext
  BY <1>12, <1>13 DEF Fifo!FifoNext
<1> QED BY <1>6, <1>14 DEF Promised

\* notify_one() changes nothing of the queue.
LEMMA NotifyFifo ==
  ASSUME Inner, NEW p \in Producer, notify_one(p)
  PROVE  Copied' /\ Taking' /\ Promised
<1>1. /\ prod[p].pc = "notify" /\ prod' = [prod EXCEPT ![p].pc = "idle"]
      /\ UNCHANGED <<ringVars, mtx, got, taken>>
  BY Zenon DEF notify_one
<1>2. prod \in [Producer -> ProdType] /\ wait \in [Waiter -> WaitPc] /\ Reader \in Waiter
  BY Zenon DEF Inner, Safe, TypeOK, ProdType, ProdPc, WaitPc, Waiter
<1>3. prod'[p].pc = "idle" /\ \A q \in Producer : q # p => prod'[q] = prod[q]
  BY <1>1, <1>2, Zenon DEF ProdType
<1>4. Copied'
  BY <1>1, <1>3, CopiedKept, Zenon DEF Inner
<1>5. Promised
  <2>1. mtx \in Producer => prod'[mtx].ptr = prod[mtx].ptr
    BY <1>1, <1>2, Zenon DEF ProdType
  <2> QED BY <1>1, <2>1, NoEffect, Zenon
<1>6. wait[Reader] = "take" => wait'[Reader] = "take"
  BY <1>2, Zenon DEF notify_one
<1>7. Taking'
  BY <1>1, <1>6, Zenon DEF Inner, Taking
<1> QED BY <1>4, <1>5, <1>7

\* All steps of a producer.
LEMMA EnqueueFifo ==
  ASSUME Inner, NEW p \in Producer, Enqueue(p)
  PROVE  Copied' /\ Taking' /\ Promised
<1>1. CASE notify_one(p)
  BY <1>1, NotifyFifo
<1>2. CASE EnqueueLock(p) \/ enqueue_single_without_lock(p) \/ EnqueueUnlock(p)
  <2>1. UNCHANGED <<wait, got>>
    BY <1>2, Zenon DEF EnqueueLock, enqueue_single_without_lock, EnqueueUnlock
  <2>2. Taking'
    BY <2>1, Zenon DEF Inner, Taking
  <2> QED BY <1>2, <2>2, EnqueueLockFifo, EnqueueSingleFifo, EnqueueUnlockFifo
<1> QED BY <1>1, <1>2 DEF Enqueue

-----------------------------------------------------------------------------

\* The invariant and the abstract queue at the start.
LEMMA InnerInit == Init => Inner /\ Fifo!FifoInit
<1> SUFFICES ASSUME Init PROVE Inner /\ Fifo!FifoInit
  OBVIOUS
<1>1. Safe
  BY InitSafe
<1>2. Copied
  BY Zenon DEF Init, Copied
<1>3. Taking
  BY RingAssumption, SMT DEF Init, Taking
<1>4. Queue = <<>>
  <2>1. get_count = 0
    BY RingAssumption, SMT DEF Init, get_count
  <2>2. Contents = <<>>
    BY <1>1, <2>1, Now, EmptySeq, SMT
  <2>3. mtx \notin Producer /\ got = <<>>
    BY RingAssumption, SMT DEF Init
  <2>4. Queue = got \o Contents
    BY <2>3 DEF Queue
  <2> QED BY <2>2, <2>3, <2>4, ConcatEmptySeq, SMT
<1> QED BY <1>1, <1>2, <1>3, <1>4 DEF Inner, Fifo!FifoInit, Init

\* Every step keeps the invariant, and is a step of BoundedFifo or a stutter.
LEMMA InnerNext == Inner /\ [Next]_vars => Inner' /\ [Fifo!FifoNext]_<<Queue, taken>>
<1> SUFFICES ASSUME Inner, [Next]_vars PROVE Inner' /\ Promised
  BY DEF Promised
<1>1. Safe'
  BY NextSafe DEF Inner
<1>2. CASE UNCHANGED vars
  <2>1. Copied'
    BY <1>2, CopiedKept, Zenon DEF Inner, vars
  <2>2. Taking' /\ Promised
    BY <1>2, NoEffect, Zenon DEF Inner, Taking, vars
  <2> QED BY <1>1, <2>1, <2>2 DEF Inner
<1>3. ASSUME NEW p \in Producer, Enqueue(p) PROVE Inner' /\ Promised
  BY <1>1, <1>3, EnqueueFifo DEF Inner
<1>4. ASSUME NEW t \in Waiter, Wait(t) \/ Spurious(t) \/ ep_write(t) PROVE Inner' /\ Promised
  BY <1>1, <1>4, WaitFifo DEF Inner
<1>5. CASE Dequeue
  BY <1>1, <1>5, DequeueFifo DEF Inner
<1> QED BY <1>2, <1>3, <1>4, <1>5 DEF Next

\* ring_buffer implements BoundedFifo: enqueue() and dequeue() are one step
\* each, calls are cut off only where the buffer is full, and nothing is lost,
\* repeated or reordered in between.
THEOREM RingIsFifo == Spec => FifoPromise
<1>1. Init => Inner /\ Fifo!FifoInit
  BY InnerInit
<1>2. Inner /\ [Next]_vars => Inner' /\ [Fifo!FifoNext]_<<Queue, taken>>
  BY InnerNext
<1> QED BY <1>1, <1>2, PTL DEF Spec, FifoPromise, Fifo!FifoSpec, Fifo!fifoVars
=============================================================================
