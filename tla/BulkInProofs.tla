----------------------------- MODULE BulkInProofs -----------------------------
(***************************************************************************)
(* No byte is lost on its way to the host, for every size of a packet, any *)
(* number of bytes and of changes of the carrier.                          *)
(***************************************************************************)
EXTENDS BulkIn, TLAPS

DataState == [pc : {"wait", "load", "status", "write"}, n : Nat,
              dcd : BOOLEAN, last_dcd : BOOLEAN, empty : BOOLEAN]
HostState == [dcd : {"unknown", "up", "down"}, more : {"unknown", "yes", "no"},
              bytes : Nat]
EnvState == [bytes : Nat, flips : Nat, early : BOOLEAN]

Types ==
  /\ connected \in BOOLEAN /\ pending \in Nat
  /\ data \in DataState /\ host \in HostState /\ env \in EnvState

\* The thread holds no byte while it waits: what it took last was sent, or it
\* took nothing.
NothingHeld == data.pc = "wait" => data.n = 0

BulkInv == Types /\ NothingHeld /\ NothingLost

-----------------------------------------------------------------------------
(* The steps.                                                              *)

\* It holds from the start.
LEMMA InitEstablishes == Init => BulkInv
<1> SUFFICES ASSUME Init PROVE BulkInv
  OBVIOUS
<1>1. connected \in BOOLEAN /\ data \in DataState /\ env \in EnvState
  BY Zenon DEF Init, DataState, EnvState
<1>2. pending = 0 /\ data.n = 0 /\ host.bytes = 0 /\ env.bytes = 0
  BY SMT DEF Init
<1>3. host \in HostState
  BY SMT DEF Init, HostState
<1> QED BY <1>1, <1>2, <1>3, SMT DEF BulkInv, Types, NothingHeld, NothingLost

\* Bytes are enqueued.
LEMMA EnqueueStep ==
  ASSUME BulkInv, EnqueueBytes
  PROVE  BulkInv'
<1> USE DEF BulkInv
<1>1. PICK n \in 1..MaxBytes - env.bytes :
        pending' = pending + n /\ env' = [env EXCEPT !.bytes = env.bytes + n]
  BY DEF EnqueueBytes
<1>2. UNCHANGED <<connected, data, host>> /\ env \in EnvState /\ pending \in Nat
  BY DEF EnqueueBytes, Types
<1>3. n \in Nat /\ env.bytes \in Nat
  BY <1>2, SMT DEF EnvState
<1>4. env.bytes + n \in Nat /\ pending + n \in Nat
  BY <1>2, <1>3, SMT
<1>5. env' \in EnvState
  BY <1>1, <1>2, <1>4, Zenon DEF EnvState
<1>6. env'.bytes = env.bytes + n
  BY <1>1, <1>2, SMT DEF EnvState
<1>7. Types' /\ NothingHeld'
  BY <1>1, <1>2, <1>4, <1>5, Zenon DEF Types, NothingHeld
<1>8. NothingLost'
  BY <1>1, <1>2, <1>3, <1>6, SMT DEF NothingLost, Types, DataState, HostState
<1> QED BY <1>7, <1>8

\* The carrier changes.
LEMMA CarrierStep ==
  ASSUME BulkInv, Carrier
  PROVE  BulkInv'
<1> USE DEF BulkInv
<1>1. PICK f, e : /\ env' = [env EXCEPT !.flips = f, !.early = e]
                  /\ f = env.flips + 1
                  /\ e = (env.early \/ (host.dcd = "unknown" /\ ~connected))
  BY Zenon DEF Carrier
<1>2. /\ UNCHANGED <<pending, data, host>> /\ connected' = ~connected
      /\ env \in EnvState /\ connected \in BOOLEAN
  BY Zenon DEF Carrier, Types
<1>3. f \in Nat /\ e \in BOOLEAN
  <2>1. env.flips \in Nat /\ env.early \in BOOLEAN
    BY <1>2, Zenon DEF EnvState
  <2>2. f \in Nat
    BY <1>1, <2>1, SMT
  <2> QED BY <1>1, <2>2, Zenon
<1>4. env' \in EnvState
  BY <1>1, <1>2, <1>3, Zenon DEF EnvState
<1>5. env'.bytes = env.bytes
  BY <1>1, <1>2, SMT DEF EnvState
<1>6. Types' /\ NothingHeld'
  <2>1. connected' \in BOOLEAN
    BY <1>2, Zenon
  <2> QED BY <1>2, <1>4, <2>1, Zenon DEF Types, NothingHeld
<1>7. NothingLost'
  BY <1>2, <1>5, Zenon DEF NothingLost
<1> QED BY <1>6, <1>7

\* Bytes are taken from the buffer; a packet of none may be forgotten.
LEMMA DequeueStep ==
  ASSUME BulkInv, Dequeue
  PROVE  BulkInv'
<1> USE DEF BulkInv
<1>1. PICK n : n = IF pending < Packet THEN pending ELSE Packet
  OBVIOUS
<1>2. PICK p : p = IF model \in InBand THEN "load"
                   ELSE IF model = "Lucent" /\ n = 0 THEN "wait" ELSE "write"
  OBVIOUS
<1>3. /\ data.pc = "wait" /\ data \in DataState /\ pending \in Nat
      /\ pending' = pending - n /\ data' = [data EXCEPT !.n = n, !.pc = p]
      /\ UNCHANGED <<connected, host, env>>
  BY <1>1, <1>2, Zenon DEF Dequeue, Types
<1>4. n \in Nat /\ pending - n \in Nat
  BY <1>1, <1>3, BulkInAssumption, SMT DEF BulkInAssumption
<1>5. p \in {"wait", "load", "status", "write"} /\ (p = "wait" => n = 0)
  BY <1>2, Zenon
<1>6. data' \in DataState
  BY <1>3, <1>4, <1>5, Zenon DEF DataState
<1>7. data'.n = n /\ data'.pc = p /\ data.n = 0
  BY <1>3, SMT DEF DataState, NothingHeld
<1>8. Types' /\ NothingHeld'
  BY <1>3, <1>4, <1>5, <1>6, <1>7, Zenon DEF Types, NothingHeld
<1>9. NothingLost'
  BY <1>3, <1>4, <1>7, SMT DEF NothingLost, Types, HostState
<1> QED BY <1>8, <1>9

\* What was taken is kept for the packet unless it is nothing.
LEMMA LoadDcdStep ==
  ASSUME BulkInv, LoadDcd
  PROVE  BulkInv'
<1> USE DEF BulkInv
<1>1. /\ data \in DataState /\ connected \in BOOLEAN
      /\ UNCHANGED <<connected, pending, host, env>>
      /\ \/ data.n = 0 /\ data' = [data EXCEPT !.pc = "wait"]
         \/ data' = [data EXCEPT !.pc = AfterLoad, !.dcd = connected, !.last_dcd = connected]
  BY Zenon DEF LoadDcd, Types
<1>a. AfterLoad \in {"status", "write"}
  BY Zenon DEF AfterLoad
<1>2. data' \in DataState
  BY <1>1, <1>a, Zenon DEF DataState
<1>3. data'.n = data.n /\ (data'.pc = "wait" => data.n = 0)
  <2>1. ASSUME NEW b \in BOOLEAN, NEW p \in {"status", "write"},
               data' = [data EXCEPT !.pc = p, !.dcd = b, !.last_dcd = b]
        PROVE  data'.n = data.n /\ data'.pc = p
    BY <1>1, <2>1, Zenon DEF DataState
  <2>2. CASE data.n = 0 /\ data' = [data EXCEPT !.pc = "wait"]
    BY <1>1, <2>2, SMT DEF DataState
  <2>3. CASE data' = [data EXCEPT !.pc = AfterLoad, !.dcd = connected, !.last_dcd = connected]
    <3>1. data'.n = data.n /\ data'.pc = AfterLoad
      BY <1>1, <1>a, <2>1, <2>3, Zenon
    <3>2. data'.pc # "wait"
      BY <1>a, <3>1, SMT
    <3> QED BY <3>1, <3>2
  <2> QED BY <1>1, <2>2, <2>3, Zenon
<1>4. Types' /\ NothingHeld' /\ NothingLost'
  BY <1>1, <1>2, <1>3, Zenon DEF Types, NothingHeld, NothingLost
<1> QED BY <1>4

\* The line status is added to the packet.
LEMMA LoadStatusStep ==
  ASSUME BulkInv, LoadStatus
  PROVE  BulkInv'
<1> USE DEF BulkInv
<1>1. PICK e \in BOOLEAN : data' = [data EXCEPT !.pc = "write", !.empty = e]
  BY Zenon DEF LoadStatus
<1>2. data \in DataState /\ UNCHANGED <<connected, pending, host, env>>
  BY Zenon DEF LoadStatus, Types
<1>3. data' \in DataState
  BY <1>1, <1>2, Zenon DEF DataState
<1>4. data'.n = data.n /\ data'.pc = "write"
  BY <1>1, <1>2, Zenon DEF DataState
<1>5. data'.pc # "wait"
  BY <1>4, SMT
<1> QED BY <1>2, <1>3, <1>4, <1>5, Zenon DEF Types, NothingHeld, NothingLost

\* The packet arrives.
LEMMA WriteStep ==
  ASSUME BulkInv, WritePacket
  PROVE  BulkInv'
<1> USE DEF BulkInv
<1>1. PICK d, b, m : /\ host' = [host EXCEPT !.bytes = b, !.dcd = d, !.more = m]
                     /\ b = host.bytes + data.n /\ m = MoreRead
                     /\ d = IF model \in InBand THEN DcdOf(data.dcd) ELSE host.dcd
  BY Zenon DEF WritePacket
<1>2. /\ data \in DataState /\ host \in HostState
      /\ data' = [data EXCEPT !.pc = "wait", !.n = 0]
      /\ UNCHANGED <<connected, pending, env>>
  BY Zenon DEF WritePacket, Types
<1>m. m \in {"unknown", "yes", "no"}
  <2>1. host.more \in {"unknown", "yes", "no"}
    BY <1>2, Zenon DEF HostState
  <2> QED BY <1>1, <2>1, Zenon DEF MoreRead, MoreOf
<1>3. b \in Nat /\ d \in {"unknown", "up", "down"} /\ 0 \in Nat
  <2>1. host.bytes \in Nat /\ data.n \in Nat /\ host.dcd \in {"unknown", "up", "down"}
    BY <1>2, Zenon DEF HostState, DataState
  <2>2. b \in Nat /\ 0 \in Nat
    BY <1>1, <2>1, SMT
  <2>3. DcdOf(data.dcd) \in {"unknown", "up", "down"}
    BY Zenon DEF DcdOf
  <2> QED BY <1>1, <2>1, <2>2, <2>3, Zenon
<1>4. host' \in HostState /\ data' \in DataState
  BY <1>2, <1>1, <1>m, <1>3, Zenon DEF HostState, DataState
<1>5. host'.bytes = host.bytes + data.n /\ data'.n = 0
  BY <1>1, <1>2, SMT DEF HostState, DataState
<1>6. Types' /\ NothingHeld'
  BY <1>2, <1>4, <1>5, Zenon DEF Types, NothingHeld
<1>7. NothingLost'
  BY <1>2, <1>5, SMT DEF NothingLost, Types, HostState, DataState
<1> QED BY <1>6, <1>7

\* The interrupt IN thread tells of the carrier and of the buffer only.
LEMMA IntrStep ==
  ASSUME BulkInv, IntrThread
  PROVE  BulkInv'
<1> USE DEF BulkInv
<1>1. /\ host \in HostState /\ UNCHANGED <<connected, pending, data, env>>
      /\ \/ UNCHANGED host
         \/ host' = [host EXCEPT !.dcd = DcdOf(intr.dcd),
               !.more = IF model = "OnlineStation" THEN MoreOf(intr.more) ELSE host.more]
  BY Zenon DEF IntrThread, IntrStatus, IntrLoad, IntrWrite, Types
<1>2. CASE UNCHANGED host
  BY <1>1, <1>2, Zenon DEF Types, NothingHeld, NothingLost
<1>3. CASE host' = [host EXCEPT !.dcd = DcdOf(intr.dcd),
             !.more = IF model = "OnlineStation" THEN MoreOf(intr.more) ELSE host.more]
  <2>1. PICK d, m : /\ host' = [host EXCEPT !.dcd = d, !.more = m] /\ d = DcdOf(intr.dcd)
                    /\ m = IF model = "OnlineStation" THEN MoreOf(intr.more) ELSE host.more
    BY <1>3, Zenon
  <2>2. d \in {"unknown", "up", "down"} /\ m \in {"unknown", "yes", "no"}
    <3>1. host.more \in {"unknown", "yes", "no"}
      BY <1>1, Zenon DEF HostState
    <3> QED BY <2>1, <3>1, Zenon DEF DcdOf, MoreOf
  <2>3. host' \in HostState /\ host'.bytes = host.bytes
    BY <1>1, <2>1, <2>2, Zenon DEF HostState
  <2> QED BY <1>1, <2>3, Zenon DEF Types, NothingHeld, NothingLost
<1> QED BY <1>1, <1>2, <1>3

\* Every step keeps the invariant.
LEMMA NextPreserves == BulkInv /\ [Next]_vars => BulkInv'
<1> SUFFICES ASSUME BulkInv, [Next]_vars PROVE BulkInv'
  OBVIOUS
<1>1. CASE UNCHANGED vars
  BY <1>1, Zenon DEF vars, BulkInv, Types, NothingHeld, NothingLost
<1> QED BY <1>1, EnqueueStep, CarrierStep, DequeueStep, LoadDcdStep, LoadStatusStep,
           WriteStep, IntrStep, Zenon DEF Next, BulkInThread

-----------------------------------------------------------------------------
(* The theorem.                                                            *)

\* Every byte that was enqueued is in the buffer, in the packet that is being
\* sent or with the host.
THEOREM NoByteLost == Spec => []NothingLost
<1>1. BulkInv => NothingLost
  BY DEF BulkInv
<1> QED BY <1>1, InitEstablishes, NextPreserves, PTL DEF Spec

=============================================================================
