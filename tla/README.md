# Verification of me56ps2-emulator

The program emulates a USB modem on a Linux board with the raw-gadget driver.
A game (the *host*) sends AT commands and payload over USB; the emulator carries
the call over a TCP connection to another player, or over a pseudo-terminal to
a program on the same machine (`pppd`, `minicom`, `socat`).

This directory holds TLA+ modules translated from the code in `src/src/`, TLC
configurations that check them on small instances, and TLAPS proofs of their
invariants for instances of any size. `PROJECT.json` ties each definition to its source lines, lists the runs
with their mutants, and the hazards the properties are for.

    tlc -config client.cfg MCCallSession.tla      # a run
    tlapm CallSessionProofs.tla                   # the proofs of a module

## 1. The system

### Components, their state and operations

| component | state | operations | hard because |
|---|---|---|---|
| shared context (`app_context.h`, `main_app.cpp` 19-42) | `ctx.connected`, the *carrier* (atomic); `ctx.usb_tx_buffer` | `ring_callback`, `recv_callback` | the carrier is tested in one step and the payload enqueued in another |
| TCP link (`tcp_sock`) | the address; `comm_fd` (atomic, 0 = no link), `recv_thread_ptr` (plain pointer) | constructor, `set_addr`, `connect`, `disconnect`, `send`, `recv_thread`, `listen_thread` | three threads publish and retract the same two variables; descriptor numbers are reused |
| pseudo-terminal (`pty_dev`) | `master_fd`, `recv_thread_ptr` | the same, over `posix_openpt` | EIO when the slave is closed |
| command interpreter (`modem.cpp`) | `echo`, the command line | `process_at`, `process_at_ext`, `handle_disconnect` | dialling runs on the bulk OUT thread, the hang-up on another |
| dial strings (`modem.cpp` 11-49, 93-101) | none | `isPPPNumber`, `parse_address` | `sscanf` wraps, a number that does not parse leaves the address alone |
| registry and start-up (`modem.cpp` 51-76, `main_app.cpp` 125-218) | the modem in use, the options | `Modem::getInstance`, `main` | the listen thread runs before the callbacks are set |
| bulk OUT thread, one per modem | `buffer` | unpack a transfer, off-line loop (commands), on-line loop (payload) | the buffer outlives the change of mode; a header is a `char` |
| bulk IN and interrupt IN threads | `last_dcd` | dequeue, report the carrier and the line status, `ep_write` | carrier and buffer are polled, each at a moment of its own |
| transmit buffer (`ring_buffer.h`) | array, two indices, mutex, condition variable | `enqueue`, `dequeue`, `wait`, `notify_one` | two kinds of waiter on one condition variable |
| control loop (`main_app.cpp` 44-123, each modem) | endpoint 0, the thread pointers | answer requests, start threads, hang up on DTR low; ignore the events of the bus | a request is acknowledged before it is looked at; the bus may be reset in the middle of one |
| raw gadget wrapper | a file descriptor | `ioctl()`s that throw | nobody catches |
| `isp.h` (internet access) | none | shell commands after the PPP link is up | their results are ignored |
| descriptors, decoding of events for the log, idle threads of SmartSCM | none | | |

### Threads

| thread | code | in the models |
|---|---|---|
| main: start-up | `main` | `main` of `StartUp` |
| main: events of endpoint 0, `handle_disconnect` | `event_usb_control_loop` | `main` of `UsbControl`, `hang` of `LinkDevice` |
| ep1 of SmartSCM: `handle_disconnect` | `control_out_thread` | `ep1` of `UsbControl`, `hang` of `LinkDevice` |
| bulk OUT: commands and payload | `bulk_out_thread`, `data_out_thread` | `out` of `LinkDevice`/`CallSession`, `pc` of `BulkOut` |
| bulk IN, interrupt IN | `bulk_in_thread`, `intr_in_thread` | `wait` of `RingBuffer`, `data`/`intr` of `BulkIn` |
| one receive thread per link | `recv_thread` | `rcv[c]` of `LinkDevice` |
| listen thread in server mode | `listen_thread` | `lsn` of `TcpSock`, in coarse form of `StartUp` |

`CallSession` has a single hanging-up thread. `UsbControl` discharges that
assumption (`OneHangUp`, proved): only SmartSCM hangs up outside the main thread, and it
never does so on the main thread as well.

### What makes the components correct

- *Links.* A descriptor is closed once; nothing open is lost track of; the
  hang-up finishes, because the receive thread of a dead link ends. The code keeps
  the last two only as long as no call is set up under a hang-up: a caller taken in
  then may be lost track of, or keep the old thread, and the hang-up that joins it,
  waiting (section 3, *Exceptions*).
- *Session.* CONNECT before the carrier, one result code per command, a carrier
  has its link, payload in both directions stays within its call.
- *Dialling.* 100 (and 168) go to the pseudo-terminal, any other call where its
  number says, or the last one before it that said anything; a callback is set before it is called once the program serves.
- *Buffer.* An atomic bounded FIFO; whatever is in it gets out.
- *Bulk OUT.* However the host splits what it writes, and whenever the carrier changes,
  each byte goes once, in order, to the interpreter or to the link; nothing that could
  be worked off waits.
- *Host side.* No byte lost; the carrier and the line status the host sees settle
  on the truth.
- *Endpoint 0.* Each request is answered once and as it deserves; no call is made that
  the gadget has to refuse; no lowering of DTR is missed or acted upon twice.

## 2. The modules

    AppContext ── LinkDevice ──┬── TcpSock ──┐
                               └── PtyDev ───┴── CallSession ── MCCallSession
                                                   │   └ CallSessionProofs ── HangUpProofs ── PayloadProofs
                                     HostView <────┘  (refinement)
    DialString ── StartUp ── Dialling ── MCDialling
                                └ DiallingProofs
    RingBuffer ── MCRingBuffer        BulkIn ── BulkInProofs
        │   └ RingBufferProofs        BulkOut ── MCBulkOut
        └──> BoundedFifo                 └ BulkOutProofs
             (refinement)             UsbControl ── UsbControlProofs

- **AppContext**: `connected` and `tx`. `tx` is the transmit buffer seen from its
  far end, every piece ever enqueued in order; that the real buffer is first-in
  first-out is `RingBuffer`'s matter. Text and payload bytes are left out, a piece
  knows its result code, or its connection and its place in the stream.
- **LinkDevice**: what `tcp_sock` and `pty_dev` have line for line in common:
  `disconnect()`, `send()`, `recv_thread()`, the end of `connect()`. A step is what
  happens between two accesses to shared state. The part of the kernel it needs is
  modelled as well: a descriptor table that hands out the lowest free number,
  `select()` and `recv()` that look the number up each time and hold the file
  while they wait, far ends that send and close.
- **TcpSock**, **PtyDev**: how each link is set up; `listen_thread()`; the program
  at the slave.
- **CallSession**: the bulk OUT thread (`process_at()` and the two loops), the
  beginning of `handle_disconnect()`, the host, and the composition of everything.
- **HostView**: the abstract modem, as the game sees it: a command interpreter
  with a carrier. `CallSession` implements it with `phase <- HostPhase`.
- **RingBuffer** / **BoundedFifo**: the buffer byte by byte under its mutex, and
  the atomic queue it implements. An `enqueue()` takes effect when it gives up
  the mutex; `Queue` hides the bytes of a call in progress and gives back those a
  `dequeue()` in progress has taken.
- **DialString**: `isPPPNumber()` and `parse_address()` as operators. A number is
  what `sscanf()` and `find()` see of it: mark, groups of digits, port, tail.
- **StartUp**: `main()` up to the event loop, option by option, with the registry
  (which instance `-m` leaves in use) and, in server mode, the listen thread beside
  it; a call through a pointer that was not set is the end of the process.
- **Dialling**: the address in `tcp_sock` from one dial string to the next. It
  complements `CallSession`, which leaves the address out.
- **BulkOut**: the four modems' bulk OUT threads byte by byte: Omron's header, read as
  a `char` of either sign, Lucent's NULs, lines and payload split over transfers. It
  complements `CallSession`, whose transfers are whole lines; of `process_at()`
  and `handle_disconnect()` it keeps that the one may raise the carrier, or die of a
  bare `ATD` where there is a socket, and the other drops it.
- **BulkIn**: the four modems' threads towards the host, the buffer being a number
  of bytes.
- **UsbControl**: the event loop on endpoint 0 with requests and bus events,
  SET_CONFIGURATION with its endpoints and threads, OnlineStation's table of rates,
  and SmartSCM's endpoint 1 with packets that may be cut short. A bus event may come in
  the middle of a request, which the host may then have given up. Every call on the
  gadget may fail, and a failure is not caught: `died` is "misuse" if the call did not
  fit the state of the gadget (a transfer or stall of a request that is not there, an
  endpoint enabled twice) and "ioctl" if the kernel failed one that did, among them
  the `event_fetch()`, `ep_read()` and `ep_write()` that wait for the host (`WaitFails`).

Steps that were merged. `is_connected()` and the load that follows it in
`disconnect()` and `send()` are one step: the value can only change in between
through the collisions the model has anyway. The null check of `recv_thread_ptr`
and `joinable()` are one step; `delete` reads the pointer again, as the code
does. `RecvLookup` is the descriptor lookup of `recv()`/`read()`, `RecvData` and
`RecvEnd` what it returns.

History variables. `collided` becomes true when a hang-up and a link set-up, or
two set-ups, overlapped. Most session properties are stated for behaviours
without a collision, because the code has no mutex there and a collision is able
to break them; those that survive collisions (`NoDoubleClose`,
`ConnectAnnounced`, `HostPromise`) carry no such condition, and
`TerminateNeedsCollision` says that the worst case, `std::terminate()`, needs one.
`refused` of `UsbControl` (an OUT request was transferred before it was found to be
unsupported) and `early` of `BulkIn` are of the same kind; `log` of `Dialling` is
which number was connected to which address. In `BulkOut`, `received` is the payload of
all transfers, `taken` each byte that left the buffer with what became of it,
`env.raised` how many there were when the carrier rose last, and `env.fell` that it
dropped between the two loops since a transfer came.

## 3. The runs

| run | module | asks |
|---|---|---|
| `client` | MCCallSession | a player that dials out (TCP and PPP), one hang-up, payload both ways: CONNECT, carrier, links and payload stay in step, the hang-up ends, the far end is heard |
| `server` | MCCallSession | two callers, ATA, one hang-up: carrier, links and payload stay in step |
| `hasty` | MCCallSession | a host that hangs up at any moment while dialling and a caller overlap and `accept()` may fail: no descriptor is closed twice; a descriptor or a thread is lost, and `std::terminate()` called for a running one, only through a collision. The process has other ends, which are no collisions: a bare `ATD` and a failing `accept()` |
| `commands` | MCCallSession | no address given, impatient host, every kind of command line, several per transfer: refines `HostView`, nothing leaks |
| `server_live` | MCCallSession | the hang-up of an answered call ends, or waits for a caller taken in under it |
| `ring` | MCRingBuffer | refines `BoundedFifo`; the buffer drains |
| `bulk_in` | BulkIn | no byte lost; carrier and line status settle, for four modems |
| `bulk_out` | MCBulkOut | no byte the host writes is lost or misdirected, no whole command waits, which headers and which line end the process, the loops end |
| `usb_control` | UsbControl | endpoint 0 stays in step through refused requests, bus events between and during requests, reconfigurations, failing calls and rates outside the table; hang-ups are neither missed nor doubled |
| `dialling` | MCDialling | the modem and the address that eight command lines lead to, callers during start-up, and where three numbers of every kind are connected to |
| `ppp_mixed`, `pty_reopen` | MCCallSession | expected violations: what the README of the program says and the code does not do |

**Bounds.** `MaxConn` (2 or 3) is both the number of connections and of free
descriptor numbers; it must be at least the successful dials plus the callers of
a run, and two are enough for a number to be reused by the next call, for glare
and for a hang-up that overlaps the next set-up. A connection that failed is
forgotten and its number serves again, so the number of refused dials is bounded
by `MaxPackets` only. `MaxSend` = 2 lets a piece be lost or reordered behind
another. `MaxHooks` = 1 or 2: the second meets what the first left behind.
`ring` has 3 usable cells, calls of 3 bytes and packets of 2: it wraps,
overflows, cuts a call and takes a call in two packets. `bulk_in` has four
carrier changes: down-up-down-up with a stale read in between. `bulk_out` has
three transfers out of eleven and two hang-ups: a line split over two transfers with a
third behind it, lines before and behind the one that connects, an empty transfer,
headers that say less and more than came or that are negative, NULs in front of a line
and inside one, a bare `ATD` in one transfer, in two, and behind what another left;
all four modems and both signs of `char` are initial states.
`usb_control`
has three requests, two SmartSCM packets and one event of the bus: configuration,
reset and configuration again, or a refused request with the next one behind it.
`dialling` has `MaxDials` = 3: a number that sets the address, one that does not,
and a third of any kind; two callers, one before and one after the callbacks are
set. `UInt` = 2^20 and `ULong` = 2^22 stand for 2^32 and 2^64: what matters is that
ports and groups (below 2^17) are far below and that the longer type is the wider
one, and the theorems do not depend on the width.

**Exceptions.** What the code does when a hang-up, a dialled call and a caller overlap
is in every model, but `CarrierHasLink`, `NothingLeaks`, `PayloadWithinCall` and
`TerminateNeedsCollision` are stated for behaviours in which it has not happened
(`collided`), because there the code can break them. `HangUpEnds` has one exception of its own, `TakenOver`:
`disconnect()` has closed the descriptor and stored 0, a caller is taken in on the same
number, and the old receive thread looks at `comm_fd` only then. It finds a link, goes
on with the new caller, and `join()` waits until he rings off. A thread
that was so late that it read 0 itself waits at standard input, and `join()` for good.
(The same goes for a thread that is inside `recv()` of the new caller's file, having
looked the number up after it was handed out again.) Everywhere else, collisions included, the hang-up is shown to end.

`Patient` describes the host: a patient one sends commands off-line, payload
on-line and goes on-hook only when no command of its own waits for an answer. A
real host may be impatient, `hasty` and `commands` have one.

**Fairness.** Threads that can run do run (weak fairness per thread). `connect()`,
`write()` and the shell commands of `setupISP()` are assumed to return. Nothing is
assumed of the host, callers or far ends in the session runs, and no call has to fail. `ring` needs
strong fairness of the reader (it is not kept from a mutex that is free again and
again) and that a thread inside a critical section leaves it. `bulk_in` assumes
that the host polls its endpoints: that is what `ep_write()` waits for. `bulk_out`
assumes that the thread runs, `process_at()` and `send()` return, and nothing of the
host, which hangs up a bounded number of times.
`SlaveReopens` is FALSE where the end of the hang-up is checked (`client`,
`server_live`): a slave that is opened again between `select()` and `read()` makes
`read()`, and the `join()` behind it, wait for the program at the slave. It is TRUE in
`commands` and `pty_reopen`, and the theorems hold for either.

An invariant is checked where its case can go wrong, not in every run of the session:
all of them are theorems for every value of the constants (section 5).

Deadlock is checked in every run. The model's threads all waiting for someone
outside is `WaitForOutside`, a stuttering step with a guard; every other state
without a step is an error.

## 4. What the code does not do

- `ppp_mixed`: in server mode a caller is accepted during a PPP call, and RING and
  his payload are mixed into the PPP stream; the program's README says that
  `ATD100` uses the pseudo-terminal and any other address TCP.
- `pty_reopen`: after the first program at the slave left, a second is not heard,
  although the README says any program can connect: the receive thread has ended.

Documented only as hazards, because no text of the repository says otherwise: the
carrier that stays up over a link a hang-up removed (`collided`), a hang-up that waits
for a caller taken in under it (`TakenOver`), a bare `ATD` that ends the process where
there is a socket (`DiesOnlyOfInput`), an unsupported OUT request that ends it
(`CallsFitGadget`). `isPPPNumber()` has a second number, 168 (`modem.cpp` 96), which goes
to the pseudo-terminal although the program's README says that any address other than
`ATD100` uses the TCP socket; `CallsAsDialled` names both numbers.
In server mode `send()` may give payload to the next caller, whose connection got
the number `send()` had loaded; `PayloadToItsCall` is therefore checked for a
player that dials. A number without T or P in front loses its first digit
(`line.substr(4)`), and `ATD10-0-0-1` is dialled as 0-0-0-1.

## 5. What is proved

Assumptions are the named ASSUMEs of the modules: the constants have their types
(and `IsServer => HasSock`); no bound is assumed small.

- `CallSessionProofs!TypeCorrect`: `Spec => []TypeOK`. The type alone is not
  inductive: the `reply` step sends `out.reply`, which has to be a result code, not
  "none". `ReplyKnown` says so, and `TypesAndReply` is the inductive invariant. The
  proof has one lemma per thread, one case per action.
- `CallSessionProofs!KeepsPromise`: `Spec => HostPromise`, the refinement of
  `HostView`. Every step of `CallSession` is mapped to a step of `HostView` or
  to a stutter: `TakeLine` to `Take`, `AtReply` and `AtExt` to `Refuse` or
  `Announce`, `AtRaise` to `Raise`, `OnHook` to `Drop`, whatever else writes `tx`
  to `Other`.
- `CallSessionProofs!CarrierAnnounced`: `Spec => []ConnectAnnounced`. The inductive
  invariant adds that the announcement also stands in phase "announced", and that
  while the carrier is up nothing is executing: then only rings and payload come
  behind CONNECT.
- `RingBufferProofs!RingTypeCorrect`, `RingExcludes`, `ReadyHasData`: `Spec => []TypeOK`,
  `[]MutualExclusion`, `[]ReadyMeansData`, for every `buffer_size >= 2`, every packet
  size and any set of producers and watchers. One inductive invariant, `Safe`, gives
  all three. It adds `Filled`, the cells between the indices hold bytes (or
  `dequeue_single` could take a cell nobody wrote), and `Calling`, a producer that
  has left "idle" has begun a call (or the byte it writes has no call number).
  Exclusion is what keeps `ReadyMeansData`: nobody but the reader moves the read index.
- `RingBufferProofs!RingIsFifo`: `Spec => FifoPromise`, the refinement of `BoundedFifo`, with
  the same generality. `Copied` is the strengthening: while a producer is inside
  `enqueue()`, what the array holds is what it held before the call followed by the
  first `ptr` bytes of the call. With `Taking`, what `dequeue()` has taken stays
  inside the call, every step is `Put`, `Take` or a stutter: `EnqueueUnlock` is `Put`
  (either all of the call was copied, or the array is full and `ptr` is exactly the
  room there was), `DequeueUnlock` is `Take`. The lemmas `AppendContents` and
  `TailContents` do the arithmetic of the wrapping indices.

- `HangUpProofs!ClosedOnce`: `Spec => []NoDoubleClose`, with no condition on
  collisions. Five owners can hold a descriptor: the two link variables, the
  dialling thread, the listen thread and the hang-up. `OneOwner` says that what one
  holds is open and no other holds it, `Named` that a thread that sets a link up
  knows which connection its descriptor is, and that a hang-up closes an open one.
- `HangUpProofs!TerminatesOnlyByCollision`: `Spec => []TerminateNeedsCollision`. Without
  a collision (`Undisturbed`) nobody stores a pointer to a receive thread under a
  hang-up, so what is deleted is what was joined.
- `HangUpProofs!NoneLost`: `Spec => []NothingLeaks`. `Tracked` describes who answers for
  each open descriptor and each unjoined thread, at every step of a hang-up
  (`HangUpTracked`) and of a set-up that has published its descriptor but not yet its
  thread (`HalfTracked`). The two parties that set up links, dialling and listening,
  take the same few moves (opens, closes, publishes, spawns, points, goes), so each
  move is proved once.
- `HangUpProofs!CarrierCarries`: `Spec => []CarrierHasLink`. `Carried` adds that the
  descriptor of a link is that of a connection of its kind (`LinkFiles`), that
  nothing goes up under a hang-up, and that what is about to go up has a link.
- `PayloadProofs!HostHearsItsCall`: `OnePartyAtATime` implies
  `Spec => []PayloadWithinCall`. It is built on two layers. `Threads`, proved without a
  collision for any session, follows each receive thread: its copy of the descriptor is
  the one of its link, and the file it waits on its own connection, until a hang-up
  retracts or closes it (`Copied`, `OwnFile`); the piece it has in hand is the last that
  was read, and is on the way to the host only in a call or in the hang-up that
  ends it (`Counted`). `RecvMoves` and `HangUpMoves` reduce the threads' actions to the few moves
  these parts tell apart. On top, `Payload` speaks of the stream: every piece is behind
  the CONNECT of its call (`WithinCalls`), during a call the next piece of the running
  thread follows the last one in the stream, and without a carrier a thread that still
  runs has delivered none.
  The hypothesis `OnePartyAtATime` is about the host of a *server*: it never dials the
  PPP service. It is needed, `ppp_mixed` is the counterexample without it; a player that
  dials is under no such restriction, and the `server` run's host keeps to it.
- `PayloadProofs!CallHearsItsHost`: `~IsServer` implies `Spec => []PayloadToItsCall`. The
  number `send()` has loaded may be closed under it by a hang-up, but only the bulk OUT
  thread itself could open another connection under that number (`SentToCall`). In
  server mode the listen thread can, and the property is false (section 4).
- `DiallingProofs!TypeCorrect`, `CallbacksSet`, `CallsGoAsDialled`: the three invariants of
  `Dialling` for every set of command lines and numbers and every width of the
  integers that leaves room for ports and groups (`WidthAssumption`). `CallbackInv` says what `main()` has set at each of its steps;
  `AddressInv`, that the address in `tcp_sock` is the one the numbers in the log
  leave behind, the command line's if none of them parsed. `CallsAsDialled` covers
  numbers without T or P, as `substr(4)` leaves them; of the address it speaks as long
  as no number was dialled that wraps in `sscanf()`, which takes ten digits or more.
- `DiallingProofs!StartsAsAsked`: `Spec => []StartedAsAsked`, for every list of options.
  `StartedInv` says of the options worked off so far (`WorkedOff`) what the loop has made of
  them: the registry's instance is that of the last `-m` among them, `is_server` is
  whether `-s` was. `LastIsAsked` ties that to the definition of `Asked` when none is
  left; the steps after it keep the modem and make exactly the links asked for.
- `UsbControlProofs!AnswersInStep`, `CallsAreInOrder`, `AnswersAsSupported`,
  `HangsUpAlone`: the four invariants of `UsbControl`, from one inductive invariant,
  `UsbInv`: at each step the main thread knows of its request what the branches
  behind it established (`Knows`), SmartSCM alone runs a second hang-up (`HangingUp`),
  and what waits on endpoint 0 is the host's own request (`HostsOwn`), given up or not.
- `BulkInProofs!NoByteLost`: `Spec => []NothingLost`, for every size of a packet. The
  strengthening is `NothingHeld`: a thread that waits holds no byte, or forgetting a
  packet without payload would lose some.
- `BulkOutProofs!StreamIsKept`, `PayloadFollowsConnect`, `WaitsWithNothing`,
  `DiesOfInput`: the four invariants of `BulkOut`, for every set of transfers of any
  length. One inductive invariant, `BulkOutInv`. `Kept` is the order of the bytes;
  `Labelled`, that a line was taken as a whole, so that a NUL is only ever dropped in
  front of one; `BehindConnect` follows the carrier: while a line is in `process_at()`
  its newline is the last byte taken, and since the carrier rose nothing but payload
  was; `LinesTaken` says what the off-line loop left, `LineTaken` that
  the line in `process_at()` is the one that was taken last. The lemmas `TakeKeeps` and
  `TakeLabels` cover the three actions that take bytes out of the buffer at once, and
  `UnpackFacts` says that what does not throw is what the header says, as far as it came.

Model-checked only: everything under fairness (`HangUpEnds`, `PlayerHeard`, `Drained`,
`HostSettles`, `StatusSettles`, `NoDropMissed`, `RequestAnswered`, `ReadsAgain`), which
TLAPS cannot prove; and the two expected violations. Every invariant of a passing run is a theorem,
and so are the two refinements.

## 6. Not modelled

- Overflow of the transmit buffer in `CallSession` (it is in `RingBuffer`).
- The layout of packets towards the host: `BulkIn` counts their bytes. In `CallSession` a
  transfer is the tokens it holds; how one is unpacked is `BulkOut`'s matter.
- `ep_read()` and `ep_write()` failing on a bus that goes away, in the modules of the
  data threads: `UsbControl` has it for all threads (`WaitFails`), and it ends the
  process in any state. Likewise `accept()` fails in `CallSession`, not in `StartUp`.
- Bulk data the host sends before its endpoint is enabled: the gadget makes it wait.
- Standard input when a receive thread selects descriptor 0: it is quiet, and the
  thread ends with the 100 ms limit.
- `socket()`, `bind()` and `listen()` failing, a `send()` that blocks or is cut short,
  the destructors of the links, which `main()` never reaches.
- The contents of USB descriptors and the settings of the serial line, constant or
  only printed; the decoding of events for the log.
- The signals that end `main()`, the verbose level, the usage text and the arguments
  `[usb_driver] [usb_device]` it names.

## 7. Plan

Done: links, session, dialling, start-up, buffer, both directions of the host side,
control loop; the
refinements of `HostView` and `BoundedFifo`; every safety invariant of the passing runs
proved.

Left, in this order:

1. The overflow of the buffer in the session: a result code that is cut.
2. For a server, the weaker promise that holds of `send()`: payload goes to the call it
   belongs to or to one that came up during the hang-up that ended it.
