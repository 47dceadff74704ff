------------------------------ MODULE UsbControl ------------------------------
(***************************************************************************)
(* The main thread: it fetches the events of the USB gadget, answers the   *)
(* control requests on endpoint 0, starts the threads of the modem when    *)
(* the host selects a configuration, and hangs up when the host lowers     *)
(* DTR.  SmartSCM takes that last request on an endpoint of its own, with  *)
(* a thread of its own.                                                    *)
(*                                                                         *)
(* The kernel's raw gadget is seen from its calls: an event queue, and on  *)
(* endpoint 0 at most one request that waits to be transferred or stalled. *)
(* The host may send the next request as soon as that was done, while the  *)
(* main thread still works on the one before, and it may reset the bus or  *)
(* go away at any time, in the middle of a request too.  A call that does  *)
(* not fit fails, and any other may: the wrapper throws, and nobody        *)
(* catches it.                                                             *)
(*                                                                         *)
(* Descriptors and the settings of the serial line are left out, except    *)
(* for OnlineStation's table of rates.  The threads are here as what is    *)
(* started: those for data are modelled in CallSession and BulkIn, and the *)
(* three of SmartSCM that read and write nothing have no state.            *)
(***************************************************************************)
EXTENDS Integers, Sequences, FiniteSets

CONSTANTS MaxRequests, MaxResets, MaxPackets

ASSUME UsbAssumption == MaxRequests \in Nat /\ MaxResets \in Nat /\ MaxPackets \in Nat

Models == {"Lucent", "Omron", "OnlineStation", "SmartSCM"}

\* The endpoints a modem enables, in the order of its
\* handle_set_configuration(), each with a thread.
Endpoints(m) ==
  CASE m = "Lucent"        -> <<"intr_in", "bulk_out", "bulk_in">>
    [] m = "Omron"         -> <<"bulk_in", "bulk_out">>
    [] m = "OnlineStation" -> <<"bulk_in", "bulk_out", "intr_in">>
    [] m = "SmartSCM"      -> <<"control_out", "control_in", "bulk_out", "bulk_in",
                                "gpio_out", "gpio_in">>

\* arg: the configuration, the descriptor, an index in or behind OnlineStation's
\* table of rates, or the level of DTR ("masked" when the request leaves it
\* alone; only Omron's can).
Request(type, name, dir, args) ==
  {[type |-> type, name |-> name, dir |-> dir, arg |-> a] : a \in args}
Requests ==
  UNION {Request("standard", "GET_DESCRIPTOR", "in", {"known", "other"}),
         Request("standard", "SET_CONFIGURATION", "out", {1, 2}),
         Request("standard", "SET_INTERFACE", "out", {0}),
         Request("standard", "CLEAR_FEATURE", "out", {0}),
         Request("class", "line_state", "out", {"low", "high"}),
         Request("vendor", "line_state", "out", {"low", "high", "masked"}),
         Request("vendor", "rate", "out", {"listed", "unlisted"}),
         Request("vendor", "query", "in", {0})}
NoRequest == [type |-> "none", name |-> "none", dir |-> "none", arg |-> 0]
\* Connect, reset, suspend, resume, disconnect.
BusEvent == [NoRequest EXCEPT !.type = "bus"]

VARIABLES
  model,             \* ctx.current_modem
  queue,             \* events the gadget holds: requests and bus events
  ep0,               \* the direction of the request that waits, or "none"
  main,              \* the main thread: pc, the request it works on, the
                     \* endpoints it has still to look at
  threads,           \* endpoints that were enabled and have their thread
  ep1,               \* SmartSCM's control_out_thread: pc, commands to decode
  host,              \* the request under way and its outcome, bounds used up,
                     \* how often DTR was lowered, and commands were cut
  drops,             \* how often handle_disconnect() got to its end
  refused,           \* history: an OUT request was not supported
  died               \* the exception that terminated the process, or "no"

vars == <<model, queue, ep0, main, threads, ep1, host, drops, refused, died>>

Init ==
  /\ model \in Models
  /\ queue = <<>> /\ ep0 = "none" /\ threads = {}
  /\ main = [pc |-> "fetch", req |-> NoRequest, todo |-> <<>>]
  /\ ep1 = [pc |-> "read", cmds |-> <<>>]
  /\ host = [req |-> NoRequest, outcome |-> "none", requests |-> 0,
             resets |-> 0, packets |-> 0, lows |-> 0, cuts |-> 0]
  /\ drops = 0 /\ refused = FALSE /\ died = "no"

-----------------------------------------------------------------------------
(* What a modem makes of a request.                                        *)

\* process_control_packet() and the handle_control_request() of each modem.
Supports(m, r) ==
  CASE r.type = "standard" -> \/ r.name \in {"SET_CONFIGURATION", "SET_INTERFACE"}
                              \/ r.name = "GET_DESCRIPTOR" /\ r.arg = "known"
    [] r.type = "class"    -> m \in {"Lucent", "SmartSCM"}
    [] r.type = "vendor"   -> m \in {"Omron", "OnlineStation", "SmartSCM"}

\* Mutant: SmartSCM takes the line state on endpoint 0 as well.
LowersDtrEverywhere(m, r) == r.name = "line_state" /\ r.arg = "low"

\* The modem hangs up: Lucent for a class request, Omron and OnlineStation
\* for one of their own.  To OnlineStation a "masked" one is a low one.
LowersDtr(m, r) ==
  /\ r.name = "line_state"
  /\ CASE m = "Lucent"        -> r.type = "class" /\ r.arg = "low"
       [] m = "Omron"         -> r.type = "vendor" /\ r.arg = "low"
       [] m = "OnlineStation" -> r.type = "vendor" /\ r.arg # "high"
       [] m = "SmartSCM"      -> FALSE

-----------------------------------------------------------------------------
(* The host and the gadget.                                                *)

\* A request is sent when the one before was answered.
SendRequest(r) ==
  /\ host.requests < MaxRequests
  /\ host.outcome \in {"none", "done", "stalled"}
  /\ ep0 = "none"
  /\ queue' = Append(queue, r)
  /\ ep0' = r.dir
  /\ host' = [host EXCEPT !.req = r, !.outcome = "open", !.requests = @ + 1,
                          !.lows = IF LowersDtr(model, r) THEN @ + 1 ELSE @]
  /\ UNCHANGED <<model, main, threads, ep1, drops, refused, died>>

\* Something happens to the bus, between two requests or during one, which the
\* host may then have given up; the gadget still waits for its transfer.
BusChanges ==
  /\ host.resets < MaxResets
  /\ queue' = Append(queue, BusEvent)
  /\ \E outcome \in {host.outcome, IF host.outcome = "open" THEN "lost" ELSE host.outcome} :
       host' = [host EXCEPT !.resets = @ + 1, !.outcome = outcome]
  /\ UNCHANGED <<model, ep0, main, threads, ep1, drops, refused, died>>

Count(c, cmds) == Cardinality({i \in DOMAIN cmds : cmds[i] = c})

\* SmartSCM's endpoint 1: a packet of commands, "low" lowers DTR; of a "cut"
\* one, the last, only the first byte was sent.
SendEp1(cmds) ==
  /\ "control_out" \in threads /\ ep1.pc = "read"
  /\ host.packets < MaxPackets
  /\ ep1' = [pc |-> "decode", cmds |-> cmds]
  /\ host' = [host EXCEPT !.packets = @ + 1,
                          !.lows = @ + Count("low", cmds),
                          !.cuts = @ + Count("cut", cmds)]
  /\ UNCHANGED <<model, queue, ep0, main, threads, drops, refused, died>>

\* What a packet holds.
Packets == {<<"low">>, <<"other", "low">>, <<"low", "other", "low">>, <<"low", "cut">>}

HostStep ==
  \/ \E r \in Requests : SendRequest(r)
  \/ BusChanges
  \/ \E cmds \in Packets : SendEp1(cmds)

-----------------------------------------------------------------------------
(* event_usb_control_loop().                                               *)

\* An exception ends the process where it stands: "ioctl" when the kernel fails
\* a call that fits, "misuse" when the call does not, "rate" for an index that
\* is not in the table.
Throws(cause) ==
  /\ died' = cause
  /\ UNCHANGED <<model, queue, ep0, main, threads, ep1, host, drops, refused>>

\* Mutant: a request without data is not read.
EventFetchSkipsRead ==
  /\ main.pc = "fetch" /\ queue # <<>>
  /\ queue' = Tail(queue)
  /\ main' = IF Head(queue) = BusEvent THEN main
             ELSE [main EXCEPT !.req = Head(queue), !.pc = "process"]
  /\ UNCHANGED <<model, ep0, threads, ep1, host, drops, refused, died>>

\* event_fetch(); whatever is no request is ignored.
EventFetch ==
  /\ main.pc = "fetch" /\ queue # <<>>
  /\ \/ /\ queue' = Tail(queue)
        /\ main' = IF Head(queue) = BusEvent THEN main
                   ELSE [main EXCEPT !.req = Head(queue),
                                     !.pc = IF Head(queue).dir = "out" THEN "ep0_read" ELSE "process"]
        /\ UNCHANGED <<model, ep0, threads, ep1, host, drops, refused, died>>
     \/ Throws("ioctl")

\* The request on ep0 ends; one the host gave up ends without an outcome.
Ep0Ends(dirs, outcome) ==
  /\ ep0 \in dirs
  /\ ep0' = "none"
  /\ host' = [host EXCEPT !.outcome = IF @ = "lost" THEN "none" ELSE outcome]

\* To stall or transfer a request that is not there, or in the other direction,
\* is an error; to do what fits may fail as well.
Ep0Fails(dirs) == Throws(IF ep0 \in dirs THEN "ioctl" ELSE "misuse")

\* An OUT request is accepted before anyone looks at it.
Ep0Read ==
  /\ main.pc = "ep0_read"
  /\ \/ /\ Ep0Ends({"out"}, "done")
        /\ main' = [main EXCEPT !.pc = "process"]
        /\ UNCHANGED <<model, queue, threads, ep1, drops, refused, died>>
     \/ Ep0Fails({"out"})

\* Mutant: the answer is sent whether or not the request is supported.
HandledAlways(m, r) ==
  CASE r.name = "SET_CONFIGURATION" -> "configure"
    [] LowersDtr(m, r) -> "hang_up"
    [] m = "OnlineStation" /\ r.name = "rate" -> "rate"
    [] OTHER -> "answer"

\* Where a request leads.
Handled(m, r) ==
  IF ~Supports(m, r) THEN "stall"
  ELSE CASE r.name = "SET_CONFIGURATION" -> "configure"
         [] LowersDtr(m, r) -> "hang_up"
         [] m = "OnlineStation" /\ r.name = "rate" -> "rate"
         [] OTHER -> "answer"

\* Lucent has its endpoints in configuration 2.
ToEnable(m, r) == IF m = "Lucent" /\ r.arg # 2 THEN <<>> ELSE Endpoints(m)

\* process_control_packet().
ProcessControlPacket ==
  /\ main.pc = "process"
  /\ main' = [main EXCEPT !.pc = Handled(model, main.req),
                          !.todo = IF main.req.name = "SET_CONFIGURATION"
                                   THEN ToEnable(model, main.req) ELSE @]
  /\ refused' = (refused \/ (~Supports(model, main.req) /\ main.req.dir = "out"))
  /\ UNCHANGED <<model, queue, ep0, threads, ep1, host, drops, died>>

\* Mutant: the thread pointers are not looked at.
EnableEndpointAgain ==
  /\ main.pc = "configure" /\ main.todo # <<>>
  /\ \/ /\ Head(main.todo) \notin threads
        /\ threads' = threads \cup {Head(main.todo)}
        /\ main' = [main EXCEPT !.todo = Tail(@)]
        /\ UNCHANGED <<model, queue, ep0, ep1, host, drops, refused, died>>
     \/ Head(main.todo) \in threads /\ Throws("misuse")

\* ep_enable() and the thread, unless the thread is there.
EnableEndpoint ==
  /\ main.pc = "configure" /\ main.todo # <<>>
  /\ \/ /\ threads' = threads \cup {Head(main.todo)}
        /\ main' = [main EXCEPT !.todo = Tail(@)]
        /\ UNCHANGED <<model, queue, ep0, ep1, host, drops, refused, died>>
     \/ Head(main.todo) \notin threads /\ Throws("ioctl")

\* Modem::handle_set_configuration(): vbus_draw(), configure().
Configure ==
  /\ main.pc = "configure" /\ main.todo = <<>>
  /\ \/ /\ main' = [main EXCEPT !.pc = "answer"]
        /\ UNCHANGED <<model, queue, ep0, threads, ep1, host, drops, refused, died>>
     \/ Throws("ioctl")

\* handle_disconnect() returns.
MainHangsUp ==
  /\ main.pc = "hang_up"
  /\ drops' = drops + 1
  /\ main' = [main EXCEPT !.pc = "answer"]
  /\ UNCHANGED <<model, queue, ep0, threads, ep1, host, refused, died>>

\* rates[wValue] is printed, whatever wValue is: behind the table there may be
\* something to read or not.
ShowRate ==
  /\ main.pc = "rate"
  /\ \/ /\ main' = [main EXCEPT !.pc = "answer"]
        /\ UNCHANGED <<model, queue, ep0, threads, ep1, host, drops, refused, died>>
     \/ main.req.arg = "unlisted" /\ Throws("rate")

\* ep0_write() for an IN request; an OUT request was acknowledged before.
Answer ==
  /\ main.pc = "answer"
  /\ \/ /\ IF main.req.dir = "in" THEN Ep0Ends({"in"}, "done") ELSE UNCHANGED <<ep0, host>>
        /\ main' = [main EXCEPT !.pc = "fetch", !.req = NoRequest]
        /\ UNCHANGED <<model, queue, threads, ep1, drops, refused, died>>
     \/ main.req.dir = "in" /\ Ep0Fails({"in"})

\* Mutant: nothing is stalled.
Ep0StallSilent ==
  /\ main.pc = "stall"
  /\ main' = [main EXCEPT !.pc = "fetch", !.req = NoRequest]
  /\ UNCHANGED <<model, queue, ep0, host, threads, ep1, drops, refused, died>>

Ep0Stall ==
  /\ main.pc = "stall"
  /\ \/ /\ Ep0Ends({"in", "out"}, "stalled")
        /\ main' = [main EXCEPT !.pc = "fetch", !.req = NoRequest]
        /\ UNCHANGED <<model, queue, threads, ep1, drops, refused, died>>
     \/ Ep0Fails({"in", "out"})

MainThread ==
  \/ EventFetch
  \/ Ep0Read
  \/ ProcessControlPacket
  \/ EnableEndpoint
  \/ Configure
  \/ MainHangsUp
  \/ ShowRate
  \/ Answer
  \/ Ep0Stall

-----------------------------------------------------------------------------
(* control_out_thread() of SmartSCM.                                       *)

\* Mutant: one command of a packet is decoded.
ControlOutFirst ==
  /\ ep1.pc = "decode"
  /\ ep1' = [pc |-> IF ep1.cmds # <<>> /\ Head(ep1.cmds) = "low" THEN "hang_up" ELSE "read",
              cmds |-> <<>>]
  /\ UNCHANGED <<model, queue, ep0, main, threads, host, drops, refused, died>>

\* The packet is gone through in steps of three bytes.  What is missing of a
\* cut command is what an earlier packet left in its place.
ControlOut ==
  /\ ep1.pc = "decode"
  /\ IF ep1.cmds = <<>> THEN ep1' = [ep1 EXCEPT !.pc = "read"]
     ELSE \E cmd \in IF Head(ep1.cmds) = "cut" THEN {"low", "other"} ELSE {Head(ep1.cmds)} :
            ep1' = [pc |-> IF cmd = "low" THEN "hang_up" ELSE "decode",
                    cmds |-> Tail(ep1.cmds)]
  /\ UNCHANGED <<model, queue, ep0, main, threads, host, drops, refused, died>>

Ep1HangsUp ==
  /\ ep1.pc = "hang_up"
  /\ drops' = drops + 1
  /\ ep1' = [ep1 EXCEPT !.pc = "decode"]
  /\ UNCHANGED <<model, queue, ep0, main, threads, host, refused, died>>

Ep1Thread == ControlOut \/ Ep1HangsUp

-----------------------------------------------------------------------------
(* The specification.                                                      *)

MainNext == died = "no" /\ MainThread
Ep1Next == died = "no" /\ Ep1Thread
HostNext == died = "no" /\ HostStep
\* A call that waits for the host fails: event_fetch(), or the ep_read() or
\* ep_write() of an endpoint's thread, which throws as main does.
WaitFails ==
  /\ died = "no"
  /\ (main.pc = "fetch" /\ queue = <<>>) \/ threads # {}
  /\ Throws("ioctl")
\* Both threads wait for the host, or the process died.
WaitForHost ==
  /\ died # "no" \/ (main.pc = "fetch" /\ queue = <<>> /\ ep1.pc = "read")
  /\ UNCHANGED vars

Next == MainNext \/ Ep1Next \/ HostNext \/ WaitFails \/ WaitForHost

Spec == Init /\ [][Next]_vars

\* Both threads run; nothing is assumed of the host, and no call has to fail.
\* handle_disconnect() returns: HangUpEnds of CallSession, with its exception.
FairSpec == Spec /\ WF_vars(MainNext) /\ WF_vars(Ep1Next)

-----------------------------------------------------------------------------
(* Properties.                                                             *)

\* The request the gadget waits for on endpoint 0 is the one the main thread
\* has not answered yet, or the only one in the queue: main never goes back to
\* event_fetch() owing an answer, and never answers a request for another.
Owing == main.pc = "ep0_read" \/ main.req.dir = "in"
Waiting == {i \in DOMAIN queue : queue[i] # BusEvent}
Ep0InStep ==
  ~refused =>
    /\ Owing => ep0 = main.req.dir /\ Waiting = {}
    /\ \A i \in Waiting : ep0 = queue[i].dir /\ Waiting = {i}
    /\ ~Owing /\ Waiting = {} => ep0 = "none"

\* Whatever the host asks, repeats, interrupts or leaves unfinished, main makes
\* no call the gadget has to refuse: no transfer or stall in the wrong state, no
\* endpoint enabled twice.  The exception is an OUT request it does not support,
\* which ep0_read() has taken when ep0_stall() finds nothing to stall, or the
\* request that came behind it.  Reading behind a table may end the process
\* only on OnlineStation and for a rate that is not listed.
CallsFitGadget ==
  /\ died = "misuse" => refused
  /\ died = "rate" => /\ model = "OnlineStation" /\ main.req.name = "rate"
                      /\ main.req.arg = "unlisted"

\* A request is answered as it deserves: what the modem supports is
\* transferred, an IN request it does not support is stalled.
AnswersFit ==
  ~refused /\ host.outcome \in {"done", "stalled"} /\ host.req.dir = "in" =>
    (host.outcome = "done" <=> Supports(model, host.req))

\* Two threads are never in handle_disconnect() at once; CallSession has one.
OneHangUp == ~(main.pc = "hang_up" /\ ep1.pc = "hang_up")

\* Each time the host lowered DTR the modem hangs up, in the end, once; only
\* a command that was cut off may hang up besides.
NoDropMissed == <>[](drops \in host.lows .. host.lows + host.cuts \/ died # "no")

\* A request does not wait for its answer forever.
RequestAnswered == host.outcome = "open" ~> host.outcome # "open" \/ died # "no"

=============================================================================
