--------------------------- MODULE UsbControlProofs ---------------------------
(***************************************************************************)
(* The safety invariants of the control loop, for every model and any      *)
(* number of requests, bus events and packets.  One inductive invariant    *)
(* gives them all: what the main thread knows at each of its steps of the  *)
(* request it works on.                                                    *)
(***************************************************************************)
EXTENDS UsbControl, TLAPS, FiniteSetTheorems

Events == Requests \cup {BusEvent}
EndpointNames == {"intr_in", "bulk_in", "bulk_out", "control_out", "control_in", "gpio_out", "gpio_in"}
Commands == {"low", "other", "cut"}

MainState == [pc : {"fetch", "ep0_read", "process", "configure", "hang_up", "rate",
                    "answer", "stall"},
              req : Requests \cup {NoRequest}, todo : Seq(EndpointNames)]
Ep1State == [pc : {"read", "decode", "hang_up"}, cmds : Seq(Commands)]
HostState == [req : Requests \cup {NoRequest}, outcome : {"none", "open", "lost", "done", "stalled"},
              requests : Nat, resets : Nat, packets : Nat, lows : Nat, cuts : Nat]

Types ==
  /\ model \in Models
  /\ queue \in Seq(Events)
  /\ ep0 \in {"in", "out", "none"}
  /\ main \in MainState /\ ep1 \in Ep1State /\ host \in HostState
  /\ threads \in SUBSET EndpointNames
  /\ refused \in BOOLEAN /\ died \in {"no", "ioctl", "misuse", "rate"}

\* Only SmartSCM has the second thread that hangs up, and its main thread
\* does not.
HangingUp ==
  /\ main.pc = "hang_up" => model # "SmartSCM"
  /\ ep1.pc # "read" \/ "control_out" \in threads => model = "SmartSCM"
  /\ \A i \in DOMAIN main.todo : main.todo[i] = "control_out" => model = "SmartSCM"

\* What was found out about the request by the time main.pc is reached.
Knows ==
  /\ main.pc = "fetch" <=> main.req = NoRequest
  /\ main.pc = "ep0_read" => main.req.dir = "out"
  /\ main.pc = "stall" => /\ ~Supports(model, main.req)
                          /\ refused \/ main.req.dir = "in"
  /\ main.pc \in {"configure", "hang_up", "rate", "answer"} => Supports(model, main.req)
  /\ main.pc = "rate" => model = "OnlineStation" /\ main.req.name = "rate"

\* The request that waits on endpoint 0 is the host's.
HostsOwn ==
  ~refused =>
    /\ ep0 = "none" <=> host.outcome \notin {"open", "lost"}
    /\ Owing => main.req = host.req
    /\ \A i \in Waiting : queue[i] = host.req

UsbInv ==
  /\ Types /\ HangingUp /\ Knows /\ HostsOwn
  /\ Ep0InStep /\ AnswersFit /\ CallsFitGadget

-----------------------------------------------------------------------------
(* Facts about the data.                                                   *)

\* What a request is.
LEMMA RequestFacts ==
  ASSUME NEW r \in Requests
  PROVE  r.dir \in {"in", "out"} /\ r # BusEvent /\ r # NoRequest
BY SMT DEF Requests, Request, BusEvent, NoRequest

\* What is no request has no direction.
LEMMA NoRequestFacts ==
  /\ NoRequest.dir = "none" /\ BusEvent.dir = "none"
  /\ NoRequest.name = "none"
BY SMT DEF NoRequest, BusEvent

\* What is left of the queue keeps its order.
LEMMA QueueTail ==
  ASSUME NEW S, NEW q \in Seq(S), q # <<>>
  PROVE  /\ Tail(q) \in Seq(S) /\ Head(q) \in S
         /\ 1 \in DOMAIN q /\ q[1] = Head(q)
         /\ \A i \in DOMAIN Tail(q) : i + 1 \in DOMAIN q /\ q[i + 1] = Tail(q)[i] /\ i + 1 # 1
         /\ \A i \in DOMAIN q : i # 1 => i - 1 \in DOMAIN Tail(q) /\ Tail(q)[i - 1] = q[i]
BY SMT

\* An event goes behind the others.
LEMMA QueueAppend ==
  ASSUME NEW S, NEW q \in Seq(S), NEW e \in S
  PROVE  /\ Append(q, e) \in Seq(S)
         /\ \A i \in DOMAIN q : i \in DOMAIN Append(q, e) /\ Append(q, e)[i] = q[i]
         /\ \A i \in DOMAIN Append(q, e) :
              (i \in DOMAIN q /\ Append(q, e)[i] = q[i]) \/ (i = Len(q) + 1 /\ Append(q, e)[i] = e)
         /\ Len(q) + 1 \in DOMAIN Append(q, e) /\ Append(q, e)[Len(q) + 1] = e
BY SMT

\* Only SmartSCM has an endpoint for control requests.
LEMMA EndpointFacts ==
  ASSUME NEW m \in Models
  PROVE  /\ Endpoints(m) \in Seq(EndpointNames)
         /\ \A i \in DOMAIN Endpoints(m) : Endpoints(m)[i] = "control_out" => m = "SmartSCM"
<1>1. CASE m = "Lucent"
  <2>1. Endpoints(m) = <<"intr_in", "bulk_out", "bulk_in">>
    BY <1>1, Zenon DEF Endpoints
  <2> QED BY <2>1, SMT DEF EndpointNames
<1>2. CASE m = "Omron"
  <2>1. Endpoints(m) = <<"bulk_in", "bulk_out">>
    BY <1>2, Zenon DEF Endpoints
  <2> QED BY <2>1, SMT DEF EndpointNames
<1>3. CASE m = "OnlineStation"
  <2>1. Endpoints(m) = <<"bulk_in", "bulk_out", "intr_in">>
    BY <1>3, Zenon DEF Endpoints
  <2> QED BY <2>1, SMT DEF EndpointNames
<1>4. CASE m = "SmartSCM"
  <2>1. Endpoints(m) = <<"control_out", "control_in", "bulk_out", "bulk_in", "gpio_out", "gpio_in">>
    BY <1>4, Zenon DEF Endpoints
  <2>2. Endpoints(m) \in Seq(EndpointNames)
    BY <2>1, SMT DEF EndpointNames
  <2> QED BY <1>4, <2>2, Zenon
<1> QED BY <1>1, <1>2, <1>3, <1>4, Zenon DEF Models

\* To SmartSCM no request on endpoint 0 means to hang up.
LEMMA SmartKeepsLine ==
  ASSUME NEW r, LowersDtr("SmartSCM", r)
  PROVE  FALSE
BY Zenon DEF LowersDtr

-----------------------------------------------------------------------------
(* The steps.                                                              *)

\* It holds from the start.
LEMMA InitEstablishes == Init => UsbInv
<1> SUFFICES ASSUME Init PROVE UsbInv
  OBVIOUS
<1>1. Types
  <2>1. queue \in Seq(Events) /\ main \in MainState /\ ep1 \in Ep1State
    BY SMT DEF Init, MainState, Ep1State
  <2>2. host \in HostState
    BY SMT DEF Init, HostState
  <2>3. model \in Models /\ ep0 = "none" /\ threads = {} /\ refused = FALSE /\ died = "no"
    BY DEF Init
  <2> QED BY <2>1, <2>2, <2>3, Zenon DEF Types
<1>2. HangingUp /\ Knows /\ HostsOwn
  BY NoRequestFacts, SMT DEF Init, HangingUp, Knows, HostsOwn, Owing, Waiting
<1>3. Ep0InStep /\ AnswersFit /\ CallsFitGadget
  BY NoRequestFacts, SMT DEF Init, Ep0InStep, AnswersFit, CallsFitGadget, Owing, Waiting
<1> QED BY <1>1, <1>2, <1>3 DEF UsbInv

\* The host sends the next request.
LEMMA SendRequestStep ==
  ASSUME UsbInv, died = "no", NEW r \in Requests, SendRequest(r)
  PROVE  UsbInv'
<1> USE DEF UsbInv
<1>1. r.dir \in {"in", "out"} /\ r # BusEvent /\ r \in Events
  BY RequestFacts, Zenon DEF Events
<1>3. HangingUp' /\ Knows'
  BY SMT DEF HangingUp, Knows, SendRequest
<1>4. /\ queue' = Append(queue, r) /\ queue' \in Seq(Events)
      /\ \A i \in DOMAIN queue : i \in DOMAIN queue' /\ queue'[i] = queue[i]
      /\ \A i \in DOMAIN queue' :
           (i \in DOMAIN queue /\ queue'[i] = queue[i]) \/ (i = Len(queue) + 1 /\ queue'[i] = r)
      /\ Len(queue) + 1 \in DOMAIN queue' /\ queue'[Len(queue) + 1] = r
  <2>1. queue \in Seq(Events) /\ queue' = Append(queue, r)
    BY DEF Types, SendRequest
  <2> QED BY <1>1, <2>1, QueueAppend
<1>2. Types'
  <2>1. host' \in HostState
    <3>1. PICK n : n = IF LowersDtr(model, r) THEN host.lows + 1 ELSE host.lows
      OBVIOUS
    <3>2. /\ host \in HostState
          /\ host' = [host EXCEPT !.req = r, !.outcome = "open",
                                  !.requests = host.requests + 1, !.lows = n]
      BY <3>1 DEF Types, SendRequest
    <3>3. n \in Nat /\ host.requests + 1 \in Nat
      BY <3>1, <3>2, SMT DEF HostState
    <3>4. r \in Requests \cup {NoRequest}
      OBVIOUS
    <3> QED BY <3>2, <3>3, <3>4, Zenon DEF HostState
  <2> QED BY <1>1, <1>4, <2>1, SMT DEF Types, SendRequest
<1>5. ASSUME ~refused PROVE ~Owing /\ Waiting = {}
  <2>1. ep0 = "none"
    BY DEF SendRequest
  <2>2. ~Owing
    BY <1>5, <2>1, RequestFacts, SMT DEF Ep0InStep, Owing, Types, Knows, NoRequest
  <2>3. \A i \in Waiting : queue[i] \in Requests
    BY SMT DEF Types, Events, Waiting
  <2> QED BY <1>5, <2>1, <2>2, <2>3, RequestFacts, SMT DEF Ep0InStep
<1>6. ~refused => Waiting' = {Len(queue) + 1}
  BY <1>1, <1>4, <1>5, Zenon DEF Waiting
<1>7. HostsOwn' /\ Ep0InStep'
  <2>1. ep0' = r.dir /\ UNCHANGED <<main, refused>> /\ host'.req = r /\ host'.outcome = "open"
    BY SMT DEF SendRequest, Types, HostState
  <2>2. ~refused => ~Owing'
    BY <1>5, <2>1 DEF Owing
  <2> QED BY <1>1, <1>4, <1>6, <2>1, <2>2, Zenon DEF HostsOwn, Ep0InStep
<1>8. AnswersFit' /\ CallsFitGadget'
  BY SMT DEF AnswersFit, CallsFitGadget, SendRequest, Types
<1> QED BY <1>2, <1>3, <1>7, <1>8

\* A change of main.pc has its type ...
LEMMA PcTyped ==
  ASSUME NEW m \in MainState,
         NEW p \in {"fetch", "ep0_read", "process", "configure", "hang_up", "rate", "answer", "stall"}
  PROVE  [m EXCEPT !.pc = p] \in MainState
BY Zenon DEF MainState

\* ... and so has one of the request with it ...
LEMMA ReqTyped ==
  ASSUME NEW m \in MainState, NEW r \in Requests \cup {NoRequest},
         NEW p \in {"fetch", "ep0_read", "process", "configure", "hang_up", "rate", "answer", "stall"}
  PROVE  /\ [m EXCEPT !.req = r, !.pc = p] \in MainState
         /\ [m EXCEPT !.pc = p, !.req = r] \in MainState
BY Zenon DEF MainState

\* ... and of the endpoints to look at.
LEMMA TodoTyped ==
  ASSUME NEW m \in MainState, NEW s \in Seq(EndpointNames),
         NEW p \in {"stall", "configure", "hang_up", "rate", "answer"}
  PROVE  /\ [m EXCEPT !.pc = p, !.todo = s] \in MainState
         /\ [m EXCEPT !.todo = s] \in MainState
BY Zenon DEF MainState

\* A request is stalled exactly when it is not supported, the modem hangs up
\* only for a request that lowers DTR, and only OnlineStation shows a rate.
LEMMA HandledFacts ==
  ASSUME NEW m, NEW r
  PROVE  /\ Handled(m, r) \in {"stall", "configure", "hang_up", "rate", "answer"}
         /\ Handled(m, r) = "stall" <=> ~Supports(m, r)
         /\ Handled(m, r) = "hang_up" => LowersDtr(m, r)
         /\ Handled(m, r) = "rate" => m = "OnlineStation" /\ r.name = "rate"
<1>1. CASE ~Supports(m, r)
  BY <1>1, Zenon DEF Handled
<1>2. CASE Supports(m, r)
  <2>1. Handled(m, r) = CASE r.name = "SET_CONFIGURATION" -> "configure"
                          [] LowersDtr(m, r) -> "hang_up"
                          [] m = "OnlineStation" /\ r.name = "rate" -> "rate"
                          [] OTHER -> "answer"
    BY <1>2, Zenon DEF Handled
  <2>2. \/ Handled(m, r) \in {"configure", "answer"}
        \/ Handled(m, r) = "hang_up" /\ LowersDtr(m, r)
        \/ Handled(m, r) = "rate" /\ m = "OnlineStation" /\ r.name = "rate"
    BY <2>1, Zenon
  <2> QED BY <1>2, <2>2, Zenon
<1> QED BY <1>1, <1>2

\* While main works on its request and leaves endpoint 0 alone, nothing is
\* owed that was not.
LEMMA Working ==
  ASSUME UsbInv, UNCHANGED <<queue, ep0, host, refused>>, main'.req = main.req,
         main.pc # "ep0_read", main'.pc # "ep0_read"
  PROVE  HostsOwn' /\ Ep0InStep'
<1>1. Owing' <=> Owing
  BY Zenon DEF Owing
<1>2. Waiting' = Waiting
  BY DEF Waiting
<1> QED BY <1>1, <1>2, Zenon DEF UsbInv, HostsOwn, Ep0InStep

\* What main owes on endpoint 0 is paid.
LEMMA Paying ==
  ASSUME UsbInv, UNCHANGED <<queue, refused>>,
         ~refused => /\ Owing /\ ~Owing'
                     /\ ep0' = "none" /\ host'.outcome \notin {"open", "lost"}
  PROVE  HostsOwn' /\ Ep0InStep'
<1>1. Waiting' = Waiting
  BY DEF Waiting
<1> QED BY <1>1, Zenon DEF UsbInv, HostsOwn, Ep0InStep

\* A step after which the process lives threw nothing.
LEMMA Succeeds ==
  ASSUME died' = "no"
  PROVE  /\ ~Throws("ioctl") /\ ~Throws("misuse") /\ ~Throws("rate")
         /\ \A dirs : ~Ep0Fails(dirs)
BY Zenon DEF Throws, Ep0Fails

\* The main thread takes an event.
LEMMA EventFetchStep ==
  ASSUME UsbInv, died = "no", died' = "no", EventFetch
  PROVE  UsbInv'
<1> DEFINE e == Head(queue)
           p == IF e.dir = "out" THEN "ep0_read" ELSE "process"
<1> USE DEF UsbInv
<1>1. /\ Tail(queue) \in Seq(Events) /\ Head(queue) \in Events
      /\ 1 \in DOMAIN queue /\ queue[1] = Head(queue)
      /\ \A i \in DOMAIN Tail(queue) :
           i + 1 \in DOMAIN queue /\ queue[i + 1] = Tail(queue)[i] /\ i + 1 # 1
      /\ \A i \in DOMAIN queue : i # 1 => i - 1 \in DOMAIN Tail(queue) /\ Tail(queue)[i - 1] = queue[i]
  <2>1. queue \in Seq(Events) /\ queue # <<>>
    BY DEF Types, EventFetch
  <2> QED BY <2>1, QueueTail
<1>2. /\ queue' = Tail(queue) /\ main.req = NoRequest /\ main.pc = "fetch" /\ ~Owing
      /\ UNCHANGED <<model, ep0, threads, ep1, host, drops, refused, died>>
  BY Succeeds, NoRequestFacts, Zenon DEF EventFetch, Knows, Owing
<1>3. CASE e = BusEvent
  <2>1. main' = main /\ (Owing' <=> Owing)
    BY <1>3, Succeeds, Zenon DEF EventFetch, Owing
  <2>2. Types' /\ HangingUp' /\ Knows' /\ AnswersFit' /\ CallsFitGadget'
    BY <1>1, <1>2, <2>1, SMT DEF Types, HangingUp, Knows, AnswersFit, CallsFitGadget
  <2>3. /\ \A i \in Waiting' : i + 1 \in Waiting /\ queue'[i] = queue[i + 1]
        /\ \A i \in Waiting : i - 1 \in Waiting'
    BY <1>1, <1>2, <1>3, SMT DEF Waiting
  <2>4. \A i, j \in Waiting' : i \in Int /\ (i + 1 = j + 1 => i = j)
    BY <1>1, <1>2, SMT DEF Waiting
  <2>5. HostsOwn' /\ Ep0InStep'
    <3>1. ASSUME NEW i \in Waiting', ~refused PROVE Waiting' = {i} /\ ep0' = queue'[i].dir
                                                    /\ queue'[i] = host'.req
      <4>1. i + 1 \in Waiting /\ Waiting = {i + 1} /\ ep0 = queue[i + 1].dir
        BY <2>3, <3>1, Zenon DEF Ep0InStep
      <4>2. \A j \in Waiting' : j + 1 = i + 1
        BY <2>3, <4>1, Zenon
      <4>3. \A j \in Waiting' : j = i
        BY <2>4, <3>1, <4>2, Zenon
      <4>4. ep0' = queue'[i].dir /\ queue'[i] = host'.req
        BY <1>2, <2>3, <3>1, <4>1, Zenon DEF HostsOwn
      <4> QED BY <3>1, <4>3, <4>4, Zenon
    <3>2. Waiting' = {} => Waiting = {}
      BY <2>3, Zenon
    <3>3. HostsOwn'
      BY <1>2, <2>1, <3>1, Zenon DEF HostsOwn
    <3>4. Ep0InStep'
      BY <1>2, <2>1, <3>1, <3>2, Zenon DEF Ep0InStep
    <3> QED BY <3>3, <3>4
  <2> QED BY <2>2, <2>5
<1>4. CASE e # BusEvent
  <2>1. e \in Requests /\ e.dir \in {"in", "out"} /\ e # NoRequest
    BY <1>1, <1>4, RequestFacts, Zenon DEF Events
  <2>2. main' = [main EXCEPT !.req = e, !.pc = p] /\ p \in {"ep0_read", "process"}
    BY <1>4, Succeeds, Zenon DEF EventFetch
  <2>3. main' \in MainState
    <3>1. main \in MainState /\ e \in Requests \cup {NoRequest}
      BY <2>1, Zenon DEF Types
    <3>2. p \in {"fetch", "ep0_read", "process", "configure", "hang_up", "rate", "answer", "stall"}
      BY <2>2, Zenon
    <3> HIDE DEF p, e
    <3> QED BY <2>2, <3>1, <3>2, ReqTyped
  <2>4. Types'
    BY <1>1, <1>2, <2>3, Zenon DEF Types
  <2>5. main'.pc = p /\ main'.req = e /\ main'.todo = main.todo
    BY <2>2, SMT DEF Types, MainState
  <2>6. HangingUp'
    BY <1>2, <2>5, SMT DEF HangingUp
  <2>7. Knows'
    BY <1>2, <2>1, <2>5, SMT DEF Knows
  <2>8. Owing' /\ 1 \in Waiting
    BY <1>1, <1>4, <2>1, <2>5, SMT DEF Owing, Waiting
  <2>9. ~refused => Waiting' = {}
    <3>1. \A i \in Waiting' : i + 1 \in Waiting /\ i + 1 # 1
      BY <1>1, <1>2, SMT DEF Waiting
    <3> QED BY <2>8, <3>1, Zenon DEF Ep0InStep
  <2>10. HostsOwn' /\ Ep0InStep'
    <3>1. ~refused => ep0 = e.dir /\ e = host.req
      BY <1>1, <2>8, Zenon DEF HostsOwn, Ep0InStep
    <3>2. HostsOwn'
      BY <1>2, <2>5, <2>9, <3>1, Zenon DEF HostsOwn
    <3>3. Ep0InStep'
      BY <1>2, <2>5, <2>8, <2>9, <3>1, Zenon DEF Ep0InStep
    <3> QED BY <3>2, <3>3
  <2>11. AnswersFit' /\ CallsFitGadget'
    BY <1>2, Zenon DEF AnswersFit, CallsFitGadget
  <2> QED BY <2>4, <2>6, <2>7, <2>10, <2>11
<1> QED BY <1>3, <1>4

\* An OUT request is transferred.
LEMMA Ep0ReadStep ==
  ASSUME UsbInv, died = "no", died' = "no", Ep0Read
  PROVE  UsbInv'
<1> USE DEF UsbInv
<1>1. /\ main.pc = "ep0_read" /\ main' = [main EXCEPT !.pc = "process"]
      /\ UNCHANGED <<model, queue, threads, ep1, drops, refused>>
      /\ main \in MainState /\ host \in HostState
      /\ ep0 = "out" /\ ep0' = "none" /\ died' = died
      /\ host' = [host EXCEPT !.outcome = IF host.outcome = "lost" THEN "none" ELSE "done"]
  BY Succeeds, Zenon DEF Ep0Read, Ep0Ends, Types
<1>2. main'.pc = "process" /\ main'.req = main.req /\ main'.todo = main.todo
  BY <1>1, SMT DEF MainState
<1>3. Owing /\ main.req.dir = "out" /\ ~Owing'
  BY <1>1, <1>2, SMT DEF Owing, Knows
<1>4. ~refused => ep0 = "out" /\ main.req = host.req
  BY <1>3, Zenon DEF Ep0InStep, HostsOwn
<1>5. host' \in HostState /\ host'.req = host.req /\ host'.outcome \in {"none", "done"}
  BY <1>1, SMT DEF HostState
<1>6. Types'
  <2>1. main' \in MainState
    BY <1>1, PcTyped
  <2> QED BY <1>1, <1>5, <2>1, Zenon DEF Types
<1>7. HangingUp' /\ Knows'
  BY <1>1, <1>2, SMT DEF HangingUp, Knows
<1>8. HostsOwn' /\ Ep0InStep'
  BY <1>1, <1>3, <1>4, <1>5, Paying, SMT
<1>9. AnswersFit' /\ CallsFitGadget'
  BY <1>1, <1>3, <1>4, <1>5, SMT DEF AnswersFit, CallsFitGadget
<1> QED BY <1>6, <1>7, <1>8, <1>9

\* The request is looked at: what the modem does not support is to be stalled,
\* and an OUT request of that kind is remembered.
LEMMA ProcessStep ==
  ASSUME UsbInv, died = "no", ProcessControlPacket
  PROVE  UsbInv'
<1> USE DEF UsbInv
<1>1. /\ main.pc = "process" /\ main \in MainState /\ model \in Models
      /\ UNCHANGED <<model, queue, ep0, threads, ep1, host, drops, died>>
      /\ refused' = (refused \/ (~Supports(model, main.req) /\ main.req.dir = "out"))
  BY DEF ProcessControlPacket, Types
<1>2. main.req \in Requests /\ main.req # NoRequest /\ main.req.dir \in {"in", "out"}
  BY <1>1, RequestFacts, SMT DEF Knows, MainState
<1>3. PICK s : s = IF main.req.name = "SET_CONFIGURATION"
                 THEN ToEnable(model, main.req) ELSE main.todo
  OBVIOUS
<1>4. /\ s \in Seq(EndpointNames)
      /\ \A i \in DOMAIN s : s[i] = "control_out" => model = "SmartSCM"
  BY <1>1, <1>3, EndpointFacts, SMT DEF ToEnable, MainState, HangingUp
<1>5. PICK p : p = Handled(model, main.req)
  OBVIOUS
<1>6. /\ main' \in MainState /\ main'.req = main.req /\ main'.todo = s /\ main'.pc = p
      /\ p \in {"stall", "configure", "hang_up", "rate", "answer"}
      /\ p = "stall" <=> ~Supports(model, main.req)
      /\ p = "hang_up" => LowersDtr(model, main.req)
      /\ p = "rate" => model = "OnlineStation" /\ main.req.name = "rate"
  <2>1. /\ p \in {"stall", "configure", "hang_up", "rate", "answer"}
        /\ p = "stall" <=> ~Supports(model, main.req)
        /\ p = "hang_up" => LowersDtr(model, main.req)
        /\ p = "rate" => model = "OnlineStation" /\ main.req.name = "rate"
    BY <1>5, HandledFacts, Zenon
  <2>2. main' = [main EXCEPT !.pc = p, !.todo = s]
    BY <1>3, <1>5, Zenon DEF ProcessControlPacket
  <2>3. main' \in MainState
    BY <1>1, <1>4, <2>1, <2>2, TodoTyped
  <2>4. main'.req = main.req /\ main'.todo = s /\ main'.pc = p
    BY <1>1, <2>2, SMT DEF MainState
  <2> QED BY <2>1, <2>3, <2>4
<1>7. Types'
  BY <1>1, <1>6, SMT DEF Types
<1>8. HangingUp'
  <2>1. main'.pc = "hang_up" => model # "SmartSCM"
    BY <1>6, SmartKeepsLine, Zenon
  <2>2. \A i \in DOMAIN main'.todo : main'.todo[i] = "control_out" => model = "SmartSCM"
    BY <1>4, <1>6, Zenon DEF HangingUp
  <2> QED BY <1>1, <2>1, <2>2, Zenon DEF HangingUp
<1>9. Knows'
  <2>1. /\ main'.pc # "fetch" /\ main'.req # NoRequest /\ main'.pc # "ep0_read"
        /\ main'.pc \in {"configure", "hang_up", "rate", "answer"} => main'.pc # "stall"
        /\ ~Supports(model, main.req) => refused' \/ main.req.dir = "in"
    BY <1>1, <1>2, <1>6, Zenon
  <2> QED BY <1>1, <1>6, <2>1, Zenon DEF Knows
<1>10. HostsOwn' /\ Ep0InStep'
  <2>1. CASE refused' = refused
    <3>1. main.pc # "ep0_read" /\ main'.pc # "ep0_read"
      BY <1>1, <1>6, Zenon
    <3> QED BY <1>1, <1>6, <2>1, <3>1, Working
  <2>2. CASE refused' # refused
    <3>1. refused'
      BY <1>1, <2>2, Zenon DEF Types
    <3> QED BY <3>1, Zenon DEF HostsOwn, Ep0InStep
  <2> QED BY <2>1, <2>2
<1>11. AnswersFit' /\ CallsFitGadget'
  BY <1>1, <1>6, Zenon DEF AnswersFit, CallsFitGadget
<1> QED BY <1>7, <1>8, <1>9, <1>10, <1>11

\* The next endpoint and its thread.
LEMMA EnableEndpointStep ==
  ASSUME UsbInv, died = "no", died' = "no", EnableEndpoint
  PROVE  UsbInv'
<1> USE DEF UsbInv
<1>1. /\ main.pc = "configure" /\ main.todo # <<>> /\ main \in MainState
      /\ main.todo \in Seq(EndpointNames)
      /\ main' = [main EXCEPT !.todo = Tail(main.todo)]
      /\ threads' = threads \cup {Head(main.todo)}
      /\ UNCHANGED <<model, queue, ep0, ep1, host, drops, refused, died>>
  <2>1. main \in MainState /\ main.todo \in Seq(EndpointNames)
    BY SMT DEF Types, MainState
  <2> QED BY <2>1, Succeeds, Zenon DEF EnableEndpoint
<1>2. /\ Tail(main.todo) \in Seq(EndpointNames) /\ Head(main.todo) \in EndpointNames
      /\ 1 \in DOMAIN main.todo /\ main.todo[1] = Head(main.todo)
      /\ \A i \in DOMAIN Tail(main.todo) :
           i + 1 \in DOMAIN main.todo /\ main.todo[i + 1] = Tail(main.todo)[i]
  BY <1>1, QueueTail
<1>3. main' \in MainState
  BY <1>1, <1>2, TodoTyped
<1>4. main'.pc = main.pc /\ main'.req = main.req /\ main'.todo = Tail(main.todo)
  BY <1>1, SMT DEF MainState
<1>5. Types'
  <2>1. threads' \in SUBSET EndpointNames
    BY <1>1, <1>2, Zenon DEF Types
  <2> QED BY <1>1, <1>3, <2>1, Zenon DEF Types
<1>6. HangingUp'
  <2>1. "control_out" \in threads' => model = "SmartSCM"
    BY <1>1, <1>2, Zenon DEF HangingUp
  <2>2. \A i \in DOMAIN main'.todo : main'.todo[i] = "control_out" => model = "SmartSCM"
    BY <1>2, <1>4, Zenon DEF HangingUp
  <2> QED BY <1>1, <1>4, <2>1, <2>2, Zenon DEF HangingUp
<1>7. Knows' /\ AnswersFit' /\ CallsFitGadget'
  BY <1>1, <1>4, Zenon DEF Knows, AnswersFit, CallsFitGadget
<1>8. HostsOwn' /\ Ep0InStep'
  BY <1>1, <1>4, Working, SMT
<1> QED BY <1>5, <1>6, <1>7, <1>8

\* The steps after which the answer is due.
LEMMA ToAnswerStep ==
  ASSUME UsbInv, died = "no", died' = "no", Configure \/ MainHangsUp \/ ShowRate
  PROVE  UsbInv'
<1> USE DEF UsbInv
<1>1. /\ main.pc \in {"configure", "hang_up", "rate"} /\ main \in MainState
      /\ main' = [main EXCEPT !.pc = "answer"]
      /\ UNCHANGED <<model, queue, ep0, threads, ep1, host, refused, died>>
  BY Succeeds, Zenon DEF Configure, MainHangsUp, ShowRate, Types
<1>2. /\ main' \in MainState /\ main'.req = main.req /\ main'.todo = main.todo
      /\ main'.pc = "answer"
  <2>1. main' \in MainState
    BY <1>1, PcTyped, Zenon
  <2> QED BY <1>1, <2>1, SMT DEF MainState
<1>3. Types'
  BY <1>1, <1>2, Zenon DEF Types
<1>4. HangingUp' /\ Knows'
  BY <1>1, <1>2, SMT DEF HangingUp, Knows
<1>5. HostsOwn' /\ Ep0InStep'
  BY <1>1, <1>2, Working, SMT
<1>6. AnswersFit' /\ CallsFitGadget'
  BY <1>1, <1>2, SMT DEF AnswersFit, CallsFitGadget, Knows
<1> QED BY <1>3, <1>4, <1>5, <1>6

\* An IN request gets its answer.
LEMMA AnswerStep ==
  ASSUME UsbInv, died = "no", died' = "no", Answer
  PROVE  UsbInv'
<1> USE DEF UsbInv
<1>1. /\ main.pc = "answer" /\ main' = [main EXCEPT !.pc = "fetch", !.req = NoRequest]
      /\ UNCHANGED <<model, queue, threads, ep1, drops, refused>>
      /\ main \in MainState /\ host \in HostState
      /\ died' = died
      /\ main.req.dir # "in" => UNCHANGED <<ep0, host>>
      /\ main.req.dir = "in" =>
           /\ ep0 = "in" /\ ep0' = "none"
           /\ host' = [host EXCEPT !.outcome = IF host.outcome = "lost" THEN "none" ELSE "done"]
  BY Succeeds, Zenon DEF Answer, Ep0Ends, Types
<1>2. main'.pc = "fetch" /\ main'.req = NoRequest /\ main'.todo = main.todo
  BY <1>1, SMT DEF MainState
<1>3. ~Owing' /\ (Owing <=> main.req.dir = "in") /\ Supports(model, main.req)
  BY <1>1, <1>2, NoRequestFacts, SMT DEF Owing, Knows
<1>4. ~refused /\ Owing => ep0 = "in" /\ main.req = host.req
  BY <1>3, Zenon DEF Ep0InStep, HostsOwn
<1>5. /\ host' \in HostState /\ host'.req = host.req
      /\ Owing => host'.outcome \in {"none", "done"}
  BY <1>1, <1>3, SMT DEF HostState
<1>6. Types'
  <2>1. main' \in MainState
    BY <1>1, ReqTyped
  <2> QED BY <1>1, <1>5, <2>1, Zenon DEF Types
<1>7. HangingUp' /\ Knows'
  BY <1>1, <1>2, SMT DEF HangingUp, Knows
<1>8. HostsOwn' /\ Ep0InStep'
  <2>1. CASE Owing
    BY <1>1, <1>3, <1>4, <1>5, <2>1, Paying, SMT
  <2>2. CASE ~Owing
    <3>1. UNCHANGED <<queue, ep0, host, refused>> /\ Waiting' = Waiting
      BY <1>1, <1>3, <2>2, Zenon DEF Waiting
    <3> QED BY <1>3, <2>2, <3>1, Zenon DEF HostsOwn, Ep0InStep
  <2> QED BY <2>1, <2>2
<1>9. AnswersFit' /\ CallsFitGadget'
  <2>1. CASE ~refused /\ Owing
    <3>1. died' = died /\ host'.outcome \in {"none", "done"} /\ model' = model /\ host'.req = main.req
      BY <1>1, <1>3, <1>4, <1>5, <2>1, Zenon
    <3>2. Supports(model', host'.req)
      BY <1>3, <3>1, SMT
    <3> QED BY <3>1, <3>2, Zenon DEF AnswersFit, CallsFitGadget
  <2>2. CASE ~refused /\ ~Owing
    <3>1. UNCHANGED <<model, host, died, refused>>
      BY <1>1, <1>3, <2>2, Zenon
    <3> QED BY <2>2, <3>1 DEF AnswersFit, CallsFitGadget
  <2>3. CASE refused
    BY <1>1, <2>3, Zenon DEF AnswersFit, CallsFitGadget
  <2> QED BY <2>1, <2>2, <2>3
<1> QED BY <1>6, <1>7, <1>8, <1>9

\* What is not supported is stalled.
LEMMA Ep0StallStep ==
  ASSUME UsbInv, died = "no", died' = "no", Ep0Stall
  PROVE  UsbInv'
<1> USE DEF UsbInv
<1>1. /\ main.pc = "stall" /\ main' = [main EXCEPT !.pc = "fetch", !.req = NoRequest]
      /\ UNCHANGED <<model, queue, threads, ep1, drops, refused>>
      /\ main \in MainState /\ host \in HostState
      /\ ep0' = "none" /\ died' = died
      /\ host' = [host EXCEPT !.outcome = IF host.outcome = "lost" THEN "none" ELSE "stalled"]
  BY Succeeds, Zenon DEF Ep0Stall, Ep0Ends, Types
<1>2. main'.pc = "fetch" /\ main'.req = NoRequest /\ main'.todo = main.todo
  BY <1>1, SMT DEF MainState
<1>3. ~Owing' /\ ~Supports(model, main.req) /\ (~refused => Owing /\ main.req.dir = "in")
  BY <1>1, <1>2, NoRequestFacts, SMT DEF Owing, Knows
<1>4. ~refused => ep0 = "in" /\ main.req = host.req
  BY <1>3, Zenon DEF Ep0InStep, HostsOwn
<1>5. /\ host' \in HostState /\ host'.req = host.req
      /\ host'.outcome \in {"none", "stalled"}
  BY <1>1, SMT DEF HostState
<1>6. Types'
  <2>1. main' \in MainState
    BY <1>1, ReqTyped
  <2> QED BY <1>1, <1>5, <2>1, Zenon DEF Types
<1>7. HangingUp' /\ Knows'
  BY <1>1, <1>2, SMT DEF HangingUp, Knows
<1>8. HostsOwn' /\ Ep0InStep'
  BY <1>1, <1>3, <1>4, <1>5, Paying, SMT
<1>9. AnswersFit' /\ CallsFitGadget'
  <2>1. CASE ~refused
    <3>1. died' = died /\ host'.outcome \in {"none", "stalled"} /\ model' = model /\ host'.req = main.req
      BY <1>1, <1>3, <1>4, <1>5, <2>1, Zenon
    <3>2. ~Supports(model', host'.req)
      BY <1>3, <3>1, SMT
    <3> QED BY <3>1, <3>2, Zenon DEF AnswersFit, CallsFitGadget
  <2>2. CASE refused
    BY <1>1, <2>2, Zenon DEF AnswersFit, CallsFitGadget
  <2> QED BY <2>1, <2>2
<1> QED BY <1>6, <1>7, <1>8, <1>9

\* Something happens to the bus.
LEMMA BusStep ==
  ASSUME UsbInv, died = "no", BusChanges
  PROVE  UsbInv'
<1> USE DEF UsbInv
<1>0. PICK outcome \in {host.outcome, IF host.outcome = "open" THEN "lost" ELSE host.outcome} :
        host' = [host EXCEPT !.resets = host.resets + 1, !.outcome = outcome]
  BY Zenon DEF BusChanges
<1>1. /\ queue \in Seq(Events) /\ BusEvent \in Events
      /\ queue' = Append(queue, BusEvent)
      /\ host \in HostState
      /\ UNCHANGED <<model, ep0, main, threads, ep1, drops, refused, died>>
  BY Zenon DEF BusChanges, Types, Events
<1>2. /\ queue' \in Seq(Events)
      /\ \A i \in DOMAIN queue : i \in DOMAIN queue' /\ queue'[i] = queue[i]
      /\ \A i \in DOMAIN queue' :
           (i \in DOMAIN queue /\ queue'[i] = queue[i]) \/ (i = Len(queue) + 1 /\ queue'[i] = BusEvent)
  BY <1>1, QueueAppend
<1>3. /\ host' \in HostState /\ host'.req = host.req
      /\ host'.outcome = host.outcome \/ (host.outcome = "open" /\ host'.outcome = "lost")
  <2>1. host.resets + 1 \in Nat
    BY <1>1, SMT DEF HostState
  <2>2. /\ outcome \in {"none", "open", "lost", "done", "stalled"}
        /\ outcome = host.outcome \/ (host.outcome = "open" /\ outcome = "lost")
    BY <1>0, <1>1, Zenon DEF HostState
  <2>3. host' \in HostState
    BY <1>0, <1>1, <2>1, <2>2, Zenon DEF HostState
  <2> QED BY <1>0, <1>1, <2>2, <2>3, SMT DEF HostState
<1>4. Types' /\ HangingUp' /\ Knows'
  BY <1>1, <1>2, <1>3, Zenon DEF Types, HangingUp, Knows
<1>5. AnswersFit' /\ CallsFitGadget'
  BY <1>1, <1>3, Zenon DEF AnswersFit, CallsFitGadget
<1>6. Waiting' = Waiting /\ (Owing' <=> Owing) /\ \A i \in Waiting : queue'[i] = queue[i]
  BY <1>1, <1>2, Zenon DEF Waiting, Owing
<1>7. HostsOwn' /\ Ep0InStep'
  <2>1. host'.outcome \in {"open", "lost"} <=> host.outcome \in {"open", "lost"}
    BY <1>3, Zenon
  <2> QED BY <1>1, <1>3, <1>6, <2>1, Zenon DEF HostsOwn, Ep0InStep
<1> QED BY <1>4, <1>5, <1>7

\* A packet is a sequence of commands.
LEMMA PacketFacts ==
  ASSUME NEW cmds \in Packets, NEW c
  PROVE  cmds \in Seq(Commands) /\ Count(c, cmds) \in Nat
<1>1. cmds \in Seq(Commands)
  <2>1. /\ <<"low">> \in Seq(Commands) /\ <<"other", "low">> \in Seq(Commands)
        /\ <<"low", "other", "low">> \in Seq(Commands) /\ <<"low", "cut">> \in Seq(Commands)
    BY SMT DEF Commands
  <2> QED BY <2>1, Zenon DEF Packets
<1>2. DOMAIN cmds = 1..Len(cmds) /\ Len(cmds) \in Nat
  BY <1>1, SMT
<1>3. IsFiniteSet(DOMAIN cmds)
  BY <1>2, FS_Interval, SMT
<1>4. {i \in DOMAIN cmds : cmds[i] = c} \in SUBSET DOMAIN cmds
  OBVIOUS
<1>5. IsFiniteSet({i \in DOMAIN cmds : cmds[i] = c})
  BY <1>3, <1>4, FS_Subset, Zenon
<1> QED BY <1>1, <1>5, FS_CardinalityType, Zenon DEF Count

\* A packet arrives at endpoint 1.
LEMMA SendEp1Step ==
  ASSUME UsbInv, died = "no", NEW cmds \in Packets, SendEp1(cmds)
  PROVE  UsbInv'
<1> USE DEF UsbInv
<1>1. /\ "control_out" \in threads /\ ep1' = [pc |-> "decode", cmds |-> cmds]
      /\ UNCHANGED <<model, queue, ep0, main, threads, refused, died>>
  BY Zenon DEF SendEp1
<1>2. host' \in HostState /\ host'.req = host.req /\ host'.outcome = host.outcome
  <2>1. PICK n, l, c : n = host.packets + 1 /\ l = host.lows + Count("low", cmds)
                       /\ c = host.cuts + Count("cut", cmds)
    OBVIOUS
  <2>2. /\ host \in HostState
        /\ host' = [host EXCEPT !.packets = n, !.lows = l, !.cuts = c]
    BY <2>1, Zenon DEF SendEp1, Types
  <2>3. n \in Nat /\ l \in Nat /\ c \in Nat
    <3>1. host.packets \in Nat /\ host.lows \in Nat /\ host.cuts \in Nat
      BY <2>2, Zenon DEF HostState
    <3>2. PICK x, y : x = Count("low", cmds) /\ y = Count("cut", cmds)
      OBVIOUS
    <3>3. x \in Nat /\ y \in Nat
      BY <3>2, PacketFacts, Zenon
    <3>4. l = host.lows + x /\ c = host.cuts + y
      BY <2>1, <3>2, Zenon
    <3> QED BY <2>1, <3>1, <3>3, <3>4, SMT
  <2>4. host' \in HostState
    BY <2>2, <2>3, Zenon DEF HostState
  <2> QED BY <2>2, <2>4, SMT DEF HostState
<1>3. ep1' \in Ep1State
  BY <1>1, PacketFacts, Zenon DEF Ep1State
<1>4. Types' /\ Knows'
  BY <1>1, <1>2, <1>3, Zenon DEF Types, Knows
<1>5. HangingUp'
  BY <1>1, Zenon DEF HangingUp
<1>6. AnswersFit' /\ CallsFitGadget'
  BY <1>1, <1>2, Zenon DEF AnswersFit, CallsFitGadget
<1>7. Waiting' = Waiting /\ (Owing' <=> Owing)
  BY <1>1, Zenon DEF Waiting, Owing
<1>8. HostsOwn' /\ Ep0InStep'
  BY <1>1, <1>2, <1>7, Zenon DEF HostsOwn, Ep0InStep
<1> QED BY <1>4, <1>5, <1>6, <1>8

\* Endpoint 1 decodes its packet and hangs up.
LEMMA Ep1Step ==
  ASSUME UsbInv, died = "no", Ep1Thread
  PROVE  UsbInv'
<1> USE DEF UsbInv
<1>1. /\ UNCHANGED <<model, queue, ep0, main, threads, host, refused, died>>
      /\ ep1 \in Ep1State /\ ep1.pc # "read"
  BY Zenon DEF Ep1Thread, ControlOut, Ep1HangsUp, Types
<1>2. ep1' \in Ep1State
  <2>1. CASE ControlOut /\ ep1.cmds = <<>>
    BY <1>1, <2>1, Zenon DEF ControlOut, Ep1State
  <2>2. CASE ControlOut /\ ep1.cmds # <<>>
    <3>1. Tail(ep1.cmds) \in Seq(Commands)
      BY <1>1, <2>2, SMT DEF Ep1State
    <3>2. PICK p \in {"hang_up", "decode"} : ep1' = [pc |-> p, cmds |-> Tail(ep1.cmds)]
      BY <2>2, Zenon DEF ControlOut
    <3> QED BY <3>1, <3>2, Zenon DEF Ep1State
  <2>3. CASE Ep1HangsUp
    BY <1>1, <2>3, Zenon DEF Ep1HangsUp, Ep1State
  <2> QED BY <2>1, <2>2, <2>3, Zenon DEF Ep1Thread
<1>3. Types' /\ Knows'
  BY <1>1, <1>2, Zenon DEF Types, Knows
<1>4. HangingUp'
  BY <1>1, Zenon DEF HangingUp
<1>5. AnswersFit' /\ CallsFitGadget'
  BY <1>1, Zenon DEF AnswersFit, CallsFitGadget
<1>6. Waiting' = Waiting /\ (Owing' <=> Owing)
  BY <1>1, Zenon DEF Waiting, Owing
<1>7. HostsOwn' /\ Ep0InStep'
  BY <1>1, <1>6, Zenon DEF HostsOwn, Ep0InStep
<1> QED BY <1>3, <1>4, <1>5, <1>7

\* An exception changes nothing else.
LEMMA ThrowsStep ==
  ASSUME UsbInv, NEW cause \in {"ioctl", "misuse", "rate"}, Throws(cause),
         cause = "misuse" => refused,
         cause = "rate" => /\ model = "OnlineStation" /\ main.req.name = "rate"
                           /\ main.req.arg = "unlisted"
  PROVE  UsbInv'
<1> USE DEF UsbInv
<1>1. died' = cause /\ UNCHANGED <<model, queue, ep0, main, threads, ep1, host, drops, refused>>
  BY Zenon DEF Throws
<1>2. Types' /\ HangingUp' /\ Knows'
  BY <1>1, Zenon DEF Types, HangingUp, Knows
<1>3. AnswersFit' /\ CallsFitGadget'
  BY <1>1, Zenon DEF AnswersFit, CallsFitGadget
<1>4. HostsOwn' /\ Ep0InStep'
  BY <1>1, Zenon DEF HostsOwn, Ep0InStep, Waiting, Owing
<1> QED BY <1>2, <1>3, <1>4

\* When a step of main ends the process, either the kernel failed a call that
\* fits, or the request is one of those named.
LEMMA MainThrows ==
  ASSUME UsbInv, died = "no", MainThread, died' # "no"
  PROVE  UsbInv'
<1> USE DEF UsbInv
<1>1. \/ Throws("ioctl")
      \/ main.pc = "ep0_read" /\ Ep0Fails({"out"})
      \/ main.pc = "rate" /\ main.req.arg = "unlisted" /\ Throws("rate")
      \/ main.pc = "answer" /\ main.req.dir = "in" /\ Ep0Fails({"in"})
      \/ main.pc = "stall" /\ Ep0Fails({"in", "out"})
  BY Zenon DEF MainThread, EventFetch, Ep0Read, ProcessControlPacket, EnableEndpoint,
     Configure, MainHangsUp, ShowRate, Answer, Ep0Stall
<1>2. CASE main.pc = "ep0_read" /\ Ep0Fails({"out"})
  <2>1. ~refused => ep0 = "out"
    BY <1>2, Zenon DEF Ep0InStep, Owing, Knows
  <2> QED BY <1>2, <2>1, ThrowsStep, Zenon DEF Ep0Fails
<1>3. CASE main.pc = "answer" /\ main.req.dir = "in" /\ Ep0Fails({"in"})
  <2>1. ~refused => ep0 = "in"
    BY <1>3, Zenon DEF Ep0InStep, Owing
  <2> QED BY <1>3, <2>1, ThrowsStep, Zenon DEF Ep0Fails
<1>4. CASE main.pc = "stall" /\ Ep0Fails({"in", "out"})
  <2>1. ~refused => ep0 = "in"
    BY <1>4, Zenon DEF Ep0InStep, Owing, Knows
  <2> QED BY <1>4, <2>1, ThrowsStep, Zenon DEF Ep0Fails
<1>5. CASE main.pc = "rate" /\ main.req.arg = "unlisted" /\ Throws("rate")
  BY <1>5, ThrowsStep, Zenon DEF Knows
<1>6. CASE Throws("ioctl")
  BY <1>6, ThrowsStep, Zenon
<1> QED BY <1>1, <1>2, <1>3, <1>4, <1>5, <1>6

\* Nothing happens.
LEMMA StutterStep ==
  ASSUME UsbInv, UNCHANGED vars
  PROVE  UsbInv'
<1> USE DEF UsbInv, vars
<1>1. Types' /\ HangingUp' /\ Knows'
  BY Zenon DEF Types, HangingUp, Knows
<1>2. AnswersFit' /\ CallsFitGadget'
  BY Zenon DEF AnswersFit, CallsFitGadget
<1>3. HostsOwn' /\ Ep0InStep'
  BY Zenon DEF HostsOwn, Ep0InStep, Waiting, Owing
<1> QED BY <1>1, <1>2, <1>3

\* Every step keeps the invariant.
LEMMA NextPreserves == UsbInv /\ [Next]_vars => UsbInv'
<1> SUFFICES ASSUME UsbInv, [Next]_vars PROVE UsbInv'
  OBVIOUS
<1>1. CASE MainNext
  <2>1. CASE died' = "no"
    BY <1>1, <2>1, EventFetchStep, Ep0ReadStep, ProcessStep, EnableEndpointStep, ToAnswerStep,
       AnswerStep, Ep0StallStep, Zenon DEF MainNext, MainThread
  <2>2. CASE died' # "no"
    BY <1>1, <2>2, MainThrows, Zenon DEF MainNext
  <2> QED BY <2>1, <2>2
<1>2. CASE Ep1Next
  BY <1>2, Ep1Step, Zenon DEF Ep1Next
<1>3. CASE HostNext
  BY <1>3, SendRequestStep, BusStep, SendEp1Step, Zenon DEF HostNext, HostStep
<1>4. CASE WaitForHost \/ UNCHANGED vars
  BY <1>4, StutterStep, Zenon DEF WaitForHost
<1>5. CASE WaitFails
  BY <1>5, ThrowsStep, Zenon DEF WaitFails
<1> QED BY <1>1, <1>2, <1>3, <1>4, <1>5, Zenon DEF Next

-----------------------------------------------------------------------------
(* The theorems.                                                           *)

\* The invariant holds always.
LEMMA UsbInvariant == Spec => []UsbInv
BY InitEstablishes, NextPreserves, PTL DEF Spec

\* The main thread never owes an answer to any request but the one that waits
\* on endpoint 0, until an OUT request it does not support is transferred.
THEOREM AnswersInStep == Spec => []Ep0InStep
<1>1. UsbInv => Ep0InStep
  BY DEF UsbInv
<1> QED BY <1>1, UsbInvariant, PTL

\* Repeated configurations, hang-ups, and bus events in the middle of a request,
\* in any number, never make main call what the gadget refuses; the exception is
\* an OUT request that is not supported.  Of a rate the process dies only on
\* OnlineStation, and of one that is not listed.
THEOREM CallsAreInOrder == Spec => []CallsFitGadget
<1>1. UsbInv => CallsFitGadget
  BY DEF UsbInv
<1> QED BY <1>1, UsbInvariant, PTL

\* An IN request is transferred exactly when the modem supports it.
THEOREM AnswersAsSupported == Spec => []AnswersFit
<1>1. UsbInv => AnswersFit
  BY DEF UsbInv
<1> QED BY <1>1, UsbInvariant, PTL

\* handle_disconnect() is never run by two threads: the assumption the model
\* of the session makes.
THEOREM HangsUpAlone == Spec => []OneHangUp
<1>1. UsbInv => OneHangUp
  BY Zenon DEF UsbInv, HangingUp, OneHangUp
<1> QED BY <1>1, UsbInvariant, PTL

=============================================================================
