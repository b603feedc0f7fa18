----------------------------- MODULE UsbControl -----------------------------
(***************************************************************************)
(* The control endpoint of the USB device (stm32-otgfs/usb/Device), from   *)
(* the first bus reset and the enumeration behind it on.                   *)
(*                                                                         *)
(*  - the host asks one request after the other.  It may also give up a    *)
(*    request by asking the next (Aborts) and reset the bus (Resets),      *)
(*    MaxRude times in all;                                                *)
(*  - the core (OTG_FS) answers the host by itself, from what its          *)
(*    registers and FIFOs hold, and raises interrupts;                     *)
(*  - IRQHandler, of the highest priority, is one step;                    *)
(*  - the thread is Device::Task: HandleControl carries a request out,     *)
(*    with callbacks that may suspend it, and ControlSuccess or            *)
(*    ControlStall follow, step by step.                                   *)
(*                                                                         *)
(* Data is counted in units, of which a packet has PacketSize; a unit is   *)
(* the identity of the request it answers.                                 *)
(***************************************************************************)
EXTENDS Naturals, Sequences

CONSTANTS
  Requests,        \* what the host may ask for
  PacketSize,      \* units in a packet of endpoint 0, and in ctrl.data
  FifoSize,        \* units in the transmit FIFO of endpoint 0
  Prompt,          \* no SETUP arrives while the device is busy with what came before
  Suspends,        \* may callbacks suspend HandleControl?
  Aborts, Resets,  \* may the host do this?
  MaxRude          \* bound: how often

\* answer: the length of the data the device has; sent: units the host sends if it
\* has something to send; op and value: what carrying it out changes.
Request == [dir : {"in", "out"}, len : Nat, sent : Nat, supported : BOOLEAN, answer : Nat,
            op : {"none", "address", "configure"}, value : Nat]

ASSUME UsbAssumption ==
  /\ Requests \subseteq Request
  /\ PacketSize \in Nat \ {0} /\ FifoSize \in Nat /\ MaxRude \in Nat
  /\ Prompt \in BOOLEAN /\ Suspends \in BOOLEAN /\ Aborts \in BOOLEAN /\ Resets \in BOOLEAN

VARIABLES
  host,   \* stage, req, id, got: the request under way; result: of the last one;
          \* address, config: what the device should have by now
  dev,    \* registers of the core, and members of Device that the handler shares
  pc,     \* next step of the thread
  setup,  \* HandleControl: the request being handled
  send,   \* ControlSuccess: the packet it is about to transmit
  rude,   \* how often the host was rude
  times   \* history: how often the host's request was carried out

thread == <<pc, setup, send>>
vars == <<host, dev, thread, rude, times>>

\* Bound of times: once and more often must differ, once more need not.
MaxTimes == 2

\* A SETUP packet: a request and its identity, 0 if no host ever sent it.
Ids == 1..3
Packet(r, id) == [req |-> r, id |-> id]

CT == INSTANCE ControlTransfer
        WITH stage <- IF host.stage = "idle" THEN "idle" ELSE "pending",
             request <- host.req,
             result <- IF host.result # "answered" THEN [kind |-> host.result, length |-> 0]
                       ELSE [kind |-> IF \A i \in 1..Len(host.got) : host.got[i] = host.id
                                      THEN "answered" ELSE "wrong data",
                             length |-> Len(host.got)]

Init ==
  \E r \in Requests :
    /\ host = [stage |-> "idle", req |-> r, id |-> 1, got |-> <<>>, result |-> "none",
               address |-> 0, config |-> 0]
    /\ dev = [rxFifo |-> <<>>, txFifo |-> <<>>, usbrst |-> FALSE,
              stup |-> FALSE, xfrcOut |-> FALSE, xfrcIn |-> FALSE,
              setupCount |-> 3, received |-> 0, outReady |-> FALSE, outStall |-> FALSE,
              inSize |-> 0, inReady |-> FALSE, inStall |-> FALSE,
              data |-> Packet(r, 0), setup |-> Packet(r, 0), ctrlState |-> "Idle",
              txRemain |-> <<>>, hasResult |-> FALSE, tasks |-> FALSE,
              address |-> 0, state |-> "Default", config |-> 0, failed |-> FALSE]
    /\ pc = "wait" /\ setup = Packet(r, 0) /\ send = <<>>
    /\ rude = 0 /\ times = 0
-----------------------------------------------------------------------------
(* Commands of the core (hw/USB).                                          *)

Least(m, n) == IF m < n THEN m ELSE n
Left(s, n)  == SubSeq(s, 1, Least(n, Len(s)))
Rest(s, n)  == SubSeq(s, n + 1, Len(s))

\* Ready for SETUP packets; NAK stays as it is.
ConfigureSetup(d) == [d EXCEPT !.setupCount = 3]

\* Writing the size for a packet clears the count of SETUP packets.
ReceivePacket(d) == [d EXCEPT !.setupCount = 0, !.received = 0, !.outReady = TRUE]

TransmitPacket(d, n) == [d EXCEPT !.inSize = n, !.inReady = TRUE]

TxFifoWrite(d, s) == [d EXCEPT !.txFifo = Left(d.txFifo \o s, FifoSize)]

\* Stalling an endpoint disables it.  The FIFO keeps what it has.
StallOut(d) == [d EXCEPT !.outReady = FALSE, !.outStall = TRUE]
StallIn(d)  == [d EXCEPT !.inReady = FALSE, !.inStall = TRUE]
Reinitialize(d) == [d EXCEPT !.outReady = FALSE, !.inReady = FALSE]

ControlSetup(d) == [ConfigureSetup(d) EXCEPT !.ctrlState = "Idle"]
ControlStall(d) == [ControlSetup(StallIn(StallOut(d))) EXCEPT !.ctrlState = "Stall"]

\* HandleControl is wanted.
Process(d) == [d EXCEPT !.ctrlState = "Processing", !.tasks = TRUE]
-----------------------------------------------------------------------------
(* IRQHandler: at most one entry of the receive FIFO, then the flags.      *)

Interrupt == dev.rxFifo # <<>> \/ dev.usbrst \/ dev.stup \/ dev.xfrcOut \/ dev.xfrcIn

\* SETUP packets are always read to the start of ctrl.data.  Data for endpoint 0 runs
\* into the assertion of Device::Out.
HandleRx(d) ==
  IF d.rxFifo = <<>> THEN d ELSE
  LET e == Head(d.rxFifo)
      r == [d EXCEPT !.rxFifo = Tail(d.rxFifo)] IN
  CASE e.sts = "SetupRx"       -> [r EXCEPT !.ctrlState = "Idle", !.data = e.packet]
    [] e.sts = "SetupComplete" -> [r EXCEPT !.stup = TRUE]
    [] e.sts = "Rx"            -> [r EXCEPT !.failed = e.bcnt > 0]
    [] e.sts = "RxComplete"    -> [r EXCEPT !.xfrcOut = TRUE]

\* Mutant: endpoint 0 is not prepared for SETUP packets.
HandleResetNoSetup(d) ==
  IF ~d.usbrst THEN d
  ELSE Reinitialize([d EXCEPT !.usbrst = FALSE, !.state = "Default", !.address = 0,
                              !.ctrlState = "Idle"])

HandleReset(d) ==
  IF ~d.usbrst THEN d
  ELSE ControlSetup(Reinitialize([d EXCEPT !.usbrst = FALSE, !.state = "Default", !.address = 0]))

\* Mutant: endpoint 0 is not prepared for the next SETUP packet.
HandleInNoSetup(d) ==
  LET r == [d EXCEPT !.xfrcIn = FALSE] IN
  CASE d.xfrcIn /\ d.ctrlState = "StatusTx" -> [r EXCEPT !.ctrlState = "Idle"]
    [] d.xfrcIn /\ d.ctrlState = "DataTx" /\ d.txRemain # <<>> ->
         LET p == Left(d.txRemain, PacketSize) IN
         TxFifoWrite(TransmitPacket([r EXCEPT !.txRemain = Rest(@, PacketSize)], Len(p)), p)
    [] d.xfrcIn /\ d.ctrlState = "DataTx" /\ d.txRemain = <<>> ->
         [ReceivePacket(r) EXCEPT !.ctrlState = "StatusRx"]
    [] OTHER -> r

HandleIn(d) ==
  LET r == [d EXCEPT !.xfrcIn = FALSE] IN
  CASE d.xfrcIn /\ d.ctrlState = "StatusTx" -> ControlSetup(r)
    [] d.xfrcIn /\ d.ctrlState = "DataTx" /\ d.txRemain # <<>> ->
         LET p == Left(d.txRemain, PacketSize) IN
         TxFifoWrite(TransmitPacket([r EXCEPT !.txRemain = Rest(@, PacketSize)], Len(p)), p)
    [] d.xfrcIn /\ d.ctrlState = "DataTx" /\ d.txRemain = <<>> ->
         [ReceivePacket(r) EXCEPT !.ctrlState = "StatusRx"]
    [] OTHER -> r

\* The entry of ctrl.setupBuffer that the count points at; the first one is what was
\* read last, the others never hold a SETUP packet.
SetupRead(d, junk) == IF d.setupCount \in {0, 1} THEN junk ELSE d.data

StartRequest(d, p) ==
  LET r == [d EXCEPT !.setup = p] IN
  CASE p.req.dir = "out" /\ p.req.len > PacketSize   -> ControlStall(r)
    [] p.req.dir = "out" /\ p.req.len \in 1..PacketSize ->
         [ReceivePacket(r) EXCEPT !.ctrlState = "DataRx"]
    [] p.req.dir = "in" \/ p.req.len = 0             -> Process(r)

HandleOut(d, junk) ==
  LET r == [d EXCEPT !.stup = FALSE, !.xfrcOut = FALSE] IN
  CASE d.stup -> StartRequest(r, SetupRead(d, junk))
    [] ~d.stup /\ d.xfrcOut /\ d.ctrlState = "DataRx" ->
         Process(IF d.received = d.setup.req.len THEN r ELSE ControlStall(r))
    [] ~d.stup /\ d.xfrcOut /\ d.ctrlState = "StatusRx" -> ControlSetup(r)
    [] OTHER -> r

IRQHandler ==
  /\ Interrupt /\ ~dev.failed
  /\ \E r \in Requests :
       dev' = HandleOut(HandleIn(HandleReset(HandleRx(dev))), Packet(r, 0))
  /\ UNCHANGED <<host, thread, rude, times>>
-----------------------------------------------------------------------------
(* Task and HandleControl.                                                 *)

Goto(from, to) == ~dev.failed /\ pc = from /\ pc' = to

\* Mutant: the tasks taken are not cleared.
TakeTasksKeep ==
  /\ Goto("wait", "start")
  /\ dev.tasks
  /\ UNCHANGED <<host, dev, setup, send, rude, times>>

\* await_signal(tasks), and taking them.
TakeTasks ==
  /\ Goto("wait", "start")
  /\ dev.tasks
  /\ dev' = [dev EXCEPT !.tasks = FALSE]
  /\ UNCHANGED <<host, setup, send, rude, times>>

StartControl ==
  /\ Goto("start", "handle")
  /\ setup' = dev.setup
  /\ dev' = [dev EXCEPT !.hasResult = FALSE]
  /\ UNCHANGED <<host, send, rude, times>>

SetAddress(d, a) ==
  [d EXCEPT !.address = a,
            !.state = CASE d.state = "Default" /\ a # 0   -> "Addressed"
                        [] d.state = "Addressed" /\ a = 0 -> "Default"
                        [] OTHER -> d.state]

SetConfiguration(d, c) ==
  CASE c # 0 /\ d.state \in {"Addressed", "Configured"} ->
         [d EXCEPT !.config = c, !.state = "Configured"]
    [] c = 0 /\ d.state = "Configured" -> [d EXCEPT !.config = 0, !.state = "Addressed"]
    [] OTHER -> d

\* The request is carried out.  It may be suspended afterwards, in a callback or in
\* ConfigureEndpoints, before it calls ControlSuccess, if it does.
CarryOut ==
  /\ Goto("handle", IF setup.req.supported THEN "check" ELSE "finish")
  /\ dev' = CASE setup.req.op = "address"   -> SetAddress(dev, setup.req.value)
              [] setup.req.op = "configure" -> SetConfiguration(dev, setup.req.value)
              [] setup.req.op = "none"      -> dev
  /\ times' = IF setup.id = host.id /\ host.stage # "idle" THEN Least(times + 1, MaxTimes) ELSE times
  /\ UNCHANGED <<host, setup, send, rude>>

(* ControlSuccess.                                                         *)

\* hasResult is FALSE: each request calls ControlSuccess once.
Check ==
  /\ \/ dev.ctrlState = "Processing" /\ Goto("check", "commit")
     \/ dev.ctrlState # "Processing" /\ Goto("check", "finish")
  /\ UNCHANGED <<host, dev, setup, send, rude, times>>

\* Mutant: everything is sent as one packet.
CommitWhole ==
  /\ Goto("commit", "transmit")
  /\ send' = Left([i \in 1..setup.req.answer |-> setup.id], dev.setup.req.len)
  /\ dev' = [dev EXCEPT !.hasResult = TRUE,
                        !.ctrlState = IF dev.setup.req.dir = "out" THEN "StatusTx" ELSE "DataTx"]
  /\ UNCHANGED <<host, setup, rude, times>>

\* Data that fits is copied to ctrl.data, over the SETUP packet.
Commit ==
  LET data == IF dev.setup.req.dir = "out" THEN <<>>
              ELSE Left([i \in 1..setup.req.answer |-> setup.id], dev.setup.req.len) IN
  /\ Goto("commit", "transmit")
  /\ send' = Left(data, PacketSize)
  /\ dev' = [dev EXCEPT
       !.hasResult = TRUE,
       !.ctrlState = IF dev.setup.req.dir = "out" THEN "StatusTx" ELSE "DataTx",
       !.txRemain = IF dev.setup.req.dir = "out" THEN @ ELSE Rest(data, PacketSize),
       !.data = IF Len(data) \in 1..PacketSize THEN [@ EXCEPT !.id = 0] ELSE @]
  /\ UNCHANGED <<host, setup, rude, times>>

Transmit ==
  /\ Goto("transmit", "write")
  /\ dev' = TransmitPacket(dev, Len(send))
  /\ UNCHANGED <<host, setup, send, rude, times>>

Write ==
  /\ Goto("write", "finish")
  /\ dev' = TxFifoWrite(dev, send)
  /\ send' = <<>>
  /\ UNCHANGED <<host, setup, rude, times>>

(* The end of HandleControl, with ControlStall if there is no result.      *)

\* Mutant: a request that nobody answered is handled again.
FinishAgain ==
  /\ \/ dev.hasResult  /\ Goto("finish", "wait")
     \/ ~dev.hasResult /\ Goto("finish", "start")
  /\ UNCHANGED <<host, dev, setup, send, rude, times>>

\* Mutant: tasks are cleared when they are done.
FinishClears ==
  /\ \/ dev.hasResult  /\ Goto("finish", "wait")
     \/ ~dev.hasResult /\ Goto("finish", "stallOut")
  /\ dev' = [dev EXCEPT !.tasks = FALSE]
  /\ UNCHANGED <<host, setup, send, rude, times>>

Finish ==
  /\ \/ dev.hasResult  /\ Goto("finish", "wait")
     \/ ~dev.hasResult /\ Goto("finish", "stallOut")
  /\ UNCHANGED <<host, dev, setup, send, rude, times>>

Stall ==
  /\ \/ Goto("stallOut", "stallIn") /\ dev' = StallOut(dev)
     \/ Goto("stallIn", "rearm")    /\ dev' = StallIn(dev)
     \/ Goto("rearm", "idle")       /\ dev' = ConfigureSetup(dev)
     \/ Goto("idle", "stalled")     /\ dev' = [dev EXCEPT !.ctrlState = "Idle"]
     \/ Goto("stalled", "wait")     /\ dev' = [dev EXCEPT !.ctrlState = "Stall"]
  /\ UNCHANGED <<host, setup, send, rude, times>>

Thread == TakeTasks \/ StartControl \/ CarryOut
          \/ Check \/ Commit \/ Transmit \/ Write \/ Finish \/ Stall
-----------------------------------------------------------------------------
(* The host, and what the core does for it.                                *)

\* The device has work to do at once: all that it has to do, unless a callback has
\* suspended HandleControl.
Busy == Interrupt \/ IF Suspends THEN pc \notin {"wait", "handle", "check"}
                                 ELSE pc # "wait" \/ dev.tasks

\* The order in which hosts enumerate: address, then configuration.
InOrder(r) == /\ r.op = "address"   => host.config = 0
              /\ r.op = "configure" => host.address # 0

\* The core always takes a SETUP packet: it ends a stall and any transfer under way.
Ask ==
  /\ \/ host.stage = "idle" /\ UNCHANGED rude
     \/ host.stage # "idle" /\ Aborts /\ rude < MaxRude /\ rude' = rude + 1
  /\ Prompt => ~Busy
  /\ ~dev.usbrst
  /\ \E r \in Requests :
       LET id == (host.id % 3) + 1 IN
       /\ InOrder(r)
       /\ host' = [host EXCEPT
            !.stage = CASE r.len = 0 -> "statusIn"
                        [] r.len > 0 /\ r.dir = "in"  -> "dataIn"
                        [] r.len > 0 /\ r.dir = "out" -> "dataOut",
            !.req = r, !.id = id, !.got = <<>>, !.result = "none"]
       /\ dev' = [dev EXCEPT
            !.rxFifo = @ \o <<[sts |-> "SetupRx", packet |-> Packet(r, id)],
                              [sts |-> "SetupComplete"]>>,
            !.setupCount = IF @ = 0 THEN 0 ELSE @ - 1,
            !.outReady = FALSE, !.inReady = FALSE, !.outStall = FALSE, !.inStall = FALSE]
  /\ times' = 0
  /\ UNCHANGED thread

\* The request under way ends.
Ends(h, result) ==
  [h EXCEPT !.stage = "idle", !.result = result,
            !.address = IF result = "answered" /\ h.req.op = "address" THEN h.req.value ELSE @,
            !.config = IF result = "answered" /\ h.req.op = "configure" THEN h.req.value ELSE @]

\* A stalled endpoint tells the host that the request is refused.
SeeStall ==
  /\ \/ host.stage \in {"dataIn", "statusIn"} /\ dev.inStall
     \/ host.stage \in {"dataOut", "statusOut"} /\ dev.outStall
  /\ host' = Ends(host, "refused")
  /\ UNCHANGED <<dev, thread, rude, times>>

\* The host takes a packet: more data, the last of it, or the status.
TakePacket ==
  /\ host.stage \in {"dataIn", "statusIn"}
  /\ ~dev.inStall /\ dev.inReady /\ Len(dev.txFifo) >= dev.inSize
  /\ LET n == dev.inSize
         got == host.got \o Left(dev.txFifo, n) IN
     /\ dev' = [dev EXCEPT !.inReady = FALSE, !.xfrcIn = TRUE, !.txFifo = Rest(@, n)]
     /\ \/ /\ host.stage = "dataIn" /\ n = PacketSize /\ Len(got) < host.req.len
           /\ host' = [host EXCEPT !.got = got]
        \/ /\ host.stage = "dataIn" /\ (n < PacketSize \/ Len(got) >= host.req.len)
           /\ host' = [host EXCEPT !.got = got, !.stage = "statusOut"]
        \/ /\ host.stage = "statusIn"
           /\ host' = Ends(host, IF n = 0 THEN "answered" ELSE "error")
  /\ UNCHANGED <<thread, rude, times>>

\* The host sends its data, or the empty packet that confirms what it got.
SendPacket ==
  /\ host.stage \in {"dataOut", "statusOut"}
  /\ ~dev.outStall /\ dev.outReady
  /\ LET n == IF host.stage = "dataOut" THEN Least(host.req.sent, PacketSize) ELSE 0 IN
     dev' = [dev EXCEPT !.outReady = FALSE, !.received = n,
               !.rxFifo = @ \o <<[sts |-> "Rx", bcnt |-> n], [sts |-> "RxComplete"]>>]
  /\ host' = IF host.stage = "dataOut" THEN [host EXCEPT !.stage = "statusIn"]
             ELSE Ends(host, "answered")
  /\ UNCHANGED <<thread, rude, times>>

\* The bus is reset: the host starts from scratch.
ResetBus ==
  /\ Resets /\ rude < MaxRude /\ rude' = rude + 1
  /\ ~dev.usbrst /\ (Prompt => ~Interrupt)
  /\ host' = [host EXCEPT !.stage = "idle", !.got = <<>>, !.result = "none",
                          !.address = 0, !.config = 0]
  /\ dev' = [dev EXCEPT !.usbrst = TRUE]
  /\ times' = 0
  /\ UNCHANGED thread
-----------------------------------------------------------------------------
Next == IRQHandler \/ Thread \/ Ask \/ SeeStall \/ TakePacket \/ SendPacket \/ ResetBus

Spec == Init /\ [][Next]_vars

\* The host keeps polling for what it waits for; interrupts are taken, and callbacks
\* come back.
FairSpec == /\ Spec
            /\ WF_vars(IRQHandler) /\ WF_vars(Thread)
            /\ WF_vars(SeeStall \/ TakePacket \/ SendPacket)
-----------------------------------------------------------------------------
TypeOK ==
  /\ host.stage \in {"idle", "dataIn", "dataOut", "statusIn", "statusOut"}
  /\ host.req \in Requests /\ host.id \in Ids /\ Len(host.got) <= host.req.len
  /\ host.result \in {"none", "answered", "refused", "error"}
  /\ Len(dev.txFifo) <= FifoSize /\ dev.setupCount \in 0..3
  /\ dev.inSize \in 0..PacketSize /\ dev.received \in 0..PacketSize
  /\ dev.ctrlState \in {"Idle", "DataRx", "Processing", "DataTx", "StatusRx", "StatusTx", "Stall"}
  /\ dev.state \in {"Default", "Addressed", "Configured"}
  /\ Len(send) <= PacketSize

\* Every supported request is carried out once and answered with its own data, in
\* full; any other is refused; none waits for ever.
RefinesTransfer == CT!FairSpec

\* The request taken from setupBuffer is one that the host sent.
SetupReceived == dev.ctrlState \in {"DataRx", "Processing"} => dev.setup.id # 0

\* ControlSuccess answers the request that it was called for.
AnswersItsRequest == pc \in {"commit", "transmit", "write"} => dev.setup = setup

\* What the host gets belongs to the request it asked.
AnswersOwnData ==
  host.result = "answered" => \A i \in 1..Len(host.got) : host.got[i] = host.id

\* HandleControl is not called for a request that was refused.
RefusedIsOver == dev.tasks => ~dev.inStall

\* A request waiting to be processed is in the hands of HandleControl, or will be.
NoRequestLost == dev.ctrlState = "Processing" => dev.tasks \/ pc # "wait"

\* No assertion fails.
NoAssertion == ~dev.failed

\* Whatever came in between, a request that the host waits for comes to an end.
RequestsEnd == host.stage # "idle" ~> host.stage = "idle"
=============================================================================
