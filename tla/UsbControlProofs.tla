-------------------------- MODULE UsbControlProofs --------------------------
(***************************************************************************)
(* No request that is due to be processed is forgotten, whatever the       *)
(* requests, and whenever the host asks, gives up or resets the bus.       *)
(***************************************************************************)
EXTENDS UsbControl, SequenceTheorems, TLAPS

SetupPackets == [req : Requests, id : 0..3]

\* What the receive FIFO holds.
Entries == [sts : {"SetupRx"}, packet : SetupPackets] \cup [sts : {"SetupComplete", "RxComplete"}]
           \cup [sts : {"Rx"}, bcnt : Nat]

HostOK(h) == {"id", "req"} \subseteq DOMAIN h /\ h.id \in Ids /\ h.req \in Requests

\* The members of dev that the proof looks at.
DeviceOK(d) ==
  /\ {"rxFifo", "data", "setup", "ctrlState", "tasks", "hasResult"} \subseteq DOMAIN d
  /\ d.rxFifo \in Seq(Entries)
  /\ d.data \in SetupPackets /\ d.setup \in SetupPackets
  /\ d.tasks \in BOOLEAN /\ d.hasResult \in BOOLEAN

\* From d to e the handler may ask for HandleControl, but neither asks for nothing nor
\* takes a wish back.
Careful(d, e) ==
  /\ e.hasResult = d.hasResult
  /\ d.tasks => e.tasks
  /\ e.ctrlState = "Processing" => e.tasks \/ d.ctrlState = "Processing"

\* Where the thread is while it still has to look at, answer or refuse a request.
InHand == \/ pc \in {"start", "handle", "check", "commit", "stallOut", "stallIn", "rearm", "idle"}
          \/ pc = "finish" /\ ~dev.hasResult

IInv == /\ HostOK(host) /\ DeviceOK(dev) /\ setup \in SetupPackets
        /\ dev.ctrlState = "Processing" => dev.tasks \/ InHand
        /\ pc = "handle" => ~dev.hasResult
-----------------------------------------------------------------------------
(* The commands of the core and the parts of IRQHandler.                   *)

LEMMA CarefulTrans ==
  ASSUME NEW a, NEW b, NEW c, Careful(a, b), Careful(b, c)
  PROVE  Careful(a, c)
BY DEF Careful

LEMMA SetupIsCareful ==
  ASSUME NEW d, DeviceOK(d)
  PROVE  /\ DeviceOK(ControlSetup(d)) /\ Careful(d, ControlSetup(d))
         /\ DeviceOK(ControlStall(d)) /\ Careful(d, ControlStall(d))
BY DEF DeviceOK, Careful, ControlSetup, ControlStall, ConfigureSetup, StallIn, StallOut

LEMMA ProcessIsCareful ==
  ASSUME NEW d, DeviceOK(d)
  PROVE  DeviceOK(Process(d)) /\ Careful(d, Process(d))
BY DEF DeviceOK, Careful, Process

LEMMA HandleRxIsCareful ==
  ASSUME NEW d, DeviceOK(d)
  PROVE  DeviceOK(HandleRx(d)) /\ Careful(d, HandleRx(d))
<1> DEFINE e == Head(d.rxFifo)
           r == [d EXCEPT !.rxFifo = Tail(d.rxFifo)]
<1>1. CASE d.rxFifo = <<>>
  BY <1>1 DEF HandleRx, Careful
<1>2. CASE d.rxFifo # <<>>
  <2>1. e \in Entries /\ Tail(d.rxFifo) \in Seq(Entries)
    BY <1>2 DEF DeviceOK
  <2>2. DeviceOK(r) /\ Careful(d, r)
    BY <2>1 DEF DeviceOK, Careful
  <2> HIDE DEF r, e
  <2>3. HandleRx(d) = CASE e.sts = "SetupRx"       -> [r EXCEPT !.ctrlState = "Idle", !.data = e.packet]
                        [] e.sts = "SetupComplete" -> [r EXCEPT !.stup = TRUE]
                        [] e.sts = "Rx"            -> [r EXCEPT !.failed = e.bcnt > 0]
                        [] e.sts = "RxComplete"    -> [r EXCEPT !.xfrcOut = TRUE]
    BY <1>2 DEF HandleRx, e, r
  <2>4. CASE e.sts = "SetupRx"
    <3>1. e.packet \in SetupPackets
      BY <2>1, <2>4 DEF Entries
    <3>2. HandleRx(d) = [r EXCEPT !.ctrlState = "Idle", !.data = e.packet]
      BY <2>3, <2>4
    <3> QED BY <2>2, <3>1, <3>2 DEF DeviceOK, Careful
  <2>5. CASE e.sts = "SetupComplete"
    <3>1. HandleRx(d) = [r EXCEPT !.stup = TRUE]
      BY <2>3, <2>5
    <3> QED BY <2>2, <3>1 DEF DeviceOK, Careful
  <2>6. CASE e.sts = "Rx"
    <3>1. HandleRx(d) = [r EXCEPT !.failed = e.bcnt > 0]
      BY <2>3, <2>6
    <3> QED BY <2>2, <3>1 DEF DeviceOK, Careful
  <2>7. CASE e.sts = "RxComplete"
    <3>1. HandleRx(d) = [r EXCEPT !.xfrcOut = TRUE]
      BY <2>3, <2>7
    <3> QED BY <2>2, <3>1 DEF DeviceOK, Careful
  <2> QED BY <2>1, <2>4, <2>5, <2>6, <2>7 DEF Entries
<1> QED BY <1>1, <1>2

LEMMA HandleResetIsCareful ==
  ASSUME NEW d, DeviceOK(d)
  PROVE  DeviceOK(HandleReset(d)) /\ Careful(d, HandleReset(d))
<1> DEFINE r == Reinitialize([d EXCEPT !.usbrst = FALSE, !.state = "Default", !.address = 0])
<1>1. DeviceOK(r) /\ Careful(d, r)
  BY DEF DeviceOK, Careful, Reinitialize
<1>2. DeviceOK(ControlSetup(r)) /\ Careful(d, ControlSetup(r))
  <2> HIDE DEF r
  <2> QED BY <1>1, SetupIsCareful, CarefulTrans
<1>3. HandleReset(d) = d \/ HandleReset(d) = ControlSetup(r)
  BY DEF HandleReset
<1>4. Careful(d, d)
  BY DEF Careful
<1> HIDE DEF r
<1> QED BY <1>2, <1>3, <1>4

LEMMA HandleInIsCareful ==
  ASSUME NEW d, DeviceOK(d)
  PROVE  DeviceOK(HandleIn(d)) /\ Careful(d, HandleIn(d))
<1> DEFINE r == [d EXCEPT !.xfrcIn = FALSE]
           p == Left(d.txRemain, PacketSize)
           more == TxFifoWrite(TransmitPacket([r EXCEPT !.txRemain = Rest(@, PacketSize)], Len(p)), p)
           status == [ReceivePacket(r) EXCEPT !.ctrlState = "StatusRx"]
<1>1. DeviceOK(r) /\ Careful(d, r)
  BY DEF DeviceOK, Careful
<1> HIDE DEF p
<1>2. DeviceOK(more) /\ Careful(d, more)
  BY DEF DeviceOK, Careful, TxFifoWrite, TransmitPacket
<1>3. DeviceOK(status) /\ Careful(d, status)
  BY DEF DeviceOK, Careful, ReceivePacket
<1>4. \/ HandleIn(d) = ControlSetup(r) \/ HandleIn(d) = more
      \/ HandleIn(d) = status \/ HandleIn(d) = r
  BY DEF HandleIn, p
<1> HIDE DEF r, more, status
<1>5. DeviceOK(ControlSetup(r)) /\ Careful(d, ControlSetup(r))
  BY <1>1, SetupIsCareful, CarefulTrans
<1> QED BY <1>1, <1>2, <1>3, <1>4, <1>5

LEMMA StartRequestIsCareful ==
  ASSUME NEW d, DeviceOK(d), NEW p \in SetupPackets
  PROVE  DeviceOK(StartRequest(d, p)) /\ Careful(d, StartRequest(d, p))
<1> DEFINE r == [d EXCEPT !.setup = p]
           receive == [ReceivePacket(r) EXCEPT !.ctrlState = "DataRx"]
<1>1. DeviceOK(r) /\ Careful(d, r)
  BY DEF DeviceOK, Careful
<1>2. DeviceOK(receive) /\ Careful(d, receive)
  BY DEF DeviceOK, Careful, ReceivePacket
<1>3. \/ p.req.dir = "out" /\ p.req.len > PacketSize
      \/ p.req.dir = "out" /\ p.req.len \in 1..PacketSize
      \/ p.req.dir = "in" \/ p.req.len = 0
  BY UsbAssumption DEF SetupPackets, Request
<1>4. \/ StartRequest(d, p) = ControlStall(r) \/ StartRequest(d, p) = receive
      \/ StartRequest(d, p) = Process(r)
  BY <1>3 DEF StartRequest
<1> HIDE DEF r, receive
<1>5. /\ DeviceOK(ControlStall(r)) /\ Careful(d, ControlStall(r))
      /\ DeviceOK(Process(r)) /\ Careful(d, Process(r))
  BY <1>1, SetupIsCareful, ProcessIsCareful, CarefulTrans
<1> QED BY <1>2, <1>4, <1>5

LEMMA HandleOutIsCareful ==
  ASSUME NEW d, DeviceOK(d), NEW junk \in SetupPackets
  PROVE  DeviceOK(HandleOut(d, junk)) /\ Careful(d, HandleOut(d, junk))
<1> DEFINE r == [d EXCEPT !.stup = FALSE, !.xfrcOut = FALSE]
           p == SetupRead(d, junk)
<1>1. DeviceOK(r) /\ Careful(d, r)
  BY DEF DeviceOK, Careful
<1>2. p \in SetupPackets
  BY DEF SetupRead, DeviceOK
<1>3. \/ HandleOut(d, junk) = StartRequest(r, p)
      \/ HandleOut(d, junk) = Process(r)
      \/ HandleOut(d, junk) = Process(ControlStall(r))
      \/ HandleOut(d, junk) = ControlSetup(r)
      \/ HandleOut(d, junk) = r
  BY DEF HandleOut
<1> HIDE DEF r, p
<1>4. DeviceOK(StartRequest(r, p)) /\ Careful(d, StartRequest(r, p))
  BY <1>1, <1>2, StartRequestIsCareful, CarefulTrans
<1>5. DeviceOK(Process(r)) /\ Careful(d, Process(r))
  BY <1>1, ProcessIsCareful, CarefulTrans
<1>6. DeviceOK(ControlStall(r)) /\ Careful(d, ControlStall(r))
  BY <1>1, SetupIsCareful, CarefulTrans
<1>7. DeviceOK(Process(ControlStall(r))) /\ Careful(d, Process(ControlStall(r)))
  BY <1>6, ProcessIsCareful, CarefulTrans
<1>8. DeviceOK(ControlSetup(r)) /\ Careful(d, ControlSetup(r))
  BY <1>1, SetupIsCareful, CarefulTrans
<1> QED BY <1>1, <1>3, <1>4, <1>5, <1>7, <1>8
-----------------------------------------------------------------------------
(* The steps.                                                              *)

\* Steps that leave the thread alone.
LEMMA CarefulStep ==
  ASSUME IInv, HostOK(host)', DeviceOK(dev)', Careful(dev, dev'), UNCHANGED thread
  PROVE  IInv'
BY DEF IInv, InHand, Careful, thread, DeviceOK

LEMMA InitIInv == Init => IInv
<1> SUFFICES ASSUME NEW r \in Requests,
                    host = [stage |-> "idle", req |-> r, id |-> 1, got |-> <<>>, result |-> "none",
                            address |-> 0, config |-> 0],
                    dev = [rxFifo |-> <<>>, txFifo |-> <<>>, usbrst |-> FALSE,
                           stup |-> FALSE, xfrcOut |-> FALSE, xfrcIn |-> FALSE,
                           setupCount |-> 3, received |-> 0, outReady |-> FALSE, outStall |-> FALSE,
                           inSize |-> 0, inReady |-> FALSE, inStall |-> FALSE,
                           data |-> Packet(r, 0), setup |-> Packet(r, 0), ctrlState |-> "Idle",
                           txRemain |-> <<>>, hasResult |-> FALSE, tasks |-> FALSE,
                           address |-> 0, state |-> "Default", config |-> 0, failed |-> FALSE],
                    pc = "wait", setup = Packet(r, 0)
             PROVE  IInv
  BY DEF Init
<1>1. Packet(r, 0) \in SetupPackets
  BY DEF Packet, SetupPackets
<1>2. HostOK(host)
  BY DEF HostOK, Ids
<1>3. DeviceOK(dev)
  BY <1>1 DEF DeviceOK
<1> QED BY <1>1, <1>2, <1>3 DEF IInv

LEMMA IRQHandlerIInv == IInv /\ IRQHandler => IInv'
<1> SUFFICES ASSUME IInv, NEW r \in Requests,
                    dev' = HandleOut(HandleIn(HandleReset(HandleRx(dev))), Packet(r, 0)),
                    UNCHANGED <<host, thread>>
             PROVE  IInv'
  BY DEF IRQHandler
<1> DEFINE d1 == HandleRx(dev)
           d2 == HandleReset(d1)
           d3 == HandleIn(d2)
<1>1. DeviceOK(d1) /\ Careful(dev, d1)
  BY HandleRxIsCareful DEF IInv
<1> HIDE DEF d1
<1>2. DeviceOK(d2) /\ Careful(dev, d2)
  BY <1>1, HandleResetIsCareful, CarefulTrans
<1> HIDE DEF d2
<1>3. DeviceOK(d3) /\ Careful(dev, d3)
  BY <1>2, HandleInIsCareful, CarefulTrans
<1>4. dev' = HandleOut(d3, Packet(r, 0))
  BY DEF d1, d2
<1> HIDE DEF d3
<1>5. Packet(r, 0) \in SetupPackets
  BY DEF Packet, SetupPackets
<1>6. DeviceOK(dev') /\ Careful(dev, dev')
  BY <1>3, <1>4, <1>5, HandleOutIsCareful, CarefulTrans
<1>7. HostOK(host)' /\ DeviceOK(dev)'
  BY <1>6 DEF IInv, HostOK, DeviceOK
<1> QED BY <1>6, <1>7, CarefulStep

LEMMA ThreadIInv == IInv /\ Thread => IInv'
<1> SUFFICES ASSUME IInv, Thread PROVE IInv'
  OBVIOUS
<1> USE DEF IInv, InHand, Goto
<1>1. CASE TakeTasks
  BY <1>1 DEF TakeTasks, DeviceOK, HostOK
<1>2. CASE StartControl
  BY <1>2 DEF StartControl, DeviceOK, HostOK
<1>3. CASE CarryOut
  <2>1. setup.req.op \in {"none", "address", "configure"}
    BY UsbAssumption DEF SetupPackets, Request
  <2>2. /\ DeviceOK(dev)' /\ dev'.hasResult = dev.hasResult
        /\ dev'.tasks = dev.tasks /\ dev'.ctrlState = dev.ctrlState
    <3>1. dev' = SetAddress(dev, setup.req.value)
          \/ dev' = SetConfiguration(dev, setup.req.value) \/ dev' = dev
      BY <1>3, <2>1 DEF CarryOut
    <3> QED BY <3>1 DEF SetAddress, SetConfiguration, DeviceOK
  <2> QED BY <1>3, <2>2 DEF CarryOut, HostOK
<1>4. CASE Check
  BY <1>4 DEF Check, DeviceOK, HostOK
<1>5. CASE Commit
  <2>1. /\ pc = "commit" /\ pc' = "transmit" /\ UNCHANGED <<host, setup>>
        /\ DOMAIN dev' = DOMAIN dev
        /\ dev'.hasResult = TRUE /\ dev'.ctrlState \in {"StatusTx", "DataTx"}
        /\ dev'.tasks = dev.tasks /\ dev'.rxFifo = dev.rxFifo /\ dev'.setup = dev.setup
        /\ dev'.data \in {dev.data, [dev.data EXCEPT !.id = 0]}
    BY <1>5 DEF Commit, DeviceOK
  <2>2. dev'.data \in SetupPackets
    BY <2>1 DEF DeviceOK, SetupPackets
  <2> QED BY <2>1, <2>2 DEF DeviceOK, HostOK
<1>6. CASE Transmit
  BY <1>6 DEF Transmit, TransmitPacket, DeviceOK, HostOK
<1>7. CASE Write
  BY <1>7 DEF Write, TxFifoWrite, DeviceOK, HostOK
<1>8. CASE Finish
  BY <1>8 DEF Finish, DeviceOK, HostOK
<1>9. CASE Stall
  BY <1>9 DEF Stall, StallOut, StallIn, ConfigureSetup, DeviceOK, HostOK
<1> QED BY <1>1, <1>2, <1>3, <1>4, <1>5, <1>6, <1>7, <1>8, <1>9 DEF Thread

\* Host and core touch nothing of the thread; only Ask and SendPacket reach the FIFO.
LEMMA HostIInv ==
  ASSUME IInv, Ask \/ SeeStall \/ TakePacket \/ SendPacket \/ ResetBus
  PROVE  IInv'
<1> USE DEF IInv
<1>1. CASE Ask
  <2> PICK r \in Requests :
        LET id == (host.id % 3) + 1 IN
        /\ host' = [host EXCEPT
            !.stage = CASE r.len = 0 -> "statusIn"
                        [] r.len > 0 /\ r.dir = "in"  -> "dataIn"
                        [] r.len > 0 /\ r.dir = "out" -> "dataOut",
            !.req = r, !.id = id, !.got = <<>>, !.result = "none"]
        /\ dev' = [dev EXCEPT
            !.rxFifo = @ \o <<[sts |-> "SetupRx", packet |-> Packet(r, id)],
                              [sts |-> "SetupComplete"]>>,
            !.setupCount = IF @ = 0 THEN 0 ELSE @ - 1,
            !.outReady = FALSE, !.inReady = FALSE, !.outStall = FALSE, !.inStall = FALSE]
    BY <1>1 DEF Ask
  <2> DEFINE id == (host.id % 3) + 1
             added == <<[sts |-> "SetupRx", packet |-> Packet(r, id)], [sts |-> "SetupComplete"]>>
  <2>1. id \in Ids
    BY DEF HostOK, Ids
  <2>2. HostOK(host)'
    BY <2>1 DEF HostOK
  <2>3. added \in Seq(Entries)
    <3>1. Packet(r, id) \in SetupPackets
      BY <2>1 DEF Packet, SetupPackets, Ids
    <3> HIDE DEF id
    <3> QED BY <3>1 DEF Entries
  <2> HIDE DEF added
  <2>4. dev.rxFifo \o added \in Seq(Entries)
    BY <2>3 DEF DeviceOK
  <2>5. /\ DOMAIN dev' = DOMAIN dev /\ dev'.rxFifo = dev.rxFifo \o added
        /\ dev'.data = dev.data /\ dev'.setup = dev.setup /\ dev'.tasks = dev.tasks
        /\ dev'.hasResult = dev.hasResult /\ dev'.ctrlState = dev.ctrlState
    BY DEF DeviceOK, added
  <2>6. DeviceOK(dev)' /\ Careful(dev, dev')
    BY <2>4, <2>5 DEF DeviceOK, Careful
  <2> QED BY <1>1, <2>2, <2>6, CarefulStep DEF Ask
<1>2. CASE SeeStall
  <2>1. HostOK(host)'
    BY <1>2 DEF SeeStall, Ends, HostOK
  <2> QED BY <1>2, <2>1, CarefulStep DEF SeeStall, DeviceOK, Careful
<1>3. CASE TakePacket
  <2>1. HostOK(host)'
    BY <1>3 DEF TakePacket, Ends, HostOK
  <2>2. DeviceOK(dev)' /\ Careful(dev, dev')
    BY <1>3 DEF TakePacket, DeviceOK, Careful
  <2> QED BY <1>3, <2>1, <2>2, CarefulStep DEF TakePacket
<1>4. CASE SendPacket
  <2> DEFINE n == IF host.stage = "dataOut" THEN Least(host.req.sent, PacketSize) ELSE 0
             added == <<[sts |-> "Rx", bcnt |-> n], [sts |-> "RxComplete"]>>
  <2>1. HostOK(host)'
    BY <1>4 DEF SendPacket, Ends, HostOK
  <2>2. n \in Nat
    BY UsbAssumption DEF HostOK, Least, Request
  <2>3. dev' = [dev EXCEPT !.outReady = FALSE, !.received = n, !.rxFifo = @ \o added]
    BY <1>4 DEF SendPacket
  <2> HIDE DEF n
  <2>4. added \in Seq(Entries)
    BY <2>2 DEF Entries
  <2> HIDE DEF added
  <2>5. dev.rxFifo \o added \in Seq(Entries)
    BY <2>4 DEF DeviceOK
  <2>6. DeviceOK(dev)' /\ Careful(dev, dev')
    BY <2>3, <2>5 DEF DeviceOK, Careful
  <2> QED BY <1>4, <2>1, <2>6, CarefulStep DEF SendPacket
<1>5. CASE ResetBus
  <2>1. HostOK(host)'
    BY <1>5 DEF ResetBus, HostOK
  <2>2. DeviceOK(dev)' /\ Careful(dev, dev')
    BY <1>5 DEF ResetBus, DeviceOK, Careful
  <2> QED BY <1>5, <2>1, <2>2, CarefulStep DEF ResetBus
<1> QED BY <1>1, <1>2, <1>3, <1>4, <1>5
-----------------------------------------------------------------------------
\* The inductive invariant: while a request is due to be processed, either HandleControl
\* is asked for or the thread is at a step from which it will still answer or refuse.
THEOREM UsbInvariant == Spec => []IInv
<1>1. IInv /\ [Next]_vars => IInv'
  <2> SUFFICES ASSUME IInv, [Next]_vars PROVE IInv'
    OBVIOUS
  <2>1. CASE UNCHANGED vars
    BY <2>1 DEF vars, thread, IInv, InHand, HostOK, DeviceOK
  <2>2. CASE Next
    BY <2>2, IRQHandlerIInv, ThreadIInv, HostIInv DEF Next
  <2> QED BY <2>1, <2>2
<1> QED BY <1>1, InitIInv, PTL DEF Spec

\* A request that IRQHandler has put into the state Processing is in the hands of
\* HandleControl or will be: AtomicExchange in Task loses none of the wishes that come
\* while HandleControl runs, and no request is left without an answer or a stall.
THEOREM UsbNoRequestLost == Spec => []NoRequestLost
<1>1. IInv => NoRequestLost
  BY DEF IInv, InHand, NoRequestLost
<1> QED BY <1>1, UsbInvariant, PTL
-----------------------------------------------------------------------------
(***************************************************************************)
(* A host that waits: it lets the device finish what it can do at once     *)
(* before it asks (Prompt), neither gives up a request nor resets the bus, *)
(* and sends the data it announced, which no device supports beyond one    *)
(* packet.  A read of no bytes is left out: the answer would take the      *)
(* status stage away from the endpoint.                                    *)
(***************************************************************************)
Proper == \A r \in Requests :
            \/ r.dir = "in" /\ r.len > 0
            \/ r.dir = "out" /\ \/ r.len = 0
                                \/ r.len \in 1..PacketSize /\ r.sent = r.len
                                \/ r.len > PacketSize /\ ~r.supported

Polite == Prompt /\ ~Aborts /\ ~Resets /\ Proper

Asked == Packet(host.req, host.id)
Silent == dev.rxFifo = <<>> /\ ~dev.xfrcIn
Disarmed == ~dev.inReady /\ ~dev.outReady
Unstalled == ~dev.inStall /\ ~dev.outStall
Awaiting == IF host.req.dir = "in" THEN "dataIn" ELSE "statusIn"

HostTypes ==
  /\ {"stage", "req", "id", "got", "result", "address", "config"} \subseteq DOMAIN host
  /\ host.stage \in {"idle", "dataIn", "dataOut", "statusIn", "statusOut"}
  /\ host.req \in Requests /\ host.id \in Ids /\ host.got \in Seq({host.id})
  /\ host.result \in {"none", "answered", "refused"}
  /\ Len(host.got) <= host.req.len /\ (host.stage # "idle" => host.result = "none")

Members ==
  {"rxFifo", "txFifo", "usbrst", "stup", "xfrcOut", "xfrcIn", "setupCount", "received", "outReady", "outStall",
   "inSize", "inReady", "inStall", "data", "setup", "ctrlState", "txRemain", "hasResult", "tasks",
   "address", "state", "config", "failed"}

DevTypes ==
  /\ Members \subseteq DOMAIN dev
  /\ dev.txFifo \in Seq({host.id}) /\ Len(dev.txFifo) <= FifoSize /\ dev.setupCount \in 0..3
  /\ dev.inSize \in 0..PacketSize /\ dev.received \in 0..PacketSize
  /\ dev.ctrlState \in {"Idle", "DataRx", "Processing", "DataTx", "StatusRx", "StatusTx", "Stall"}
  /\ dev.state \in {"Default", "Addressed", "Configured"}
  /\ ~dev.usbrst /\ ~dev.stup /\ ~dev.xfrcOut

SendInv ==
  /\ send \in Seq({host.id}) /\ Len(send) <= PacketSize
  /\ ~dev.inReady => dev.txFifo = <<>>
  /\ dev.inReady => Len(dev.txFifo) <= dev.inSize
  /\ pc \notin {"transmit", "write"} => send = <<>>
  /\ pc = "write" /\ send # <<>> => dev.inReady /\ dev.txFifo = <<>> /\ dev.inSize = Len(send)

Resting ==
  /\ host.stage = "idle" /\ Silent /\ Disarmed /\ ~dev.tasks /\ ~dev.failed
  /\ dev.setupCount = 3 /\ dev.ctrlState \in {"Idle", "Stall"}
  /\ \/ pc = "wait"
     \/ pc \in {"write", "finish"} /\ dev.hasResult /\ dev.setup = setup

Asking ==
  /\ host.stage = (IF host.req.len = 0 THEN "statusIn" ELSE IF host.req.dir = "in" THEN "dataIn" ELSE "dataOut")
  /\ host.got = <<>> /\ times = 0
  /\ pc = "wait" /\ ~dev.tasks /\ ~dev.failed /\ ~dev.xfrcIn /\ dev.setupCount = 2 /\ Disarmed /\ Unstalled
  /\ \/ /\ dev.rxFifo = <<[sts |-> "SetupRx", packet |-> Asked], [sts |-> "SetupComplete"]>>
        /\ dev.ctrlState \in {"Idle", "Stall"}
     \/ dev.rxFifo = <<[sts |-> "SetupComplete"]>> /\ dev.data = Asked /\ dev.ctrlState = "Idle"

Refusing ==
  /\ ~host.req.supported /\ dev.setup = Asked /\ Silent /\ Disarmed /\ ~dev.tasks /\ ~dev.failed
  /\ dev.outStall
  /\ \/ pc = "stallIn" /\ ~dev.inStall /\ host.stage = Awaiting /\ dev.ctrlState = "Processing"
     \/ pc = "rearm" /\ dev.inStall /\ host.stage \in {"idle", Awaiting} /\ dev.ctrlState = "Processing"
     \/ pc \in {"idle", "stalled"} /\ dev.inStall /\ host.stage \in {"idle", Awaiting} /\ dev.setupCount = 3
     \/ pc = "wait" /\ dev.inStall /\ host.stage \in {"dataOut", Awaiting} /\ dev.setupCount = 3 /\ dev.ctrlState = "Stall"

Receiving ==
  /\ host.req.dir = "out" /\ host.req.len \in 1..PacketSize /\ host.req.sent = host.req.len
  /\ pc = "wait" /\ ~dev.tasks /\ dev.ctrlState = "DataRx" /\ dev.setup = Asked
  /\ ~dev.inReady /\ ~dev.xfrcIn /\ Unstalled
  /\ \/ host.stage = "dataOut" /\ dev.rxFifo = <<>> /\ dev.outReady /\ ~dev.failed
     \/ /\ host.stage = "statusIn" /\ ~dev.outReady
        /\ dev.failed \/ dev.rxFifo = <<[sts |-> "Rx", bcnt |-> host.req.len], [sts |-> "RxComplete"]>>

InTheHands ==
  /\ host.stage = Awaiting /\ host.got = <<>> /\ (host.req.dir = "in" \/ host.req.len = 0)
  /\ Silent /\ Disarmed /\ Unstalled /\ ~dev.failed /\ dev.setup = Asked /\ dev.ctrlState = "Processing"
  /\ \/ pc = "wait" /\ dev.tasks /\ times = 0
     \/ pc = "start" /\ ~dev.tasks /\ times = 0
     \/ pc = "handle" /\ ~dev.tasks /\ ~dev.hasResult /\ setup = Asked /\ times = 0
     \/ /\ pc \in {"check", "commit"} /\ ~dev.tasks /\ ~dev.hasResult /\ setup = Asked
        /\ times = 1 /\ host.req.supported
     \/ pc \in {"finish", "stallOut"} /\ ~dev.tasks /\ ~dev.hasResult /\ ~host.req.supported

Committed ==
  /\ pc = "transmit" /\ host.stage = Awaiting /\ host.got = <<>>
  /\ Silent /\ Disarmed /\ Unstalled /\ ~dev.failed /\ ~dev.tasks /\ dev.hasResult
  /\ dev.setup = Asked /\ setup = Asked /\ host.req.supported /\ times = 1
  /\ \/ host.req.dir = "out" /\ host.req.len = 0 /\ dev.ctrlState = "StatusTx" /\ send = <<>>
     \/ /\ host.req.dir = "in" /\ dev.ctrlState = "DataTx" /\ dev.txRemain \in Seq({host.id})
        /\ Len(send) + Len(dev.txRemain) = CT!DataLength(host.req)

Sending ==
  /\ ~dev.tasks /\ ~dev.failed /\ Unstalled /\ dev.setup = Asked /\ host.req.supported /\ times = 1
  /\ pc \in {"write", "finish", "wait"} /\ (pc # "wait" => dev.hasResult /\ setup = Asked)
  /\ \/ /\ dev.ctrlState = "StatusTx" /\ host.req.dir = "out" /\ host.req.len = 0 /\ host.got = <<>>
        /\ dev.rxFifo = <<>> /\ ~dev.outReady
        /\ \/ host.stage = "statusIn" /\ dev.inReady /\ dev.inSize = 0 /\ ~dev.xfrcIn
           \/ host.stage = "idle" /\ ~dev.inReady /\ dev.xfrcIn
     \/ /\ dev.ctrlState = "DataTx" /\ host.req.dir = "in"
        /\ dev.rxFifo = <<>> /\ ~dev.outReady /\ dev.txRemain \in Seq({host.id})
        /\ \/ /\ host.stage \in {"dataIn", "statusOut"} /\ dev.inReady /\ ~dev.xfrcIn
              /\ Len(host.got) + dev.inSize + Len(dev.txRemain) = CT!DataLength(host.req)
           \/ /\ host.stage \in {"dataIn", "statusOut"} /\ ~dev.inReady /\ dev.xfrcIn
              /\ Len(host.got) + Len(dev.txRemain) = CT!DataLength(host.req)
     \/ /\ dev.ctrlState = "StatusRx" /\ host.req.dir = "in" /\ ~dev.inReady /\ ~dev.xfrcIn
        /\ \/ /\ host.stage \in {"dataIn", "statusOut"} /\ dev.rxFifo = <<>> /\ dev.outReady
              /\ Len(host.got) = CT!DataLength(host.req)
           \/ /\ host.stage = "idle" /\ ~dev.outReady
              /\ dev.rxFifo \in {<<[sts |-> "Rx", bcnt |-> 0], [sts |-> "RxComplete"]>>, <<[sts |-> "RxComplete"]>>}

Phase == Resting \/ Asking \/ Refusing \/ Receiving \/ InTheHands \/ Committed \/ Sending
PoliteInv == HostTypes /\ DevTypes /\ SendInv /\ Phase

\* Left and Rest take a sequence apart.
LEMMA LeftAndRest ==
  ASSUME NEW S, NEW s \in Seq(S), NEW n \in Nat
  PROVE  /\ Left(s, n) \in Seq(S) /\ Rest(s, n) \in Seq(S)
         /\ Len(Left(s, n)) = Least(n, Len(s)) /\ Len(Left(s, n)) + Len(Rest(s, n)) = Len(s)
         /\ Len(s) <= n => Left(s, n) = s /\ Rest(s, n) = <<>>
<1>1. CASE n < Len(s)
  <2>1. Least(n, Len(s)) = n /\ n \in 0..Len(s)
    BY <1>1 DEF Least
  <2>2. SubSeq(s, 1, n) \in Seq(S) /\ Len(SubSeq(s, 1, n)) = n
    BY <2>1
  <2>3. SubSeq(s, n + 1, Len(s)) \in Seq(S) /\ Len(SubSeq(s, n + 1, Len(s))) = Len(s) - n
    BY <1>1
  <2>4. Left(s, n) = SubSeq(s, 1, n) /\ Rest(s, n) = SubSeq(s, n + 1, Len(s))
    BY <2>1 DEF Left, Rest
  <2>5. n + (Len(s) - n) = Len(s) /\ ~(Len(s) <= n)
    BY <1>1
  <2> QED
    BY <2>1, <2>2, <2>3, <2>4, <2>5
<1>2. CASE ~(n < Len(s))
  <2>1. Least(n, Len(s)) = Len(s)
    BY <1>2 DEF Least
  <2>2. SubSeq(s, 1, Len(s)) = s
    OBVIOUS
  <2>3. SubSeq(s, n + 1, Len(s)) = <<>>
    BY <1>2, SubSeqEmpty
  <2>4. Left(s, n) = s /\ Rest(s, n) = <<>>
    BY <2>1, <2>2, <2>3 DEF Left, Rest
  <2>5. <<>> \in Seq(S) /\ Len(<<>>) = 0 /\ Len(s) + 0 = Len(s)
    OBVIOUS
  <2> QED
    BY <2>1, <2>4, <2>5
<1> QED
  BY <1>1, <1>2

LEMMA LeastBounds ==
  ASSUME NEW m \in Nat, NEW n \in Nat
  PROVE  Least(m, n) \in Nat /\ Least(m, n) <= m /\ Least(m, n) <= n
BY DEF Least

\* What the parts of IRQHandler do when there is nothing for them to do.
LEMMA QuietHandlers ==
  ASSUME NEW d
  PROVE  /\ d.rxFifo = <<>> => HandleRx(d) = d
         /\ ~d.usbrst => HandleReset(d) = d
         /\ ~d.xfrcIn => HandleIn(d) = [d EXCEPT !.xfrcIn = FALSE]
         /\ ~d.stup /\ ~d.xfrcOut =>
              \A junk : HandleOut(d, junk) = [d EXCEPT !.stup = FALSE, !.xfrcOut = FALSE]
<1>1. d.rxFifo = <<>> => HandleRx(d) = d
  BY DEF HandleRx
<1>2. ~d.usbrst => HandleReset(d) = d
  BY DEF HandleReset
<1>3. ~d.xfrcIn => HandleIn(d) = [d EXCEPT !.xfrcIn = FALSE]
  BY DEF HandleIn
<1>4. ~d.stup /\ ~d.xfrcOut =>
        \A junk : HandleOut(d, junk) = [d EXCEPT !.stup = FALSE, !.xfrcOut = FALSE]
  BY DEF HandleOut
<1> QED
  BY <1>1, <1>2, <1>3, <1>4

LEMMA PoliteInit ==
  ASSUME Init
  PROVE  PoliteInv
<1> PICK r \in Requests :
      /\ host = [stage |-> "idle", req |-> r, id |-> 1, got |-> <<>>, result |-> "none",
                 address |-> 0, config |-> 0]
      /\ dev = [rxFifo |-> <<>>, txFifo |-> <<>>, usbrst |-> FALSE,
                stup |-> FALSE, xfrcOut |-> FALSE, xfrcIn |-> FALSE,
                setupCount |-> 3, received |-> 0, outReady |-> FALSE, outStall |-> FALSE,
                inSize |-> 0, inReady |-> FALSE, inStall |-> FALSE,
                data |-> Packet(r, 0), setup |-> Packet(r, 0), ctrlState |-> "Idle",
                txRemain |-> <<>>, hasResult |-> FALSE, tasks |-> FALSE,
                address |-> 0, state |-> "Default", config |-> 0, failed |-> FALSE]
      /\ pc = "wait" /\ send = <<>>
  BY DEF Init
<1>1. PacketSize \in Nat /\ FifoSize \in Nat /\ r.len \in Nat
  BY UsbAssumption DEF Request
<1>2. <<>> \in Seq({1}) /\ Len(<<>>) = 0
  OBVIOUS
<1>3. HostTypes
  BY <1>1, <1>2 DEF HostTypes, Ids
<1>4. DevTypes
  <2>1. Members \subseteq DOMAIN dev
    BY DEF Members
  <2> QED
    BY <1>1, <1>2, <2>1 DEF DevTypes
<1>5. SendInv
  BY <1>1, <1>2 DEF SendInv
<1>6. Resting
  BY DEF Resting, Silent, Disarmed
<1> QED
  BY <1>3, <1>4, <1>5, <1>6 DEF PoliteInv, Phase

\* Between interrupts: no flag of HandleOut is left, and no reset is to be served.
Settled == Members \subseteq DOMAIN dev /\ ~dev.usbrst /\ ~dev.stup /\ ~dev.xfrcOut

\* The step of an interrupt that finds the IN endpoint, and nothing that came over the OUT endpoint.
LEMMA SettledStep ==
  ASSUME Settled, IRQHandler
  PROVE  /\ ~dev.failed /\ host' = host /\ pc' = pc /\ setup' = setup /\ send' = send /\ times' = times
         /\ (dev.rxFifo # <<>> \/ dev.xfrcIn)
         /\ \E junk \in {Packet(r, 0) : r \in Requests} :
              /\ dev.rxFifo = <<>> => dev' = HandleOut(HandleIn(dev), junk)
              /\ ~HandleRx(dev).usbrst => dev' = HandleOut(HandleIn(HandleRx(dev)), junk)
<1>1. ~dev.usbrst /\ ~dev.stup /\ ~dev.xfrcOut
  BY DEF Settled
<1>2. PICK r \in Requests : dev' = HandleOut(HandleIn(HandleReset(HandleRx(dev))), Packet(r, 0))
  BY DEF IRQHandler
<1>3. /\ dev.rxFifo = <<>> => HandleReset(HandleRx(dev)) = dev
      /\ ~HandleRx(dev).usbrst => HandleReset(HandleRx(dev)) = HandleRx(dev)
  BY <1>1, QuietHandlers
<1> QED
  BY <1>1, <1>2, <1>3 DEF IRQHandler, Interrupt, thread

LEMMA InterruptStep ==
  ASSUME DevTypes, IRQHandler
  PROVE  /\ ~dev.failed /\ host' = host /\ pc' = pc /\ setup' = setup /\ send' = send /\ times' = times
         /\ (dev.rxFifo # <<>> \/ dev.xfrcIn)
<1>1. Settled
  BY DEF DevTypes, Settled
<1> QED
  BY <1>1, SettledStep

\* What HandleRx makes of each kind of entry.
LEMMA HandleRxEntry ==
  ASSUME dev.rxFifo # <<>>
  PROVE  /\ Head(dev.rxFifo).sts = "SetupRx" =>
              HandleRx(dev) = [[dev EXCEPT !.rxFifo = Tail(dev.rxFifo)] EXCEPT
                                 !.ctrlState = "Idle", !.data = Head(dev.rxFifo).packet]
         /\ Head(dev.rxFifo).sts = "SetupComplete" =>
              HandleRx(dev) = [[dev EXCEPT !.rxFifo = Tail(dev.rxFifo)] EXCEPT !.stup = TRUE]
         /\ Head(dev.rxFifo).sts = "Rx" =>
              HandleRx(dev) = [[dev EXCEPT !.rxFifo = Tail(dev.rxFifo)] EXCEPT !.failed = Head(dev.rxFifo).bcnt > 0]
         /\ Head(dev.rxFifo).sts = "RxComplete" =>
              HandleRx(dev) = [[dev EXCEPT !.rxFifo = Tail(dev.rxFifo)] EXCEPT !.xfrcOut = TRUE]
<1> DEFINE e == Head(dev.rxFifo)
           r == [dev EXCEPT !.rxFifo = Tail(dev.rxFifo)]
<1> HIDE DEF e, r
<1>1. HandleRx(dev) = CASE e.sts = "SetupRx"       -> [r EXCEPT !.ctrlState = "Idle", !.data = e.packet]
                        [] e.sts = "SetupComplete" -> [r EXCEPT !.stup = TRUE]
                        [] e.sts = "Rx"            -> [r EXCEPT !.failed = e.bcnt > 0]
                        [] e.sts = "RxComplete"    -> [r EXCEPT !.xfrcOut = TRUE]
  BY DEF HandleRx, e, r
<1>2. e.sts = "SetupRx" => HandleRx(dev) = [r EXCEPT !.ctrlState = "Idle", !.data = e.packet]
  BY <1>1
<1>3. e.sts = "SetupComplete" => HandleRx(dev) = [r EXCEPT !.stup = TRUE]
  BY <1>1
<1>4. e.sts = "Rx" => HandleRx(dev) = [r EXCEPT !.failed = e.bcnt > 0]
  BY <1>1
<1>5. e.sts = "RxComplete" => HandleRx(dev) = [r EXCEPT !.xfrcOut = TRUE]
  BY <1>1
<1> QED
  BY <1>2, <1>3, <1>4, <1>5 DEF e, r

\* A SETUP packet is read to ctrl.data.
LEMMA ReadsSetupPacket ==
  ASSUME Settled, IRQHandler, ~dev.xfrcIn, NEW p,
         dev.rxFifo = <<[sts |-> "SetupRx", packet |-> p], [sts |-> "SetupComplete"]>>
  PROVE  dev' = [[[[dev EXCEPT !.rxFifo = <<[sts |-> "SetupComplete"]>>] EXCEPT !.ctrlState = "Idle", !.data = p]
                  EXCEPT !.xfrcIn = FALSE] EXCEPT !.stup = FALSE, !.xfrcOut = FALSE]
<1> DEFINE d1 == [[dev EXCEPT !.rxFifo = <<[sts |-> "SetupComplete"]>>] EXCEPT !.ctrlState = "Idle", !.data = p]
           d2 == [d1 EXCEPT !.xfrcIn = FALSE]
           d3 == [d2 EXCEPT !.stup = FALSE, !.xfrcOut = FALSE]
<1>1. HandleRx(dev) = d1
  <2>1. /\ Head(dev.rxFifo).sts = "SetupRx" /\ Head(dev.rxFifo).packet = p /\ dev.rxFifo # <<>>
        /\ Tail(dev.rxFifo) = <<[sts |-> "SetupComplete"]>>
    OBVIOUS
  <2>2. HandleRx(dev) = [[dev EXCEPT !.rxFifo = Tail(dev.rxFifo)] EXCEPT
                           !.ctrlState = "Idle", !.data = Head(dev.rxFifo).packet]
    BY <2>1, HandleRxEntry
  <2> QED
    BY <2>1, <2>2
<1>2. ~d1.usbrst /\ ~d1.xfrcIn /\ ~d1.stup /\ ~d1.xfrcOut
  BY DEF Settled, Members
<1>3. ~d2.stup /\ ~d2.xfrcOut
  BY DEF Settled, Members
<1> HIDE DEF d1
<1>4. HandleIn(d1) = d2
  BY <1>2, QuietHandlers
<1>5. PICK junk : dev' = HandleOut(d2, junk)
  BY <1>1, <1>2, <1>4, SettledStep
<1> HIDE DEF d2
<1>6. HandleOut(d2, junk) = d3
  BY <1>3, QuietHandlers
<1> QED
  BY <1>5, <1>6 DEF d1, d2

\* The SETUP stage is over: the request is taken from ctrl.setupBuffer, from where it was read to.
LEMMA TakesRequest ==
  ASSUME Settled, IRQHandler, ~dev.xfrcIn, dev.rxFifo = <<[sts |-> "SetupComplete"]>>, dev.setupCount = 2
  PROVE  dev' = StartRequest([[[[dev EXCEPT !.rxFifo = <<>>] EXCEPT !.stup = TRUE] EXCEPT !.xfrcIn = FALSE]
                                EXCEPT !.stup = FALSE, !.xfrcOut = FALSE], dev.data)
<1> DEFINE d1 == [[dev EXCEPT !.rxFifo = <<>>] EXCEPT !.stup = TRUE]
           d2 == [d1 EXCEPT !.xfrcIn = FALSE]
           d3 == [d2 EXCEPT !.stup = FALSE, !.xfrcOut = FALSE]
<1>1. HandleRx(dev) = d1
  <2>1. Head(dev.rxFifo).sts = "SetupComplete" /\ dev.rxFifo # <<>> /\ Tail(dev.rxFifo) = <<>>
    OBVIOUS
  <2>2. HandleRx(dev) = [[dev EXCEPT !.rxFifo = Tail(dev.rxFifo)] EXCEPT !.stup = TRUE]
    BY <2>1, HandleRxEntry
  <2> QED
    BY <2>1, <2>2
<1>2. ~d1.usbrst /\ ~d1.xfrcIn
  BY DEF Settled, Members
<1>3. d2.stup /\ d2.setupCount = 2 /\ d2.data = dev.data
  BY DEF Settled, Members
<1> HIDE DEF d1
<1>4. HandleIn(d1) = d2
  BY <1>2, QuietHandlers
<1>5. PICK junk : dev' = HandleOut(d2, junk)
  BY <1>1, <1>2, <1>4, SettledStep
<1>6. SetupRead(d2, junk) = dev.data
  BY <1>3 DEF SetupRead
<1> HIDE DEF d2
<1>7. HandleOut(d2, junk) = StartRequest(d3, SetupRead(d2, junk))
  BY <1>3 DEF HandleOut
<1> QED
  BY <1>5, <1>6, <1>7 DEF d1, d2

\* A packet that came over the OUT endpoint is read: of status, or of data, which fails.
LEMMA ReadsPacket ==
  ASSUME Settled, IRQHandler, NEW n \in Nat, ~dev.xfrcIn,
         dev.rxFifo = <<[sts |-> "Rx", bcnt |-> n], [sts |-> "RxComplete"]>>
  PROVE  dev' = [[[[dev EXCEPT !.rxFifo = <<[sts |-> "RxComplete"]>>] EXCEPT !.failed = n > 0]
                  EXCEPT !.xfrcIn = FALSE] EXCEPT !.stup = FALSE, !.xfrcOut = FALSE]
<1> DEFINE d1 == [[dev EXCEPT !.rxFifo = <<[sts |-> "RxComplete"]>>] EXCEPT !.failed = n > 0]
           d2 == [d1 EXCEPT !.xfrcIn = FALSE]
           d3 == [d2 EXCEPT !.stup = FALSE, !.xfrcOut = FALSE]
<1>1. HandleRx(dev) = d1
  <2>1. /\ Head(dev.rxFifo).sts = "Rx" /\ Head(dev.rxFifo).bcnt = n /\ dev.rxFifo # <<>>
        /\ Tail(dev.rxFifo) = <<[sts |-> "RxComplete"]>>
    OBVIOUS
  <2>2. HandleRx(dev) = [[dev EXCEPT !.rxFifo = Tail(dev.rxFifo)] EXCEPT !.failed = Head(dev.rxFifo).bcnt > 0]
    BY <2>1, HandleRxEntry
  <2> QED
    BY <2>1, <2>2
<1>2. ~d1.usbrst /\ ~d1.xfrcIn /\ ~d1.stup /\ ~d1.xfrcOut
  BY DEF Settled, Members
<1>3. ~d2.stup /\ ~d2.xfrcOut
  BY DEF Settled, Members
<1> HIDE DEF d1
<1>4. HandleIn(d1) = d2
  BY <1>2, QuietHandlers
<1>5. PICK junk : dev' = HandleOut(d2, junk)
  BY <1>1, <1>2, <1>4, SettledStep
<1> HIDE DEF d2
<1>6. HandleOut(d2, junk) = d3
  BY <1>3, QuietHandlers
<1> QED
  BY <1>5, <1>6 DEF d1, d2

\* ... and what it was for is over.
LEMMA EndsPacket ==
  ASSUME Settled, IRQHandler, ~dev.xfrcIn, dev.rxFifo = <<[sts |-> "RxComplete"]>>
  PROVE  LET d == [[[[dev EXCEPT !.rxFifo = <<>>] EXCEPT !.xfrcOut = TRUE] EXCEPT !.xfrcIn = FALSE]
                     EXCEPT !.stup = FALSE, !.xfrcOut = FALSE]
         IN  /\ dev.ctrlState = "StatusRx" => dev' = ControlSetup(d)
             /\ dev.ctrlState = "DataRx" => dev' = Process(d) \/ dev' = Process(ControlStall(d))
<1> DEFINE d1 == [[dev EXCEPT !.rxFifo = <<>>] EXCEPT !.xfrcOut = TRUE]
           d2 == [d1 EXCEPT !.xfrcIn = FALSE]
           d3 == [d2 EXCEPT !.stup = FALSE, !.xfrcOut = FALSE]
<1>1. HandleRx(dev) = d1
  <2>1. Head(dev.rxFifo).sts = "RxComplete" /\ dev.rxFifo # <<>> /\ Tail(dev.rxFifo) = <<>>
    OBVIOUS
  <2>2. HandleRx(dev) = [[dev EXCEPT !.rxFifo = Tail(dev.rxFifo)] EXCEPT !.xfrcOut = TRUE]
    BY <2>1, HandleRxEntry
  <2> QED
    BY <2>1, <2>2
<1>2. ~d1.usbrst /\ ~d1.xfrcIn
  BY DEF Settled, Members
<1>3. ~d2.stup /\ d2.xfrcOut /\ d2.ctrlState = dev.ctrlState
  BY DEF Settled, Members
<1> HIDE DEF d1
<1>4. HandleIn(d1) = d2
  BY <1>2, QuietHandlers
<1>5. PICK junk : dev' = HandleOut(d2, junk)
  BY <1>1, <1>2, <1>4, SettledStep
<1> HIDE DEF d2
<1>6. dev.ctrlState = "StatusRx" => HandleOut(d2, junk) = ControlSetup(d3)
  BY <1>3 DEF HandleOut
<1>7. dev.ctrlState = "DataRx" =>
        HandleOut(d2, junk) = Process(IF d2.received = d2.setup.req.len THEN d3 ELSE ControlStall(d3))
  BY <1>3 DEF HandleOut
<1> HIDE DEF d3
<1>8. dev.ctrlState = "DataRx" => dev' = Process(d3) \/ dev' = Process(ControlStall(d3))
  BY <1>5, <1>7
<1> QED
  BY <1>5, <1>6, <1>8 DEF d1, d2, d3

\* The host has taken the packet of the IN endpoint.
LEMMA EndsTransmission ==
  ASSUME Settled, IRQHandler, dev.rxFifo = <<>>
  PROVE  LET d == [dev EXCEPT !.xfrcIn = FALSE]
             p == Left(dev.txRemain, PacketSize)
             Kept(e) == [e EXCEPT !.stup = FALSE, !.xfrcOut = FALSE]
         IN  /\ dev.xfrcIn
             /\ dev.ctrlState = "StatusTx" => dev' = Kept([[d EXCEPT !.setupCount = 3] EXCEPT !.ctrlState = "Idle"])
             /\ dev.ctrlState = "DataTx" /\ dev.txRemain # <<>> =>
                  dev' = Kept([[[d EXCEPT !.txRemain = Rest(dev.txRemain, PacketSize)]
                                 EXCEPT !.inSize = Len(p), !.inReady = TRUE]
                                 EXCEPT !.txFifo = Left(dev.txFifo \o p, FifoSize)])
             /\ dev.ctrlState = "DataTx" /\ dev.txRemain = <<>> =>
                  dev' = Kept([[d EXCEPT !.setupCount = 0, !.received = 0, !.outReady = TRUE]
                                 EXCEPT !.ctrlState = "StatusRx"])
<1> DEFINE d == [dev EXCEPT !.xfrcIn = FALSE]
           p == Left(dev.txRemain, PacketSize)
           q == Rest(dev.txRemain, PacketSize)
           e1 == [[d EXCEPT !.setupCount = 3] EXCEPT !.ctrlState = "Idle"]
           e2 == [[[d EXCEPT !.txRemain = q] EXCEPT !.inSize = Len(p), !.inReady = TRUE]
                    EXCEPT !.txFifo = Left(dev.txFifo \o p, FifoSize)]
           e3 == [[d EXCEPT !.setupCount = 0, !.received = 0, !.outReady = TRUE] EXCEPT !.ctrlState = "StatusRx"]
<1>1. dev.xfrcIn
  BY SettledStep
<1>2. PICK junk : dev' = HandleOut(HandleIn(dev), junk)
  BY SettledStep
<1>3. dev.ctrlState = "StatusTx" => HandleIn(dev) = e1
  BY <1>1 DEF HandleIn, ControlSetup, ConfigureSetup
<1>4. dev.ctrlState = "DataTx" /\ dev.txRemain # <<>> => HandleIn(dev) = e2
  <2> SUFFICES ASSUME dev.ctrlState = "DataTx", dev.txRemain # <<>> PROVE HandleIn(dev) = e2
    OBVIOUS
  <2> DEFINE d0 == [d EXCEPT !.txRemain = q]
             d1 == [d0 EXCEPT !.inSize = Len(p), !.inReady = TRUE]
  <2>1. d.txRemain = dev.txRemain /\ d1.txFifo = dev.txFifo
    BY DEF Settled, Members
  <2>2. HandleIn(dev) = TxFifoWrite(TransmitPacket([d EXCEPT !.txRemain = Rest(@, PacketSize)], Len(p)), p)
    BY <1>1 DEF HandleIn
  <2>3. [d EXCEPT !.txRemain = Rest(@, PacketSize)] = d0
    BY <2>1
  <2>4. TransmitPacket(d0, Len(p)) = d1
    BY DEF TransmitPacket
  <2> HIDE DEF p, d0, d1, d
  <2>5. TxFifoWrite(d1, p) = [d1 EXCEPT !.txFifo = Left(dev.txFifo \o p, FifoSize)]
    BY <2>1 DEF TxFifoWrite
  <2> QED
    BY <2>2, <2>3, <2>4, <2>5 DEF d0, d1
<1>5. dev.ctrlState = "DataTx" /\ dev.txRemain = <<>> => HandleIn(dev) = e3
  BY <1>1 DEF HandleIn, ReceivePacket
<1>6. ~e1.stup /\ ~e1.xfrcOut /\ ~e2.stup /\ ~e2.xfrcOut /\ ~e3.stup /\ ~e3.xfrcOut
  BY DEF Settled, Members
<1> HIDE DEF d, p, q, e1, e2, e3
<1>7. /\ HandleOut(e1, junk) = [e1 EXCEPT !.stup = FALSE, !.xfrcOut = FALSE]
      /\ HandleOut(e2, junk) = [e2 EXCEPT !.stup = FALSE, !.xfrcOut = FALSE]
      /\ HandleOut(e3, junk) = [e3 EXCEPT !.stup = FALSE, !.xfrcOut = FALSE]
  BY <1>6, QuietHandlers
<1> QED
  BY <1>1, <1>2, <1>3, <1>4, <1>5, <1>7 DEF d, p, q, e1, e2, e3

\* The SETUP packet is read.
LEMMA ReadsSetup ==
  ASSUME PoliteInv, Asking, IRQHandler, Len(dev.rxFifo) = 2
  PROVE  PoliteInv'
<1>0. HostTypes /\ DevTypes /\ SendInv
  BY DEF PoliteInv
<1>1. dev.rxFifo = <<[sts |-> "SetupRx", packet |-> Asked], [sts |-> "SetupComplete"]>>
  BY DEF Asking
<1>2. Settled /\ ~dev.xfrcIn
  BY <1>0 DEF DevTypes, Settled, Asking
<1>5. dev' = [[[[dev EXCEPT !.rxFifo = <<[sts |-> "SetupComplete"]>>] EXCEPT !.ctrlState = "Idle", !.data = Asked]
                  EXCEPT !.xfrcIn = FALSE] EXCEPT !.stup = FALSE, !.xfrcOut = FALSE]
  BY <1>1, <1>2, ReadsSetupPacket
<1>6. /\ Members \subseteq DOMAIN dev' /\ dev'.rxFifo = <<[sts |-> "SetupComplete"]>>
      /\ dev'.ctrlState = "Idle" /\ dev'.data = Asked /\ ~dev'.xfrcIn /\ ~dev'.stup /\ ~dev'.xfrcOut
      /\ dev'.usbrst = dev.usbrst /\ dev'.txFifo = dev.txFifo /\ dev'.setupCount = dev.setupCount
      /\ dev'.received = dev.received /\ dev'.outReady = dev.outReady /\ dev'.outStall = dev.outStall
      /\ dev'.inSize = dev.inSize /\ dev'.inReady = dev.inReady /\ dev'.inStall = dev.inStall
      /\ dev'.tasks = dev.tasks /\ dev'.state = dev.state /\ dev'.failed = dev.failed
  BY <1>0, <1>5 DEF DevTypes, Members
<1>7. host' = host /\ pc' = pc /\ send' = send /\ times' = times
  BY <1>0, InterruptStep
<1>8. HostTypes' /\ DevTypes' /\ SendInv'
  BY <1>0, <1>6, <1>7 DEF HostTypes, DevTypes, SendInv
<1>9. Asking'
  BY <1>6, <1>7 DEF Asking, Disarmed, Unstalled, Asked
<1> QED
  BY <1>8, <1>9 DEF PoliteInv, Phase

\* Where the host is, for each kind of request.
LEMMA ProperRequest ==
  ASSUME Proper, HostTypes
  PROVE  /\ host.req.dir \in {"in", "out"} /\ host.req.len \in Nat /\ host.req.supported \in BOOLEAN
         /\ host.req.answer \in Nat /\ PacketSize \in Nat \ {0} /\ FifoSize \in Nat
         /\ \/ host.req.dir = "in" /\ host.req.len > 0
            \/ host.req.dir = "out" /\ \/ host.req.len = 0
                                       \/ host.req.len \in 1..PacketSize /\ host.req.sent = host.req.len
                                       \/ host.req.len > PacketSize /\ ~host.req.supported
<1>1. host.req \in Requests
  BY DEF HostTypes
<1> QED
  BY <1>1, UsbAssumption DEF Proper, Request

LEMMA StartsRequest ==
  ASSUME Proper, PoliteInv, Asking, IRQHandler, Len(dev.rxFifo) = 1
  PROVE  PoliteInv'
<1>0. HostTypes /\ DevTypes /\ SendInv
  BY DEF PoliteInv
<1> DEFINE d3 == [[[[dev EXCEPT !.rxFifo = <<>>] EXCEPT !.stup = TRUE] EXCEPT !.xfrcIn = FALSE]
                    EXCEPT !.stup = FALSE, !.xfrcOut = FALSE]
           r == [d3 EXCEPT !.setup = Asked]
<1>1. dev' = StartRequest(d3, Asked)
  <2>1. dev.rxFifo = <<[sts |-> "SetupComplete"]>> /\ dev.data = Asked
    BY DEF Asking
  <2>2. ~dev.xfrcIn /\ dev.setupCount = 2
    BY DEF Asking
  <2>3. Settled
    BY <1>0 DEF DevTypes, Settled
  <2> QED
    BY <2>1, <2>2, <2>3, TakesRequest
<1>2. host' = host /\ pc' = pc /\ setup' = setup /\ send' = send /\ times' = times
  BY <1>0, InterruptStep
<1>9. /\ ~dev.inReady /\ ~dev.outReady /\ ~dev.inStall /\ ~dev.outStall /\ ~dev.tasks /\ ~dev.failed
      /\ dev.txFifo = <<>> /\ dev.ctrlState = "Idle"
  <2>1. dev.rxFifo = <<[sts |-> "SetupComplete"]>> /\ dev.ctrlState = "Idle"
    BY DEF Asking
  <2> QED
    BY <1>0, <2>1 DEF Asking, SendInv, Disarmed, Unstalled
<1>3. /\ Members \subseteq DOMAIN r /\ r.rxFifo = <<>> /\ r.setup = Asked
      /\ ~r.xfrcIn /\ ~r.stup /\ ~r.xfrcOut /\ ~r.inReady /\ ~r.outReady /\ ~r.inStall /\ ~r.outStall
      /\ ~r.tasks /\ ~r.failed /\ r.ctrlState = "Idle"
      /\ ~r.usbrst /\ r.txFifo = <<>> /\ r.setupCount \in 0..3
      /\ r.inSize \in 0..PacketSize /\ r.received \in 0..PacketSize
      /\ r.state \in {"Default", "Addressed", "Configured"}
  BY <1>0, <1>9 DEF DevTypes, Members
<1>4. /\ Asked' = Asked /\ Asked.req = host.req /\ HostTypes'
      /\ send = <<>> /\ pc = "wait" /\ times = 0 /\ host.got = <<>> /\ Awaiting' = Awaiting
      /\ host.stage = (IF host.req.len = 0 THEN "statusIn" ELSE IF host.req.dir = "in" THEN "dataIn" ELSE "dataOut")
  BY <1>0, <1>2 DEF Asked, Packet, Asking, SendInv, HostTypes, Awaiting
<1>5. <<>> \in Seq({host.id}) /\ Len(<<>>) = 0 /\ PacketSize \in Nat /\ FifoSize \in Nat
  BY UsbAssumption
<1> HIDE DEF d3
<1>6. CASE host.req.dir = "out" /\ host.req.len > PacketSize /\ ~host.req.supported
  <2>1. dev' = ControlStall(r)
    <3>1. ~(host.req.len \in 1..PacketSize) /\ host.req.len # 0 /\ host.req.dir # "in"
      BY <1>5, <1>6
    <3> QED
      BY <1>1, <1>4, <1>6, <3>1 DEF StartRequest
  <2> HIDE DEF r
  <2>2. dev' = [[[[[r EXCEPT !.outReady = FALSE, !.outStall = TRUE] EXCEPT !.inReady = FALSE, !.inStall = TRUE]
                   EXCEPT !.setupCount = 3] EXCEPT !.ctrlState = "Idle"] EXCEPT !.ctrlState = "Stall"]
    BY <2>1 DEF ControlStall, ControlSetup, ConfigureSetup, StallIn, StallOut
  <2>3. /\ Members \subseteq DOMAIN dev' /\ dev'.rxFifo = <<>> /\ dev'.setup = Asked
        /\ ~dev'.xfrcIn /\ ~dev'.stup /\ ~dev'.xfrcOut /\ ~dev'.inReady /\ ~dev'.outReady /\ dev'.inStall /\ dev'.outStall
        /\ ~dev'.tasks /\ ~dev'.failed /\ dev'.ctrlState = "Stall"
        /\ ~dev'.usbrst /\ dev'.txFifo = <<>> /\ dev'.setupCount = 3
        /\ dev'.inSize \in 0..PacketSize /\ dev'.received \in 0..PacketSize
        /\ dev'.state \in {"Default", "Addressed", "Configured"}
    BY <1>3, <2>2 DEF Members
  <2>4. DevTypes' /\ SendInv'
    BY <1>0, <1>2, <1>4, <1>5, <2>3 DEF DevTypes, SendInv
  <2>5. host.stage = "dataOut"
    BY <1>4, <1>5, <1>6
  <2>6. Refusing'
    BY <1>2, <1>4, <1>6, <2>3, <2>5 DEF Refusing, Silent, Disarmed
  <2> QED
    BY <1>4, <2>4, <2>6 DEF PoliteInv, Phase
<1>7. CASE host.req.dir = "out" /\ host.req.len \in 1..PacketSize /\ host.req.sent = host.req.len
  <2>1. dev' = [ReceivePacket(r) EXCEPT !.ctrlState = "DataRx"]
    <3>1. ~(host.req.len > PacketSize) /\ host.req.len # 0
      BY <1>5, <1>7
    <3> QED
      BY <1>1, <1>4, <1>7, <3>1 DEF StartRequest
  <2> HIDE DEF r
  <2>2. dev' = [[r EXCEPT !.setupCount = 0, !.received = 0, !.outReady = TRUE] EXCEPT !.ctrlState = "DataRx"]
    BY <2>1 DEF ReceivePacket
  <2>3. /\ Members \subseteq DOMAIN dev' /\ dev'.rxFifo = <<>> /\ dev'.setup = Asked
        /\ ~dev'.xfrcIn /\ ~dev'.stup /\ ~dev'.xfrcOut /\ ~dev'.inReady /\ dev'.outReady /\ ~dev'.inStall /\ ~dev'.outStall
        /\ ~dev'.tasks /\ ~dev'.failed /\ dev'.ctrlState = "DataRx"
        /\ ~dev'.usbrst /\ dev'.txFifo = <<>> /\ dev'.setupCount = 0
        /\ dev'.inSize \in 0..PacketSize /\ dev'.received = 0
        /\ dev'.state \in {"Default", "Addressed", "Configured"}
    BY <1>3, <2>2 DEF Members
  <2>4. DevTypes' /\ SendInv'
    BY <1>0, <1>2, <1>4, <1>5, <2>3 DEF DevTypes, SendInv
  <2>5. host.stage = "dataOut"
    BY <1>4, <1>5, <1>7
  <2>6. Receiving'
    BY <1>2, <1>4, <1>7, <2>3, <2>5 DEF Receiving, Unstalled
  <2> QED
    BY <1>4, <2>4, <2>6 DEF PoliteInv, Phase
<1>8. CASE \/ host.req.dir = "in" /\ host.req.len > 0
           \/ host.req.dir = "out" /\ host.req.len = 0
  <2>1. dev' = Process(r)
    <3>1. ~(host.req.dir = "out" /\ host.req.len > PacketSize) /\ ~(host.req.dir = "out" /\ host.req.len \in 1..PacketSize)
      BY <1>5, <1>8
    <3>2. host.req.dir = "in" \/ host.req.len = 0
      BY <1>8
    <3> QED
      BY <1>1, <1>4, <3>1, <3>2 DEF StartRequest
  <2> HIDE DEF r
  <2>2. dev' = [r EXCEPT !.ctrlState = "Processing", !.tasks = TRUE]
    BY <2>1 DEF Process
  <2>3. /\ Members \subseteq DOMAIN dev' /\ dev'.rxFifo = <<>> /\ dev'.setup = Asked
        /\ ~dev'.xfrcIn /\ ~dev'.stup /\ ~dev'.xfrcOut /\ ~dev'.inReady /\ ~dev'.outReady /\ ~dev'.inStall /\ ~dev'.outStall
        /\ dev'.tasks /\ ~dev'.failed /\ dev'.ctrlState = "Processing"
        /\ ~dev'.usbrst /\ dev'.txFifo = <<>> /\ dev'.setupCount \in 0..3
        /\ dev'.inSize \in 0..PacketSize /\ dev'.received \in 0..PacketSize
        /\ dev'.state \in {"Default", "Addressed", "Configured"}
    BY <1>3, <2>2 DEF Members
  <2>4. DevTypes' /\ SendInv'
    BY <1>0, <1>2, <1>4, <1>5, <2>3 DEF DevTypes, SendInv
  <2>5. host.stage = Awaiting
    <3>1. host.req.dir = "in" /\ host.req.len > 0 => host.req.len # 0
      OBVIOUS
    <3> QED
      BY <1>4, <1>8, <3>1 DEF Awaiting
  <2>6. InTheHands'
    BY <1>2, <1>4, <1>8, <2>3, <2>5 DEF InTheHands, Silent, Disarmed, Unstalled
  <2> QED
    BY <1>4, <2>4, <2>6 DEF PoliteInv, Phase
<1> QED
  BY <1>0, <1>6, <1>7, <1>8, ProperRequest

LEMMA ReceivesData ==
  ASSUME PoliteInv, Receiving, IRQHandler
  PROVE  PoliteInv'
<1>0. HostTypes /\ DevTypes /\ SendInv /\ ~dev.failed /\ ~dev.xfrcIn
  BY DEF PoliteInv, Receiving, IRQHandler
<1>1. dev.rxFifo # <<>>
  BY <1>0, InterruptStep
<1>2. /\ dev.rxFifo = <<[sts |-> "Rx", bcnt |-> host.req.len], [sts |-> "RxComplete"]>>
      /\ host.stage = "statusIn" /\ ~dev.outReady
  BY <1>0, <1>1 DEF Receiving
<1>3. host.req.len \in Nat /\ host.req.len > 0
  BY DEF Receiving
<1>4. dev' = [[[[dev EXCEPT !.rxFifo = <<[sts |-> "RxComplete"]>>] EXCEPT !.failed = host.req.len > 0]
                  EXCEPT !.xfrcIn = FALSE] EXCEPT !.stup = FALSE, !.xfrcOut = FALSE]
  <2>1. Settled
    BY <1>0 DEF DevTypes, Settled
  <2> QED
    BY <1>0, <1>2, <1>3, <2>1, ReadsPacket
<1>5. host' = host /\ pc' = pc /\ setup' = setup /\ send' = send /\ times' = times
  BY <1>0, InterruptStep
<1>6. /\ DOMAIN dev' = DOMAIN dev /\ dev'.failed /\ ~dev'.xfrcIn /\ ~dev'.stup /\ ~dev'.xfrcOut
      /\ dev'.usbrst = dev.usbrst /\ dev'.txFifo = dev.txFifo /\ dev'.setupCount = dev.setupCount
      /\ dev'.received = dev.received /\ dev'.outReady = dev.outReady /\ dev'.outStall = dev.outStall
      /\ dev'.inSize = dev.inSize /\ dev'.inReady = dev.inReady /\ dev'.inStall = dev.inStall
      /\ dev'.setup = dev.setup /\ dev'.ctrlState = dev.ctrlState
      /\ dev'.tasks = dev.tasks /\ dev'.state = dev.state
  BY <1>0, <1>3, <1>4 DEF DevTypes, Members
<1>7. HostTypes' /\ DevTypes' /\ SendInv'
  BY <1>0, <1>5, <1>6 DEF HostTypes, DevTypes, SendInv
<1>8. Receiving'
  BY <1>2, <1>5, <1>6 DEF Receiving, Unstalled, Asked
<1> QED
  BY <1>7, <1>8 DEF PoliteInv, Phase

\* The host's status packet is read.
LEMMA ReadsStatus ==
  ASSUME PoliteInv, Sending, IRQHandler, Len(dev.rxFifo) = 2
  PROVE  PoliteInv'
<1>0. HostTypes /\ DevTypes /\ SendInv
  BY DEF PoliteInv
<1>1. dev.rxFifo # <<>> /\ dev.rxFifo # <<[sts |-> "RxComplete"]>>
  OBVIOUS
<1>2. /\ dev.rxFifo = <<[sts |-> "Rx", bcnt |-> 0], [sts |-> "RxComplete"]>> /\ ~dev.xfrcIn
      /\ dev.ctrlState = "StatusRx" /\ host.req.dir = "in" /\ ~dev.inReady /\ ~dev.xfrcIn
      /\ host.stage = "idle" /\ ~dev.outReady
  BY <1>1 DEF Sending
<1>3. dev' = [[[[dev EXCEPT !.rxFifo = <<[sts |-> "RxComplete"]>>] EXCEPT !.failed = 0 > 0]
                  EXCEPT !.xfrcIn = FALSE] EXCEPT !.stup = FALSE, !.xfrcOut = FALSE]
  <2>1. Settled /\ 0 \in Nat
    BY <1>0 DEF DevTypes, Settled
  <2> QED
    BY <1>2, <2>1, ReadsPacket
<1>4. dev' = [[[[dev EXCEPT !.rxFifo = <<[sts |-> "RxComplete"]>>] EXCEPT !.failed = FALSE]
                  EXCEPT !.xfrcIn = FALSE] EXCEPT !.stup = FALSE, !.xfrcOut = FALSE]
  <2>1. (0 > 0) = FALSE
    OBVIOUS
  <2> QED
    BY <1>3, <2>1
<1>5. host' = host /\ pc' = pc /\ setup' = setup /\ send' = send /\ times' = times
  BY <1>0, InterruptStep
<1>6. /\ DOMAIN dev' = DOMAIN dev /\ ~dev'.failed /\ ~dev'.xfrcIn /\ ~dev'.stup /\ ~dev'.xfrcOut
      /\ dev'.rxFifo = <<[sts |-> "RxComplete"]>> /\ dev'.hasResult = dev.hasResult
      /\ dev'.usbrst = dev.usbrst /\ dev'.txFifo = dev.txFifo /\ dev'.setupCount = dev.setupCount
      /\ dev'.received = dev.received /\ dev'.outReady = dev.outReady /\ dev'.outStall = dev.outStall
      /\ dev'.inSize = dev.inSize /\ dev'.inReady = dev.inReady /\ dev'.inStall = dev.inStall
      /\ dev'.setup = dev.setup /\ dev'.ctrlState = dev.ctrlState
      /\ dev'.tasks = dev.tasks /\ dev'.state = dev.state
  BY <1>0, <1>4 DEF DevTypes, Members
<1>7. HostTypes' /\ DevTypes' /\ SendInv'
  BY <1>0, <1>5, <1>6 DEF HostTypes, DevTypes, SendInv
<1>8. Sending'
  BY <1>2, <1>5, <1>6 DEF Sending, Unstalled, Asked
<1> QED
  BY <1>7, <1>8 DEF PoliteInv, Phase

\* The status stage of a read is over.
LEMMA EndsRead ==
  ASSUME PoliteInv, Sending, IRQHandler, Len(dev.rxFifo) = 1
  PROVE  PoliteInv'
<1>0. HostTypes /\ DevTypes /\ SendInv
  BY DEF PoliteInv
<1>1. dev.rxFifo # <<>> /\ dev.rxFifo # <<[sts |-> "Rx", bcnt |-> 0], [sts |-> "RxComplete"]>>
  <2> DEFINE both == <<[sts |-> "Rx", bcnt |-> 0], [sts |-> "RxComplete"]>>
  <2>1. Len(both) = 2 /\ Len(<<>>) = 0
    OBVIOUS
  <2> HIDE DEF both
  <2>2. dev.rxFifo # both /\ dev.rxFifo # <<>>
    BY <2>1
  <2> QED
    BY <2>2 DEF both
<1>2. /\ dev.rxFifo = <<[sts |-> "RxComplete"]>> /\ ~dev.xfrcIn
      /\ dev.ctrlState = "StatusRx" /\ host.req.dir = "in" /\ ~dev.inReady /\ ~dev.xfrcIn
      /\ host.stage = "idle" /\ ~dev.outReady
  BY <1>1 DEF Sending
<1> DEFINE d3 == [[[[dev EXCEPT !.rxFifo = <<>>] EXCEPT !.xfrcOut = TRUE] EXCEPT !.xfrcIn = FALSE]
                   EXCEPT !.stup = FALSE, !.xfrcOut = FALSE]
<1>6. dev' = ControlSetup(d3)
  <2>1. Settled
    BY <1>0 DEF DevTypes, Settled
  <2> QED
    BY <1>2, <2>1, EndsPacket
<1>7. host' = host /\ pc' = pc /\ setup' = setup /\ send' = send /\ times' = times
  BY <1>0, InterruptStep
<1>8. /\ DOMAIN dev' = DOMAIN dev /\ ~dev'.xfrcIn /\ ~dev'.stup /\ ~dev'.xfrcOut
      /\ dev'.rxFifo = <<>> /\ dev'.hasResult = dev.hasResult
      /\ dev'.usbrst = dev.usbrst /\ dev'.txFifo = dev.txFifo /\ dev'.setupCount = 3
      /\ dev'.received = dev.received /\ dev'.outReady = dev.outReady /\ dev'.outStall = dev.outStall
      /\ dev'.inSize = dev.inSize /\ dev'.inReady = dev.inReady /\ dev'.inStall = dev.inStall
      /\ dev'.setup = dev.setup /\ dev'.ctrlState = "Idle" /\ dev'.failed = dev.failed
      /\ dev'.tasks = dev.tasks /\ dev'.state = dev.state
  BY <1>0, <1>6 DEF DevTypes, Members, ControlSetup, ConfigureSetup
<1>9. HostTypes' /\ DevTypes' /\ SendInv'
  BY <1>0, <1>7, <1>8 DEF HostTypes, DevTypes, SendInv
<1>10. Resting'
  <2>1. /\ pc \in {"write", "finish", "wait"} /\ (pc # "wait" => dev.hasResult /\ setup = Asked)
        /\ dev.setup = Asked /\ ~dev.tasks /\ ~dev.failed
    BY DEF Sending
  <2> QED
    BY <1>2, <1>7, <1>8, <2>1 DEF Resting, Silent, Disarmed
<1> QED
  BY <1>9, <1>10 DEF PoliteInv, Phase

\* The status stage of a request without data is over.
LEMMA EndsWrite ==
  ASSUME PoliteInv, Sending, IRQHandler, dev.ctrlState = "StatusTx"
  PROVE  PoliteInv'
<1>0. HostTypes /\ DevTypes /\ SendInv
  BY DEF PoliteInv
<1>1. dev.rxFifo = <<>>
  BY DEF Sending
<1>2. /\ dev.xfrcIn /\ host.stage = "idle" /\ ~dev.inReady /\ ~dev.outReady
  BY <1>0, <1>1, InterruptStep DEF Sending
<1>5. dev' = [[[[dev EXCEPT !.xfrcIn = FALSE] EXCEPT !.setupCount = 3] EXCEPT !.ctrlState = "Idle"]
                  EXCEPT !.stup = FALSE, !.xfrcOut = FALSE]
  <2>1. Settled
    BY <1>0 DEF DevTypes, Settled
  <2> QED
    BY <1>1, <2>1, EndsTransmission
<1>7. host' = host /\ pc' = pc /\ setup' = setup /\ send' = send /\ times' = times
  BY <1>0, InterruptStep
<1>8. /\ DOMAIN dev' = DOMAIN dev /\ ~dev'.xfrcIn /\ ~dev'.stup /\ ~dev'.xfrcOut
      /\ dev'.rxFifo = dev.rxFifo /\ dev'.hasResult = dev.hasResult
      /\ dev'.usbrst = dev.usbrst /\ dev'.txFifo = dev.txFifo /\ dev'.setupCount = 3
      /\ dev'.received = dev.received /\ dev'.outReady = dev.outReady /\ dev'.outStall = dev.outStall
      /\ dev'.inSize = dev.inSize /\ dev'.inReady = dev.inReady /\ dev'.inStall = dev.inStall
      /\ dev'.setup = dev.setup /\ dev'.ctrlState = "Idle" /\ dev'.failed = dev.failed
      /\ dev'.tasks = dev.tasks /\ dev'.state = dev.state
  BY <1>0, <1>5 DEF DevTypes, Members
<1>9. HostTypes' /\ DevTypes' /\ SendInv'
  BY <1>0, <1>7, <1>8 DEF HostTypes, DevTypes, SendInv
<1>10. Resting'
  <2>1. /\ pc \in {"write", "finish", "wait"} /\ (pc # "wait" => dev.hasResult /\ setup = Asked)
        /\ dev.setup = Asked /\ ~dev.tasks /\ ~dev.failed
    BY DEF Sending
  <2> QED
    BY <1>1, <1>2, <1>7, <1>8, <2>1 DEF Resting, Silent, Disarmed
<1> QED
  BY <1>9, <1>10 DEF PoliteInv, Phase

\* What holds of the data stage of a read when the host has taken a packet.
LEMMA DataTaken ==
  ASSUME PoliteInv, Sending, IRQHandler, dev.ctrlState = "DataTx"
  PROVE  /\ dev.rxFifo = <<>> /\ dev.xfrcIn /\ ~dev.inReady /\ ~dev.outReady /\ dev.txFifo = <<>>
         /\ host.req.dir = "in" /\ host.stage \in {"dataIn", "statusOut"} /\ dev.txRemain \in Seq({host.id})
         /\ Len(host.got) + Len(dev.txRemain) = CT!DataLength(host.req)
         /\ pc = "write" => send = <<>>
<1>1. DevTypes /\ SendInv
  BY DEF PoliteInv
<1>2. dev.rxFifo = <<>>
  BY DEF Sending
<1>3. dev.xfrcIn
  BY <1>1, <1>2, InterruptStep
<1> QED
  BY <1>1, <1>2, <1>3 DEF Sending, SendInv

\* All data is sent: the endpoint waits for the status.
LEMMA AwaitsStatus ==
  ASSUME PoliteInv, Sending, IRQHandler, dev.ctrlState = "DataTx", dev.txRemain = <<>>
  PROVE  PoliteInv'
<1>0. HostTypes /\ DevTypes /\ SendInv
  BY DEF PoliteInv
<1>1. /\ dev.rxFifo = <<>> /\ dev.xfrcIn /\ ~dev.inReady /\ ~dev.outReady
      /\ host.req.dir = "in" /\ host.stage \in {"dataIn", "statusOut"}
      /\ Len(host.got) + Len(dev.txRemain) = CT!DataLength(host.req)
  BY DataTaken
<1>5. dev' = [[[[dev EXCEPT !.xfrcIn = FALSE] EXCEPT !.setupCount = 0, !.received = 0, !.outReady = TRUE]
                  EXCEPT !.ctrlState = "StatusRx"] EXCEPT !.stup = FALSE, !.xfrcOut = FALSE]
  <2>1. Settled
    BY <1>0 DEF DevTypes, Settled
  <2> QED
    BY <1>1, <2>1, EndsTransmission
<1>7. host' = host /\ pc' = pc /\ setup' = setup /\ send' = send /\ times' = times
  BY <1>0, InterruptStep
<1>8. /\ DOMAIN dev' = DOMAIN dev /\ ~dev'.xfrcIn /\ ~dev'.stup /\ ~dev'.xfrcOut
      /\ dev'.rxFifo = dev.rxFifo /\ dev'.hasResult = dev.hasResult
      /\ dev'.usbrst = dev.usbrst /\ dev'.txFifo = dev.txFifo /\ dev'.setupCount = 0
      /\ dev'.received = 0 /\ dev'.outReady /\ dev'.outStall = dev.outStall
      /\ dev'.inSize = dev.inSize /\ dev'.inReady = dev.inReady /\ dev'.inStall = dev.inStall
      /\ dev'.setup = dev.setup /\ dev'.ctrlState = "StatusRx" /\ dev'.failed = dev.failed
      /\ dev'.tasks = dev.tasks /\ dev'.state = dev.state
  BY <1>0, <1>5 DEF DevTypes, Members
<1>9. HostTypes' /\ DevTypes' /\ SendInv'
  <2>1. 0 \in 0..3 /\ 0 \in 0..PacketSize
    BY UsbAssumption
  <2> QED
    BY <1>0, <1>7, <1>8, <2>1 DEF HostTypes, DevTypes, SendInv
<1>10. Sending'
  <2>1. Len(host.got) = CT!DataLength(host.req)
    <3>1. Len(dev.txRemain) = 0 /\ Len(host.got) \in Nat
      BY <1>0 DEF HostTypes
    <3> QED
      BY <1>1, <3>1
  <2>2. /\ pc \in {"write", "finish", "wait"} /\ (pc # "wait" => dev.hasResult /\ setup = Asked)
        /\ dev.setup = Asked /\ ~dev.tasks /\ ~dev.failed /\ Unstalled /\ host.req.supported /\ times = 1
    BY DEF Sending
  <2> QED
    BY <1>1, <1>7, <1>8, <2>1, <2>2 DEF Sending, Unstalled, Asked
<1> QED
  BY <1>9, <1>10 DEF PoliteInv, Phase

\* The next packet of the answer.
LEMMA SendsMore ==
  ASSUME PoliteInv, Sending, IRQHandler, dev.ctrlState = "DataTx", dev.txRemain # <<>>
  PROVE  PoliteInv'
<1>0. HostTypes /\ DevTypes /\ SendInv
  BY DEF PoliteInv
<1>1. /\ dev.rxFifo = <<>> /\ dev.xfrcIn /\ ~dev.inReady /\ ~dev.outReady /\ dev.txFifo = <<>>
      /\ host.req.dir = "in" /\ host.stage \in {"dataIn", "statusOut"} /\ dev.txRemain \in Seq({host.id})
      /\ Len(host.got) + Len(dev.txRemain) = CT!DataLength(host.req)
      /\ pc = "write" => send = <<>>
  BY DataTaken
<1>2. PacketSize \in Nat /\ FifoSize \in Nat
  BY UsbAssumption
<1> DEFINE p == Left(dev.txRemain, PacketSize)
           q == Rest(dev.txRemain, PacketSize)
           w == Left(dev.txFifo \o p, FifoSize)
           n == Len(p)
<1>3. /\ p \in Seq({host.id}) /\ q \in Seq({host.id}) /\ n \in Nat
      /\ n <= PacketSize /\ n + Len(q) = Len(dev.txRemain)
  <2>1. Len(dev.txRemain) \in Nat
    BY <1>1
  <2>2. n = Least(PacketSize, Len(dev.txRemain)) /\ n + Len(q) = Len(dev.txRemain)
        /\ p \in Seq({host.id}) /\ q \in Seq({host.id})
    BY <1>1, <1>2, LeftAndRest
  <2>3. Least(PacketSize, Len(dev.txRemain)) <= PacketSize
    BY <1>2, <2>1, LeastBounds
  <2> HIDE DEF p, q
  <2> QED
    BY <2>2, <2>3
<1>4. w \in Seq({host.id}) /\ Len(w) <= FifoSize /\ Len(w) <= n
  <2> HIDE DEF p
  <2>1. dev.txFifo \o p = p
    BY <1>1, <1>3
  <2>2. Len(w) = Least(FifoSize, n) /\ w \in Seq({host.id})
    BY <1>2, <1>3, <2>1, LeftAndRest
  <2>3. Least(FifoSize, n) <= FifoSize /\ Least(FifoSize, n) <= n
    BY <1>2, <1>3, LeastBounds
  <2> QED
    BY <2>2, <2>3
<1> DEFINE d0 == [[dev EXCEPT !.xfrcIn = FALSE] EXCEPT !.txRemain = q]
           d1 == [d0 EXCEPT !.inSize = n, !.inReady = TRUE]
           d2 == [d1 EXCEPT !.txFifo = w]
           d3 == [d2 EXCEPT !.stup = FALSE, !.xfrcOut = FALSE]
<1>7. dev' = d3
  <2>1. Settled
    BY <1>0 DEF DevTypes, Settled
  <2> QED
    BY <1>1, <2>1, EndsTransmission
<1> HIDE DEF p, q, w, n
<1>8. host' = host /\ pc' = pc /\ setup' = setup /\ send' = send /\ times' = times
  BY <1>0, InterruptStep
<1>9. /\ DOMAIN dev' = DOMAIN dev /\ ~dev'.xfrcIn /\ ~dev'.stup /\ ~dev'.xfrcOut
      /\ dev'.rxFifo = dev.rxFifo /\ dev'.hasResult = dev.hasResult
      /\ dev'.usbrst = dev.usbrst /\ dev'.txFifo = w /\ dev'.setupCount = dev.setupCount
      /\ dev'.received = dev.received /\ dev'.outReady = dev.outReady /\ dev'.outStall = dev.outStall
      /\ dev'.inSize = n /\ dev'.inReady /\ dev'.inStall = dev.inStall /\ dev'.txRemain = q
      /\ dev'.setup = dev.setup /\ dev'.ctrlState = dev.ctrlState /\ dev'.failed = dev.failed
      /\ dev'.tasks = dev.tasks /\ dev'.state = dev.state
  BY <1>0, <1>7 DEF DevTypes, Members
<1>10. n \in 0..PacketSize
  BY <1>2, <1>3
<1>11. HostTypes' /\ DevTypes' /\ SendInv'
  BY <1>0, <1>1, <1>4, <1>8, <1>9, <1>10 DEF HostTypes, DevTypes, SendInv
<1>12. Sending'
  <2>1. Len(host.got) + n + Len(q) = CT!DataLength(host.req)
    <3>1. Len(host.got) \in Nat /\ Len(q) \in Nat /\ Len(dev.txRemain) \in Nat
      BY <1>0, <1>1, <1>3 DEF HostTypes
    <3>2. n \in Nat /\ n + Len(q) = Len(dev.txRemain)
      BY <1>3
    <3>3. \A a, b, c \in Nat : a + b + c = a + (b + c)
      OBVIOUS
    <3>4. Len(host.got) + n + Len(q) = Len(host.got) + (n + Len(q))
      BY <3>1, <3>2, <3>3
    <3> QED
      BY <1>1, <3>2, <3>4
  <2>2. /\ pc \in {"write", "finish", "wait"} /\ (pc # "wait" => dev.hasResult /\ setup = Asked)
        /\ dev.setup = Asked /\ ~dev.tasks /\ ~dev.failed /\ Unstalled /\ host.req.supported /\ times = 1
    BY DEF Sending
  <2> QED
    BY <1>1, <1>3, <1>8, <1>9, <2>1, <2>2 DEF Sending, Unstalled, Asked
<1> QED
  BY <1>11, <1>12 DEF PoliteInv, Phase

LEMMA PoliteInterrupt ==
  ASSUME Proper, PoliteInv, IRQHandler
  PROVE  PoliteInv'
<1>1. (dev.rxFifo # <<>> \/ dev.xfrcIn) /\ ~dev.failed
  BY InterruptStep DEF PoliteInv
<1>2. CASE Resting \/ Refusing \/ InTheHands \/ Committed
  BY <1>1, <1>2 DEF Resting, Refusing, InTheHands, Committed, Silent
<1>3. CASE Asking
  <2>1. Len(dev.rxFifo) = 2 \/ Len(dev.rxFifo) = 1
    <3> DEFINE p == [sts |-> "SetupRx", packet |-> Asked]
               c == [sts |-> "SetupComplete"]
    <3>1. dev.rxFifo = <<p, c>> \/ dev.rxFifo = <<c>>
      BY <1>3 DEF Asking
    <3> HIDE DEF p, c
    <3> QED
      BY <3>1
  <2> QED
    BY <1>3, <2>1, ReadsSetup, StartsRequest
<1>4. CASE Receiving
  BY <1>4, ReceivesData
<1>5. CASE Sending
  <2>1. \/ dev.ctrlState \in {"StatusTx", "DataTx"}
        \/ dev.rxFifo = <<[sts |-> "Rx", bcnt |-> 0], [sts |-> "RxComplete"]>>
        \/ dev.rxFifo = <<[sts |-> "RxComplete"]>>
    BY <1>1, <1>5 DEF Sending
  <2>2. dev.ctrlState \in {"StatusTx", "DataTx"} \/ Len(dev.rxFifo) = 2 \/ Len(dev.rxFifo) = 1
    BY <2>1
  <2> QED
    BY <1>5, <2>2, ReadsStatus, EndsRead, EndsWrite, AwaitsStatus, SendsMore
<1> QED
  BY <1>2, <1>3, <1>4, <1>5 DEF PoliteInv, Phase
-----------------------------------------------------------------------------
(* The steps of the thread.                                                *)

LEMMA HandsStep ==
  ASSUME PoliteInv, TakeTasks \/ StartControl \/ CarryOut \/ Check
  PROVE  PoliteInv'
<1>0. HostTypes /\ DevTypes /\ SendInv
  BY DEF PoliteInv
<1>1. InTheHands
  BY DEF PoliteInv, Phase, TakeTasks, StartControl, CarryOut, Check, Goto, Resting, Asking,
         Refusing, Receiving, Committed, Sending
<1>2. CASE TakeTasks
  <2>1. /\ pc = "wait" /\ pc' = "start" /\ dev' = [dev EXCEPT !.tasks = FALSE]
        /\ UNCHANGED <<host, setup, send, times>>
    BY <1>2 DEF TakeTasks, Goto
  <2>2. HostTypes' /\ DevTypes' /\ SendInv'
    BY <1>0, <2>1 DEF HostTypes, DevTypes, Members, SendInv
  <2>3. InTheHands'
    BY <1>0, <1>1, <2>1 DEF InTheHands, DevTypes, Members, Silent, Disarmed, Unstalled, Asked, Awaiting
  <2> QED
    BY <2>2, <2>3 DEF PoliteInv, Phase
<1>3. CASE StartControl
  <2>1. /\ pc = "start" /\ pc' = "handle" /\ dev' = [dev EXCEPT !.hasResult = FALSE] /\ setup' = dev.setup
        /\ UNCHANGED <<host, send, times>>
    BY <1>3 DEF StartControl, Goto
  <2>2. HostTypes' /\ DevTypes' /\ SendInv'
    BY <1>0, <2>1 DEF HostTypes, DevTypes, Members, SendInv
  <2>3. InTheHands'
    BY <1>0, <1>1, <2>1 DEF InTheHands, DevTypes, Members, Silent, Disarmed, Unstalled, Asked, Awaiting
  <2> QED
    BY <2>2, <2>3 DEF PoliteInv, Phase
<1>4. CASE CarryOut
  <2>1. /\ pc = "handle" /\ pc' = (IF setup.req.supported THEN "check" ELSE "finish")
        /\ UNCHANGED <<host, setup, send>>
    BY <1>4 DEF CarryOut, Goto
  <2>2. setup = Asked /\ times = 0 /\ host.stage = Awaiting
    BY <1>1, <2>1 DEF InTheHands
  <2>3. times' = 1
    <3>1. setup.id = host.id /\ host.stage # "idle"
      BY <2>2 DEF Asked, Packet, Awaiting
    <3>2. Least(times + 1, MaxTimes) = 1
      BY <2>2 DEF Least, MaxTimes
    <3> QED
      BY <1>4, <3>1, <3>2 DEF CarryOut
  <2>4. setup.req = host.req
    BY <2>2 DEF Asked, Packet
  <2>5. /\ DOMAIN dev' = DOMAIN dev /\ dev'.state \in {"Default", "Addressed", "Configured"}
        /\ dev'.rxFifo = dev.rxFifo /\ dev'.txFifo = dev.txFifo /\ dev'.usbrst = dev.usbrst
        /\ dev'.stup = dev.stup /\ dev'.xfrcOut = dev.xfrcOut /\ dev'.xfrcIn = dev.xfrcIn
        /\ dev'.setupCount = dev.setupCount /\ dev'.received = dev.received
        /\ dev'.outReady = dev.outReady /\ dev'.outStall = dev.outStall
        /\ dev'.inSize = dev.inSize /\ dev'.inReady = dev.inReady /\ dev'.inStall = dev.inStall
        /\ dev'.setup = dev.setup /\ dev'.ctrlState = dev.ctrlState /\ dev'.hasResult = dev.hasResult
        /\ dev'.tasks = dev.tasks /\ dev'.failed = dev.failed
    <3>1. setup.req.op \in {"none", "address", "configure"}
      BY <1>0, <2>4, UsbAssumption DEF HostTypes, Request
    <3>2. dev' = SetAddress(dev, setup.req.value) \/ dev' = SetConfiguration(dev, setup.req.value) \/ dev' = dev
      BY <1>4, <3>1 DEF CarryOut
    <3>3. CASE dev' = SetAddress(dev, setup.req.value)
      <4> DEFINE s == CASE dev.state = "Default" /\ setup.req.value # 0   -> "Addressed"
                        [] dev.state = "Addressed" /\ setup.req.value = 0 -> "Default"
                        [] OTHER -> dev.state
      <4>1. s \in {"Default", "Addressed", "Configured"}
        BY <1>0 DEF DevTypes
      <4>2. dev' = [dev EXCEPT !.address = setup.req.value, !.state = s]
        BY <3>3 DEF SetAddress
      <4> HIDE DEF s
      <4> QED
        BY <1>0, <4>1, <4>2 DEF DevTypes, Members
    <3>4. CASE dev' = SetConfiguration(dev, setup.req.value)
      <4>1. \/ dev' = [dev EXCEPT !.config = setup.req.value, !.state = "Configured"]
            \/ dev' = [dev EXCEPT !.config = 0, !.state = "Addressed"] \/ dev' = dev
        BY <3>4 DEF SetConfiguration
      <4> QED
        BY <1>0, <4>1 DEF DevTypes, Members
    <3>5. CASE dev' = dev
      BY <1>0, <3>5 DEF DevTypes
    <3> QED
      BY <3>2, <3>3, <3>4, <3>5
  <2>6. HostTypes' /\ DevTypes' /\ SendInv'
    BY <1>0, <2>1, <2>5 DEF HostTypes, DevTypes, SendInv
  <2>7. InTheHands'
    <3>1. Asked' = Asked /\ Awaiting' = Awaiting
      BY <2>1 DEF Asked, Awaiting
    <3>2. Silent' /\ Disarmed' /\ Unstalled'
      BY <1>1, <2>5 DEF InTheHands, Silent, Disarmed, Unstalled
    <3>3. \/ pc' = "check" /\ host.req.supported
          \/ pc' = "finish" /\ ~host.req.supported
      BY <2>1, <2>4
    <3> QED
      BY <1>1, <2>1, <2>2, <2>3, <2>5, <3>1, <3>2, <3>3 DEF InTheHands
  <2> QED
    BY <2>6, <2>7 DEF PoliteInv, Phase
<1>5. CASE Check
  <2>1. dev.ctrlState = "Processing"
    BY <1>1 DEF InTheHands
  <2>2. pc = "check" /\ pc' = "commit" /\ UNCHANGED <<host, dev, setup, send, times>>
    BY <1>5, <2>1 DEF Check, Goto
  <2>3. HostTypes' /\ DevTypes' /\ SendInv'
    BY <1>0, <2>2 DEF HostTypes, DevTypes, SendInv
  <2>4. InTheHands'
    BY <1>1, <2>2 DEF InTheHands, Silent, Disarmed, Unstalled, Asked, Awaiting
  <2> QED
    BY <2>3, <2>4 DEF PoliteInv, Phase
<1> QED
  BY <1>2, <1>3, <1>4, <1>5

\* The answer is as long as the abstract specification says.
LEMMA AnswerLength ==
  ASSUME NEW r, r.len \in Nat, r.answer \in Nat, NEW id
  PROVE  /\ Left([i \in 1..r.answer |-> id], r.len) \in Seq({id})
         /\ Len(Left([i \in 1..r.answer |-> id], r.len)) = CT!DataLength(r)
<1> DEFINE s == [i \in 1..r.answer |-> id]
<1>1. s \in Seq({id}) /\ Len(s) = r.answer
  OBVIOUS
<1> HIDE DEF s
<1>2. Left(s, r.len) \in Seq({id}) /\ Len(Left(s, r.len)) = Least(r.len, Len(s))
  BY <1>1, LeftAndRest
<1>3. Least(r.len, r.answer) = CT!DataLength(r)
  BY DEF Least, CT!DataLength
<1> QED
  BY <1>1, <1>2, <1>3 DEF s

LEMMA CommitStep ==
  ASSUME Proper, PoliteInv, Commit
  PROVE  PoliteInv'
<1>0. HostTypes /\ DevTypes /\ SendInv
  BY DEF PoliteInv
<1>1. InTheHands
  BY DEF PoliteInv, Phase, Commit, Goto, Resting, Asking, Refusing, Receiving, Committed, Sending
<1>2. /\ setup = Asked /\ dev.setup = Asked /\ times = 1 /\ host.req.supported
      /\ host.stage = Awaiting /\ host.got = <<>> /\ pc = "commit" /\ ~dev.tasks
      /\ Silent /\ Disarmed /\ Unstalled /\ ~dev.failed
  BY <1>1 DEF InTheHands, Commit, Goto
<1>3. setup.id = host.id /\ setup.req = host.req /\ dev.setup.req = host.req
  BY <1>2 DEF Asked, Packet
<1>4. /\ host.req.dir \in {"in", "out"} /\ host.req.len \in Nat /\ host.req.answer \in Nat
      /\ PacketSize \in Nat /\ FifoSize \in Nat
  BY <1>0, ProperRequest
<1> DEFINE data == IF dev.setup.req.dir = "out" THEN <<>>
                   ELSE Left([i \in 1..setup.req.answer |-> setup.id], dev.setup.req.len)
           first == Left(data, PacketSize)
           state == IF dev.setup.req.dir = "out" THEN "StatusTx" ELSE "DataTx"
           remain == IF dev.setup.req.dir = "out" THEN dev.txRemain ELSE Rest(data, PacketSize)
           over == IF Len(data) \in 1..PacketSize THEN [dev.data EXCEPT !.id = 0] ELSE dev.data
<1>5. data \in Seq({host.id}) /\ (host.req.dir = "in" => Len(data) = CT!DataLength(host.req))
  <2>1. CASE host.req.dir = "out"
    BY <1>3, <2>1
  <2>2. CASE host.req.dir = "in"
    BY <1>3, <1>4, <2>2, AnswerLength
  <2> QED
    BY <1>4, <2>1, <2>2
<1>6. /\ send' = first /\ pc' = "transmit" /\ UNCHANGED <<host, setup, times>>
      /\ dev' = [dev EXCEPT !.hasResult = TRUE, !.ctrlState = state, !.txRemain = remain, !.data = over]
  BY DEF Commit, Goto
<1>7. /\ first \in Seq({host.id}) /\ Len(first) <= PacketSize
      /\ Rest(data, PacketSize) \in Seq({host.id}) /\ Len(first) + Len(Rest(data, PacketSize)) = Len(data)
  <2> HIDE DEF data
  <2>1. /\ first \in Seq({host.id}) /\ Rest(data, PacketSize) \in Seq({host.id})
        /\ Len(first) = Least(PacketSize, Len(data)) /\ Len(first) + Len(Rest(data, PacketSize)) = Len(data)
    BY <1>4, <1>5, LeftAndRest
  <2>2. Least(PacketSize, Len(data)) <= PacketSize
    BY <1>4, <1>5, LeastBounds
  <2> QED
    BY <2>1, <2>2
<1>8. /\ host.req.dir = "out" => data = <<>> /\ state = "StatusTx"
      /\ host.req.dir = "in" => state = "DataTx" /\ remain = Rest(data, PacketSize)
  BY <1>3
<1>9. host.req.dir = "out" => first = <<>>
  <2>1. Left(<<>>, PacketSize) = <<>>
    <3>1. <<>> \in Seq({host.id}) /\ Len(<<>>) <= PacketSize
      BY <1>4
    <3> QED
      BY <1>4, <3>1, LeftAndRest
  <2> QED
    BY <1>8, <2>1
<1> HIDE DEF data, first, state, remain, over
<1>10. /\ DOMAIN dev' = DOMAIN dev /\ dev'.hasResult /\ dev'.ctrlState = state /\ dev'.txRemain = remain
       /\ dev'.rxFifo = dev.rxFifo /\ dev'.txFifo = dev.txFifo /\ dev'.usbrst = dev.usbrst
       /\ dev'.stup = dev.stup /\ dev'.xfrcOut = dev.xfrcOut /\ dev'.xfrcIn = dev.xfrcIn
       /\ dev'.setupCount = dev.setupCount /\ dev'.received = dev.received
       /\ dev'.outReady = dev.outReady /\ dev'.outStall = dev.outStall
       /\ dev'.inSize = dev.inSize /\ dev'.inReady = dev.inReady /\ dev'.inStall = dev.inStall
       /\ dev'.setup = dev.setup /\ dev'.state = dev.state
       /\ dev'.tasks = dev.tasks /\ dev'.failed = dev.failed
  BY <1>0, <1>6 DEF DevTypes, Members
<1>11. HostTypes' /\ DevTypes' /\ SendInv'
  <2>1. state \in {"StatusTx", "DataTx"}
    BY <1>4, <1>8
  <2>2. HostTypes' /\ DevTypes'
    BY <1>0, <1>6, <1>10, <2>1 DEF HostTypes, DevTypes
  <2>3. SendInv'
    BY <1>0, <1>6, <1>7, <1>10 DEF SendInv
  <2> QED
    BY <2>2, <2>3
<1>12. Committed'
  <2>1. Silent' /\ Disarmed' /\ Unstalled' /\ Asked' = Asked /\ Awaiting' = Awaiting
    BY <1>2, <1>6, <1>10 DEF Silent, Disarmed, Unstalled, Asked, Awaiting
  <2>2. \/ host.req.dir = "out" /\ host.req.len = 0 /\ state = "StatusTx" /\ first = <<>>
        \/ /\ host.req.dir = "in" /\ state = "DataTx" /\ remain \in Seq({host.id})
           /\ Len(first) + Len(remain) = CT!DataLength(host.req)
    <3>1. CASE host.req.dir = "out"
      <4>1. host.req.len = 0
        BY <1>1, <3>1 DEF InTheHands
      <4> QED
        BY <1>8, <1>9, <3>1, <4>1
    <3>2. CASE host.req.dir = "in"
      BY <1>5, <1>7, <1>8, <3>2
    <3> QED
      BY <1>4, <3>1, <3>2
  <2> QED
    BY <1>2, <1>6, <1>10, <2>1, <2>2 DEF Committed
<1> QED
  BY <1>11, <1>12 DEF PoliteInv, Phase

LEMMA TransmitStep ==
  ASSUME PoliteInv, Transmit
  PROVE  PoliteInv'
<1>0. HostTypes /\ DevTypes /\ SendInv
  BY DEF PoliteInv
<1>1. Committed
  BY DEF PoliteInv, Phase, Transmit, Goto, Resting, Asking, Refusing, Receiving, InTheHands, Sending
<1>2. Len(send) \in Nat /\ Len(send) <= PacketSize /\ dev.txFifo = <<>>
  BY <1>0, <1>1 DEF SendInv, Committed, Disarmed
<1> DEFINE n == Len(send)
<1>3. n \in 0..PacketSize /\ (n = 0 <=> send = <<>>)
  BY <1>0, <1>2, UsbAssumption DEF SendInv
<1> HIDE DEF n
<1>4. /\ pc' = "write" /\ UNCHANGED <<host, setup, send, times>>
      /\ dev' = [dev EXCEPT !.inSize = n, !.inReady = TRUE]
  BY DEF Transmit, TransmitPacket, Goto, n
<1>5. /\ DOMAIN dev' = DOMAIN dev /\ dev'.inSize = n /\ dev'.inReady
      /\ dev'.hasResult = dev.hasResult /\ dev'.ctrlState = dev.ctrlState /\ dev'.txRemain = dev.txRemain
      /\ dev'.rxFifo = dev.rxFifo /\ dev'.txFifo = dev.txFifo /\ dev'.usbrst = dev.usbrst
      /\ dev'.stup = dev.stup /\ dev'.xfrcOut = dev.xfrcOut /\ dev'.xfrcIn = dev.xfrcIn
      /\ dev'.setupCount = dev.setupCount /\ dev'.received = dev.received
      /\ dev'.outReady = dev.outReady /\ dev'.outStall = dev.outStall /\ dev'.inStall = dev.inStall
      /\ dev'.setup = dev.setup /\ dev'.state = dev.state
      /\ dev'.tasks = dev.tasks /\ dev'.failed = dev.failed
  BY <1>0, <1>4 DEF DevTypes, Members
<1>6. HostTypes' /\ DevTypes'
  BY <1>0, <1>3, <1>4, <1>5 DEF HostTypes, DevTypes
<1>7. SendInv'
  <2>1. Len(dev.txFifo) <= n
    BY <1>2, <1>3
  <2> QED
    BY <1>0, <1>2, <1>4, <1>5, <2>1 DEF SendInv, n
<1>8. Sending'
  <2>1. /\ ~dev.tasks /\ ~dev.failed /\ Unstalled /\ dev.setup = Asked /\ host.req.supported /\ times = 1
        /\ dev.hasResult /\ setup = Asked /\ host.stage = Awaiting /\ host.got = <<>> /\ Silent /\ Disarmed
    BY <1>1 DEF Committed
  <2>2. \/ host.req.dir = "out" /\ host.req.len = 0 /\ dev.ctrlState = "StatusTx" /\ send = <<>>
        \/ /\ host.req.dir = "in" /\ dev.ctrlState = "DataTx" /\ dev.txRemain \in Seq({host.id})
           /\ Len(send) + Len(dev.txRemain) = CT!DataLength(host.req)
    BY <1>1 DEF Committed
  <2>3. Unstalled' /\ Asked' = Asked
    BY <1>4, <1>5, <2>1 DEF Unstalled, Asked
  <2>4. CASE host.req.dir = "out"
    <3>1. host.stage = "statusIn" /\ n = 0
      BY <1>3, <2>1, <2>2, <2>4 DEF Awaiting
    <3> QED
      BY <1>4, <1>5, <2>1, <2>2, <2>3, <2>4, <3>1 DEF Sending, Silent, Disarmed
  <2>5. CASE host.req.dir = "in"
    <3>1. host.stage = "dataIn"
      BY <2>1, <2>5 DEF Awaiting
    <3>2. Len(host.got) + n + Len(dev.txRemain) = CT!DataLength(host.req)
      <4>1. Len(host.got) = 0 /\ n \in Nat /\ 0 + n = n
        BY <1>3, <2>1, UsbAssumption
      <4> QED
        BY <2>2, <2>5, <4>1 DEF n
    <3> QED
      BY <1>4, <1>5, <2>1, <2>2, <2>3, <2>5, <3>1, <3>2 DEF Sending, Silent, Disarmed
  <2> QED
    BY <2>2, <2>4, <2>5
<1> QED
  BY <1>6, <1>7, <1>8 DEF PoliteInv, Phase

LEMMA WriteStep ==
  ASSUME PoliteInv, Write
  PROVE  PoliteInv'
<1>0. HostTypes /\ DevTypes /\ SendInv
  BY DEF PoliteInv
<1>1. pc = "write" /\ (Resting \/ Sending)
  BY DEF PoliteInv, Phase, Write, Goto, Asking, Refusing, Receiving, InTheHands, Committed
<1>2. FifoSize \in Nat /\ send \in Seq({host.id}) /\ dev.txFifo \in Seq({host.id}) /\ Len(dev.txFifo) <= FifoSize
  BY <1>0, UsbAssumption DEF SendInv, DevTypes
<1> DEFINE w == Left(dev.txFifo \o send, FifoSize)
<1>3. /\ w \in Seq({host.id}) /\ Len(w) <= FifoSize
      /\ ~dev.inReady => w = <<>>
      /\ dev.inReady => Len(w) <= dev.inSize
  <2>1. CASE send = <<>>
    <3>1. dev.txFifo \o send = dev.txFifo
      BY <1>2, <2>1
    <3>2. w = dev.txFifo
      BY <1>2, <3>1, LeftAndRest
    <3> HIDE DEF w
    <3> QED
      BY <1>0, <1>2, <3>2 DEF SendInv
  <2>2. CASE send # <<>>
    <3>1. dev.inReady /\ dev.txFifo = <<>> /\ dev.inSize = Len(send)
      BY <1>0, <1>1, <2>2 DEF SendInv
    <3>2. dev.txFifo \o send = send
      BY <1>2, <3>1
    <3>3. w \in Seq({host.id}) /\ Len(w) = Least(FifoSize, Len(send))
      BY <1>2, <3>2, LeftAndRest
    <3>4. Least(FifoSize, Len(send)) <= FifoSize /\ Least(FifoSize, Len(send)) <= Len(send)
      <4>1. Len(send) \in Nat
        BY <1>2
      <4> QED
        BY <1>2, <4>1, LeastBounds
    <3> HIDE DEF w
    <3> QED
      BY <3>1, <3>3, <3>4
  <2> QED
    BY <2>1, <2>2
<1> HIDE DEF w
<1>4. /\ pc' = "finish" /\ send' = <<>> /\ UNCHANGED <<host, setup, times>>
      /\ dev' = [dev EXCEPT !.txFifo = w]
  BY DEF Write, TxFifoWrite, Goto, w
<1>5. /\ DOMAIN dev' = DOMAIN dev /\ dev'.txFifo = w /\ dev'.inSize = dev.inSize /\ dev'.inReady = dev.inReady
      /\ dev'.hasResult = dev.hasResult /\ dev'.ctrlState = dev.ctrlState /\ dev'.txRemain = dev.txRemain
      /\ dev'.rxFifo = dev.rxFifo /\ dev'.usbrst = dev.usbrst
      /\ dev'.stup = dev.stup /\ dev'.xfrcOut = dev.xfrcOut /\ dev'.xfrcIn = dev.xfrcIn
      /\ dev'.setupCount = dev.setupCount /\ dev'.received = dev.received
      /\ dev'.outReady = dev.outReady /\ dev'.outStall = dev.outStall /\ dev'.inStall = dev.inStall
      /\ dev'.setup = dev.setup /\ dev'.state = dev.state
      /\ dev'.tasks = dev.tasks /\ dev'.failed = dev.failed
  BY <1>0, <1>4 DEF DevTypes, Members
<1>6. HostTypes' /\ DevTypes'
  BY <1>0, <1>3, <1>4, <1>5 DEF HostTypes, DevTypes
<1>7. SendInv'
  <2>1. <<>> \in Seq({host.id}) /\ Len(<<>>) <= PacketSize
    BY UsbAssumption
  <2> QED
    BY <1>0, <1>3, <1>4, <1>5, <2>1 DEF SendInv
<1>8. Resting => Resting'
  BY <1>1, <1>4, <1>5 DEF Resting, Silent, Disarmed
<1>9. Sending => Sending'
  <2> SUFFICES ASSUME Sending PROVE Sending'
    OBVIOUS
  <2>1. Unstalled' /\ Asked' = Asked
    BY <1>4, <1>5 DEF Sending, Unstalled, Asked
  <2> QED
    BY <1>1, <1>4, <1>5, <2>1 DEF Sending
<1> QED
  BY <1>1, <1>6, <1>7, <1>8, <1>9 DEF PoliteInv, Phase

LEMMA FinishStep ==
  ASSUME PoliteInv, Finish
  PROVE  PoliteInv'
<1>0. HostTypes /\ DevTypes /\ SendInv
  BY DEF PoliteInv
<1>1. /\ pc = "finish" /\ (Resting \/ InTheHands \/ Sending) /\ UNCHANGED <<host, dev, setup, send, times>>
      /\ \/ dev.hasResult /\ pc' = "wait"
         \/ ~dev.hasResult /\ pc' = "stallOut"
  BY DEF PoliteInv, Phase, Finish, Goto, Asking, Refusing, Receiving, Committed
<1>2. HostTypes' /\ DevTypes' /\ SendInv'
  BY <1>0, <1>1 DEF HostTypes, DevTypes, SendInv
<1>3. Resting => Resting'
  BY <1>1 DEF Resting, Silent, Disarmed
<1>4. InTheHands => InTheHands'
  BY <1>1 DEF InTheHands, Silent, Disarmed, Unstalled, Asked, Awaiting
<1>5. Sending => Sending'
  <2> SUFFICES ASSUME Sending PROVE Sending'
    OBVIOUS
  <2>1. Unstalled' /\ Asked' = Asked
    BY <1>1 DEF Sending, Unstalled, Asked
  <2>2. dev.hasResult /\ pc' = "wait"
    BY <1>1 DEF Sending
  <2> QED
    BY <1>1, <2>1, <2>2 DEF Sending
<1> QED
  BY <1>1, <1>2, <1>3, <1>4, <1>5 DEF PoliteInv, Phase

LEMMA StallStep ==
  ASSUME PoliteInv, Stall
  PROVE  PoliteInv'
<1>0. HostTypes /\ DevTypes /\ SendInv
  BY DEF PoliteInv
<1>1. /\ pc \in {"stallOut", "stallIn", "rearm", "idle", "stalled"} /\ (InTheHands \/ Refusing)
      /\ UNCHANGED <<host, setup, send, times>>
  BY DEF PoliteInv, Phase, Stall, Goto, Resting, Asking, Receiving, Committed, Sending
<1>2. Asked' = Asked /\ Awaiting' = Awaiting /\ Awaiting \in {"dataIn", "statusIn"}
  BY <1>1 DEF Asked, Awaiting
<1>3. HostTypes' /\ send = <<>> /\ dev.txFifo = <<>> /\ ~dev.inReady
  BY <1>0, <1>1 DEF HostTypes, SendInv, InTheHands, Refusing, Disarmed
<1>4. CASE pc = "stallOut"
  <2>1. pc' = "stallIn" /\ dev' = [dev EXCEPT !.outReady = FALSE, !.outStall = TRUE]
    BY <1>4 DEF Stall, Goto, StallOut
  <2>2. DevTypes' /\ SendInv'
    <3>1. DevTypes'
      BY <1>0, <1>1, <2>1 DEF DevTypes, Members
    <3>2. dev'.txFifo = <<>> /\ ~dev'.inReady /\ pc' = "stallIn" /\ send' = <<>>
      BY <1>0, <1>1, <1>3, <2>1 DEF DevTypes, Members
    <3>3. SendInv'
      BY <1>0, <1>1, <1>3, <3>2 DEF SendInv
    <3> QED
      BY <3>1, <3>3
  <2>3. InTheHands
    BY <1>1, <1>4 DEF Refusing
  <2>4. Refusing'
    BY <1>0, <1>1, <1>2, <1>4, <2>1, <2>3 DEF InTheHands, Refusing, DevTypes, Members, Silent, Disarmed, Unstalled
  <2> QED
    BY <1>3, <2>2, <2>4 DEF PoliteInv, Phase
<1>5. CASE pc = "stallIn"
  <2>1. pc' = "rearm" /\ dev' = [dev EXCEPT !.inReady = FALSE, !.inStall = TRUE]
    BY <1>5 DEF Stall, Goto, StallIn
  <2>2. DevTypes' /\ SendInv'
    <3>1. DevTypes'
      BY <1>0, <1>1, <2>1 DEF DevTypes, Members
    <3>2. dev'.txFifo = <<>> /\ ~dev'.inReady /\ pc' = "rearm" /\ send' = <<>>
      BY <1>0, <1>1, <1>3, <2>1 DEF DevTypes, Members
    <3>3. SendInv'
      BY <1>0, <1>1, <1>3, <3>2 DEF SendInv
    <3> QED
      BY <3>1, <3>3
  <2>3. Refusing
    BY <1>1, <1>5 DEF InTheHands
  <2>4. Refusing'
    BY <1>0, <1>1, <1>2, <1>5, <2>1, <2>3 DEF Refusing, DevTypes, Members, Silent, Disarmed
  <2> QED
    BY <1>3, <2>2, <2>4 DEF PoliteInv, Phase
<1>6. CASE pc = "rearm"
  <2>1. pc' = "idle" /\ dev' = [dev EXCEPT !.setupCount = 3]
    BY <1>6 DEF Stall, Goto, ConfigureSetup
  <2>2. DevTypes' /\ SendInv'
    <3>1. DevTypes'
      BY <1>0, <1>1, <2>1 DEF DevTypes, Members
    <3>2. dev'.txFifo = <<>> /\ ~dev'.inReady /\ pc' = "idle" /\ send' = <<>>
      BY <1>0, <1>1, <1>3, <2>1 DEF DevTypes, Members
    <3>3. SendInv'
      BY <1>0, <1>1, <1>3, <3>2 DEF SendInv
    <3> QED
      BY <3>1, <3>3
  <2>3. Refusing
    BY <1>1, <1>6 DEF InTheHands
  <2>4. Refusing'
    BY <1>0, <1>1, <1>2, <1>6, <2>1, <2>3 DEF Refusing, DevTypes, Members, Silent, Disarmed
  <2> QED
    BY <1>3, <2>2, <2>4 DEF PoliteInv, Phase
<1>7. CASE pc = "idle"
  <2>1. pc' = "stalled" /\ dev' = [dev EXCEPT !.ctrlState = "Idle"]
    BY <1>7 DEF Stall, Goto
  <2>2. DevTypes' /\ SendInv'
    <3>1. DevTypes'
      BY <1>0, <1>1, <2>1 DEF DevTypes, Members
    <3>2. dev'.txFifo = <<>> /\ ~dev'.inReady /\ pc' = "stalled" /\ send' = <<>>
      BY <1>0, <1>1, <1>3, <2>1 DEF DevTypes, Members
    <3>3. SendInv'
      BY <1>0, <1>1, <1>3, <3>2 DEF SendInv
    <3> QED
      BY <3>1, <3>3
  <2>3. Refusing
    BY <1>1, <1>7 DEF InTheHands
  <2>4. Refusing'
    BY <1>0, <1>1, <1>2, <1>7, <2>1, <2>3 DEF Refusing, DevTypes, Members, Silent, Disarmed
  <2> QED
    BY <1>3, <2>2, <2>4 DEF PoliteInv, Phase
<1>8. CASE pc = "stalled"
  <2>1. pc' = "wait" /\ dev' = [dev EXCEPT !.ctrlState = "Stall"]
    BY <1>8 DEF Stall, Goto
  <2>2. DevTypes' /\ SendInv'
    <3>1. DevTypes'
      BY <1>0, <1>1, <2>1 DEF DevTypes, Members
    <3>2. dev'.txFifo = <<>> /\ ~dev'.inReady /\ pc' = "wait" /\ send' = <<>>
      BY <1>0, <1>1, <1>3, <2>1 DEF DevTypes, Members
    <3>3. SendInv'
      BY <1>0, <1>1, <1>3, <3>2 DEF SendInv
    <3> QED
      BY <3>1, <3>3
  <2>3. Refusing
    BY <1>1, <1>8 DEF InTheHands
  <2>4. host.stage = Awaiting => Refusing'
    BY <1>0, <1>1, <1>2, <1>8, <2>1, <2>3 DEF Refusing, DevTypes, Members, Silent, Disarmed
  <2>5. host.stage = "idle" => Resting'
    BY <1>0, <1>1, <1>2, <1>8, <2>1, <2>3 DEF Refusing, Resting, DevTypes, Members, Silent, Disarmed
  <2>6. host.stage \in {"idle", Awaiting}
    BY <1>8, <2>3 DEF Refusing
  <2> QED
    BY <1>3, <2>2, <2>4, <2>5, <2>6 DEF PoliteInv, Phase
<1> QED
  BY <1>1, <1>4, <1>5, <1>6, <1>7, <1>8

LEMMA PoliteThread ==
  ASSUME Proper, PoliteInv, Thread
  PROVE  PoliteInv'
BY HandsStep, CommitStep, TransmitStep, WriteStep, FinishStep, StallStep DEF Thread
-----------------------------------------------------------------------------
(* The steps of the host.                                                  *)

\* The device is at rest when the host asks.
LEMMA AsksAtRest ==
  ASSUME Polite, PoliteInv, Ask
  PROVE  Resting /\ pc = "wait"
<1>1. host.stage = "idle" /\ ~Busy
  BY DEF Ask, Polite
<1>2. /\ ~Interrupt
      /\ pc \in {"wait", "handle", "check"}
  BY <1>1 DEF Busy
<1>3. dev.rxFifo = <<>> /\ ~dev.xfrcIn
  BY <1>2 DEF Interrupt
<1>4. ~Asking /\ ~Receiving /\ ~InTheHands /\ ~Committed
  <2>1. Awaiting # "idle"
    BY DEF Awaiting
  <2> QED
    BY <1>1, <2>1 DEF Asking, Receiving, InTheHands, Committed
<1>5. ~Refusing
  BY <1>1, <1>2 DEF Refusing, Awaiting
<1>6. ~Sending
  BY <1>1, <1>3 DEF Sending
<1>7. Resting
  BY <1>4, <1>5, <1>6 DEF PoliteInv, Phase
<1> QED
  BY <1>2, <1>7 DEF Resting

LEMMA AskStep ==
  ASSUME Polite, PoliteInv, Ask
  PROVE  PoliteInv'
<1>0. HostTypes /\ DevTypes /\ SendInv
  BY DEF PoliteInv
<1>1. Resting /\ pc = "wait"
  BY AsksAtRest
<1> PICK r \in Requests :
      LET id == (host.id % 3) + 1 IN
      /\ InOrder(r)
      /\ host' = [host EXCEPT
            !.stage = CASE r.len = 0 -> "statusIn"
                        [] r.len > 0 /\ r.dir = "in"  -> "dataIn"
                        [] r.len > 0 /\ r.dir = "out" -> "dataOut",
            !.req = r, !.id = id, !.got = <<>>, !.result = "none"]
      /\ dev' = [dev EXCEPT
            !.rxFifo = @ \o <<[sts |-> "SetupRx", packet |-> Packet(r, id)],
                              [sts |-> "SetupComplete"]>>,
            !.setupCount = IF @ = 0 THEN 0 ELSE @ - 1,
            !.outReady = FALSE, !.inReady = FALSE, !.outStall = FALSE, !.inStall = FALSE]
  BY DEF Ask
<1> DEFINE id == (host.id % 3) + 1
           stage == CASE r.len = 0 -> "statusIn"
                      [] r.len > 0 /\ r.dir = "in"  -> "dataIn"
                      [] r.len > 0 /\ r.dir = "out" -> "dataOut"
           added == <<[sts |-> "SetupRx", packet |-> Packet(r, id)], [sts |-> "SetupComplete"]>>
<1>2. id \in Ids
  BY <1>0 DEF HostTypes, Ids
<1>3. r.len \in Nat /\ r.dir \in {"in", "out"}
  BY UsbAssumption DEF Request
<1>4. stage = (IF r.len = 0 THEN "statusIn" ELSE IF r.dir = "in" THEN "dataIn" ELSE "dataOut")
  BY <1>3
<1>5. dev.rxFifo = <<>> /\ dev.setupCount = 3 /\ dev.rxFifo \o added = added
  BY <1>1 DEF Resting, Silent
<1> HIDE DEF id, stage
<1>6. host' = [host EXCEPT !.stage = stage, !.req = r, !.id = id, !.got = <<>>, !.result = "none"]
  BY DEF id, stage
<1>7. dev' = [dev EXCEPT !.rxFifo = added, !.setupCount = 2,
                         !.outReady = FALSE, !.inReady = FALSE, !.outStall = FALSE, !.inStall = FALSE]
  <2>1. (IF dev.setupCount = 0 THEN 0 ELSE dev.setupCount - 1) = 2
    BY <1>5
  <2>2. dev' = [dev EXCEPT !.rxFifo = dev.rxFifo \o added,
                           !.setupCount = IF dev.setupCount = 0 THEN 0 ELSE dev.setupCount - 1,
                           !.outReady = FALSE, !.inReady = FALSE, !.outStall = FALSE, !.inStall = FALSE]
    BY DEF id
  <2> QED
    BY <1>5, <2>1, <2>2
<1>8. /\ DOMAIN host' = DOMAIN host /\ host'.stage = stage /\ host'.req = r /\ host'.id = id
      /\ host'.got = <<>> /\ host'.result = "none"
  BY <1>0, <1>6 DEF HostTypes
<1>9. Packet(r, id) = Asked'
  BY <1>8 DEF Asked
<1> HIDE DEF added
<1>10. /\ DOMAIN dev' = DOMAIN dev /\ dev'.rxFifo = added /\ dev'.setupCount = 2
       /\ ~dev'.outReady /\ ~dev'.inReady /\ ~dev'.outStall /\ ~dev'.inStall
       /\ dev'.txFifo = dev.txFifo /\ dev'.usbrst = dev.usbrst /\ dev'.stup = dev.stup
       /\ dev'.xfrcOut = dev.xfrcOut /\ dev'.xfrcIn = dev.xfrcIn /\ dev'.received = dev.received
       /\ dev'.inSize = dev.inSize /\ dev'.ctrlState = dev.ctrlState /\ dev'.state = dev.state
       /\ dev'.tasks = dev.tasks /\ dev'.failed = dev.failed
  BY <1>0, <1>7 DEF DevTypes, Members
<1>11. times' = 0 /\ pc' = pc /\ send' = send
  BY DEF Ask, thread
<1>12. dev.txFifo = <<>> /\ send = <<>>
  BY <1>0, <1>1 DEF SendInv, Resting, Disarmed
<1>13. <<>> \in Seq({id}) /\ Len(<<>>) = 0 /\ PacketSize \in Nat /\ FifoSize \in Nat
  BY UsbAssumption
<1>14. HostTypes'
  <2>1. stage \in {"idle", "dataIn", "dataOut", "statusIn", "statusOut"}
    BY <1>4
  <2> QED
    BY <1>0, <1>2, <1>3, <1>8, <1>13, <2>1 DEF HostTypes
<1>15. DevTypes'
  <2>1. dev'.txFifo \in Seq({host'.id}) /\ Len(dev'.txFifo) <= FifoSize /\ dev'.setupCount \in 0..3
    <3>1. dev'.txFifo = <<>> /\ host'.id = id /\ dev'.setupCount = 2
      BY <1>8, <1>10, <1>12
    <3>2. 0 <= FifoSize /\ 2 \in 0..3
      BY <1>13
    <3> QED
      BY <1>13, <3>1, <3>2
  <2>2. ~dev'.usbrst /\ ~dev'.stup /\ ~dev'.xfrcOut
    BY <1>0, <1>10 DEF DevTypes
  <2> QED
    BY <1>0, <1>10, <2>1, <2>2 DEF DevTypes
<1>16. SendInv'
  BY <1>1, <1>8, <1>10, <1>11, <1>12, <1>13 DEF SendInv
<1>17. Asking'
  <2>1. added = <<[sts |-> "SetupRx", packet |-> Asked'], [sts |-> "SetupComplete"]>>
    BY <1>9 DEF added
  <2>2. dev.ctrlState \in {"Idle", "Stall"} /\ ~dev.tasks /\ ~dev.failed /\ ~dev.xfrcIn
    BY <1>1 DEF Resting, Silent
  <2>3. Disarmed' /\ Unstalled'
    BY <1>10 DEF Disarmed, Unstalled
  <2>4. host'.stage = (IF host'.req.len = 0 THEN "statusIn" ELSE IF host'.req.dir = "in" THEN "dataIn" ELSE "dataOut")
    BY <1>4, <1>8
  <2>5. /\ dev'.rxFifo = <<[sts |-> "SetupRx", packet |-> Asked'], [sts |-> "SetupComplete"]>>
        /\ dev'.ctrlState \in {"Idle", "Stall"}
    BY <1>10, <2>1, <2>2
  <2>6. /\ host'.got = <<>> /\ times' = 0 /\ pc' = "wait" /\ ~dev'.tasks /\ ~dev'.failed /\ ~dev'.xfrcIn
        /\ dev'.setupCount = 2
    BY <1>1, <1>8, <1>10, <1>11, <2>2
  <2> QED
    BY <2>3, <2>4, <2>5, <2>6 DEF Asking
<1> QED
  BY <1>14, <1>15, <1>16, <1>17 DEF PoliteInv, Phase

\* Only a request that is refused ends by a stall.
LEMMA StallRefuses ==
  ASSUME PoliteInv, SeeStall
  PROVE  Refusing /\ host.stage # "idle" /\ pc # "stallIn"
<1>1. host.stage # "idle"
  BY DEF SeeStall
<1>2. dev.inStall \/ dev.outStall
  BY DEF SeeStall
<1>3. Refusing
  BY <1>1, <1>2 DEF PoliteInv, Phase, Resting, Asking, Receiving, InTheHands, Committed, Sending, Unstalled
<1>4. pc # "stallIn"
  <2> SUFFICES ASSUME pc = "stallIn" PROVE FALSE
    OBVIOUS
  <2>1. ~dev.inStall /\ host.stage \in {"dataIn", "statusIn"}
    BY <1>3 DEF Refusing, Awaiting
  <2> QED
    BY <2>1 DEF SeeStall
<1> QED
  BY <1>1, <1>3, <1>4

LEMMA SeeStallStep ==
  ASSUME PoliteInv, SeeStall
  PROVE  PoliteInv'
<1>0. HostTypes /\ DevTypes /\ SendInv
  BY DEF PoliteInv
<1>1. Refusing /\ pc # "stallIn"
  BY StallRefuses
<1>2. UNCHANGED <<dev, thread, times>>
  BY DEF SeeStall
<1>3. host' = [[host EXCEPT !.stage = "idle", !.result = "refused"] EXCEPT !.address = host.address, !.config = host.config]
  BY DEF SeeStall, Ends
<1>4. /\ DOMAIN host' = DOMAIN host /\ host'.stage = "idle" /\ host'.result = "refused"
      /\ host'.req = host.req /\ host'.id = host.id /\ host'.got = host.got
  BY <1>0, <1>3 DEF HostTypes
<1>5. HostTypes' /\ DevTypes' /\ SendInv'
  BY <1>0, <1>2, <1>4 DEF HostTypes, DevTypes, SendInv, thread
<1>6. Asked' = Asked /\ Awaiting' = Awaiting
  BY <1>4 DEF Asked, Awaiting
<1>7. CASE pc = "wait"
  <2>1. Resting'
    BY <1>1, <1>2, <1>4, <1>7 DEF Refusing, Resting, Silent, Disarmed, thread
  <2> QED
    BY <1>5, <2>1 DEF PoliteInv, Phase
<1>8. CASE pc # "wait"
  <2>1. Refusing'
    BY <1>1, <1>2, <1>4, <1>6, <1>8 DEF Refusing, Silent, Disarmed, thread
  <2> QED
    BY <1>5, <2>1 DEF PoliteInv, Phase
<1> QED
  BY <1>7, <1>8

\* The host takes the packet whole, and only while the device is sending.
LEMMA TakesWhole ==
  ASSUME PoliteInv, TakePacket
  PROVE  /\ Sending /\ dev.inReady /\ dev.inSize \in Nat /\ Len(dev.txFifo) = dev.inSize
         /\ Left(dev.txFifo, dev.inSize) = dev.txFifo /\ Rest(dev.txFifo, dev.inSize) = <<>>
         /\ pc = "write" => send = <<>>
         /\ \/ dev.ctrlState = "StatusTx" /\ host.stage = "statusIn" /\ dev.inSize = 0 /\ host.got = <<>>
               /\ host.req.dir = "out" /\ host.req.len = 0
            \/ /\ dev.ctrlState = "DataTx" /\ host.stage = "dataIn" /\ host.req.dir = "in"
               /\ dev.txRemain \in Seq({host.id})
               /\ Len(host.got) + dev.inSize + Len(dev.txRemain) = CT!DataLength(host.req)
<1>0. HostTypes /\ DevTypes /\ SendInv
  BY DEF PoliteInv
<1>1. /\ host.stage \in {"dataIn", "statusIn"} /\ dev.inReady /\ Len(dev.txFifo) >= dev.inSize
  BY DEF TakePacket
<1>2. Sending
  BY <1>1 DEF PoliteInv, Phase, Resting, Asking, Refusing, Receiving, InTheHands, Committed, Disarmed
<1>3. dev.inSize \in Nat /\ dev.txFifo \in Seq({host.id}) /\ Len(dev.txFifo) \in Nat
  BY <1>0, UsbAssumption DEF DevTypes
<1>4. Len(dev.txFifo) = dev.inSize
  <2>1. Len(dev.txFifo) <= dev.inSize
    BY <1>0, <1>1 DEF SendInv
  <2> QED
    BY <1>1, <1>3, <2>1
<1>5. Left(dev.txFifo, dev.inSize) = dev.txFifo /\ Rest(dev.txFifo, dev.inSize) = <<>>
  <2>1. Len(dev.txFifo) <= dev.inSize
    BY <1>3, <1>4
  <2> QED
    BY <1>3, <2>1, LeftAndRest
<1>6. pc = "write" => send = <<>>
  <2> SUFFICES ASSUME pc = "write", send # <<>> PROVE FALSE
    OBVIOUS
  <2>1. dev.txFifo = <<>> /\ dev.inSize = Len(send)
    BY <1>0 DEF SendInv
  <2>2. Len(send) = 0 /\ send \in Seq({host.id})
    BY <1>0, <1>4, <2>1 DEF SendInv
  <2> QED
    BY <2>2
<1>7. \/ dev.ctrlState = "StatusTx" /\ host.stage = "statusIn" /\ dev.inSize = 0 /\ host.got = <<>>
         /\ host.req.dir = "out" /\ host.req.len = 0
      \/ /\ dev.ctrlState = "DataTx" /\ host.stage = "dataIn" /\ host.req.dir = "in"
         /\ dev.txRemain \in Seq({host.id})
         /\ Len(host.got) + dev.inSize + Len(dev.txRemain) = CT!DataLength(host.req)
  BY <1>1, <1>2 DEF Sending
<1> QED
  BY <1>1, <1>2, <1>3, <1>4, <1>5, <1>6, <1>7

LEMMA TakePacketStep ==
  ASSUME Proper, PoliteInv, TakePacket
  PROVE  PoliteInv'
<1>0. HostTypes /\ DevTypes /\ SendInv
  BY DEF PoliteInv
<1> DEFINE n == dev.inSize
<1>1. /\ Sending /\ dev.inReady /\ n \in Nat /\ Len(dev.txFifo) = n
      /\ Left(dev.txFifo, n) = dev.txFifo /\ Rest(dev.txFifo, n) = <<>>
      /\ pc = "write" => send = <<>>
  BY TakesWhole
<1>2. UNCHANGED <<pc, setup, send, times>> /\ dev' = [dev EXCEPT !.inReady = FALSE, !.xfrcIn = TRUE, !.txFifo = <<>>]
  BY <1>1 DEF TakePacket, thread
<1>3. /\ DOMAIN dev' = DOMAIN dev /\ ~dev'.inReady /\ dev'.xfrcIn /\ dev'.txFifo = <<>>
      /\ dev'.rxFifo = dev.rxFifo /\ dev'.hasResult = dev.hasResult /\ dev'.usbrst = dev.usbrst
      /\ dev'.stup = dev.stup /\ dev'.xfrcOut = dev.xfrcOut /\ dev'.setupCount = dev.setupCount
      /\ dev'.received = dev.received /\ dev'.outReady = dev.outReady /\ dev'.outStall = dev.outStall
      /\ dev'.inSize = dev.inSize /\ dev'.inStall = dev.inStall /\ dev'.txRemain = dev.txRemain
      /\ dev'.setup = dev.setup /\ dev'.ctrlState = dev.ctrlState /\ dev'.failed = dev.failed
      /\ dev'.tasks = dev.tasks /\ dev'.state = dev.state
  BY <1>0, <1>2 DEF DevTypes, Members
<1>4. /\ ~dev.tasks /\ ~dev.failed /\ Unstalled /\ dev.setup = Asked /\ host.req.supported /\ times = 1
      /\ pc \in {"write", "finish", "wait"} /\ (pc # "wait" => dev.hasResult /\ setup = Asked)
      /\ dev.rxFifo = <<>> /\ ~dev.outReady
  BY <1>1 DEF Sending
<1>5. Unstalled'
  BY <1>3, <1>4 DEF Unstalled
<1>7. <<>> \in Seq({host.id}) /\ Len(<<>>) <= FifoSize
  BY UsbAssumption
<1>8. host'.id = host.id => DevTypes' /\ SendInv'
  <2> SUFFICES ASSUME host'.id = host.id PROVE DevTypes' /\ SendInv'
    OBVIOUS
  <2>1. DevTypes'
    BY <1>0, <1>3, <1>7 DEF DevTypes
  <2>2. SendInv'
    BY <1>0, <1>1, <1>2, <1>3 DEF SendInv
  <2> QED
    BY <2>1, <2>2
<1>9. CASE dev.ctrlState = "StatusTx"
  <2>1. host.stage = "statusIn" /\ n = 0 /\ host.got = <<>> /\ host.req.dir = "out" /\ host.req.len = 0
    BY <1>9, TakesWhole
  <2>2. host' = Ends(host, IF n = 0 THEN "answered" ELSE "error")
    BY <2>1 DEF TakePacket
  <2> DEFINE a == IF host.req.op = "address" THEN host.req.value ELSE host.address
             c == IF host.req.op = "configure" THEN host.req.value ELSE host.config
  <2>3. host' = [host EXCEPT !.stage = "idle", !.result = "answered", !.address = a, !.config = c]
    BY <2>1, <2>2 DEF Ends
  <2> HIDE DEF a, c
  <2>4. /\ DOMAIN host' = DOMAIN host /\ host'.stage = "idle" /\ host'.result = "answered"
        /\ host'.req = host.req /\ host'.id = host.id /\ host'.got = host.got
    BY <1>0, <2>3 DEF HostTypes
  <2>5. HostTypes'
    BY <1>0, <2>4 DEF HostTypes
  <2>6. Asked' = Asked
    BY <2>4 DEF Asked
  <2>7. Sending'
    BY <1>2, <1>3, <1>4, <1>5, <1>9, <2>1, <2>4, <2>6 DEF Sending
  <2> QED
    BY <1>8, <2>4, <2>5, <2>7 DEF PoliteInv, Phase
<1>10. CASE dev.ctrlState = "DataTx"
  <2>1. /\ host.stage = "dataIn" /\ host.req.dir = "in" /\ dev.txRemain \in Seq({host.id})
        /\ Len(host.got) + n + Len(dev.txRemain) = CT!DataLength(host.req)
    BY <1>10, TakesWhole
  <2> DEFINE got == host.got \o dev.txFifo
  <2>2. got \in Seq({host.id}) /\ Len(got) = Len(host.got) + n /\ Len(got) \in Nat /\ Len(dev.txRemain) \in Nat
    BY <1>0, <1>1, <2>1 DEF HostTypes, DevTypes
  <2>3. \/ host' = [host EXCEPT !.got = got]
        \/ host' = [host EXCEPT !.got = got, !.stage = "statusOut"]
    BY <1>1, <2>1 DEF TakePacket
  <2> HIDE DEF got
  <2>4. /\ DOMAIN host' = DOMAIN host /\ host'.stage \in {"dataIn", "statusOut"} /\ host'.result = host.result
        /\ host'.req = host.req /\ host'.id = host.id /\ host'.got = got
    BY <1>0, <2>1, <2>3 DEF HostTypes
  <2>5. Len(got) + Len(dev.txRemain) = CT!DataLength(host.req)
    BY <2>1, <2>2
  <2>6. Len(got) <= host.req.len
    <3>1. CT!DataLength(host.req) <= host.req.len /\ host.req.len \in Nat
      BY <1>0, ProperRequest DEF CT!DataLength
    <3> HIDE DEF CT!DataLength
    <3>2. Len(got) <= Len(got) + Len(dev.txRemain)
      BY <2>2
    <3> QED
      BY <2>2, <2>5, <3>1, <3>2
  <2>7. HostTypes'
    BY <1>0, <2>1, <2>2, <2>4, <2>6 DEF HostTypes
  <2>8. Asked' = Asked
    BY <2>4 DEF Asked
  <2>9. Sending'
    BY <1>2, <1>3, <1>4, <1>5, <1>10, <2>1, <2>4, <2>5, <2>8 DEF Sending
  <2> QED
    BY <1>8, <2>4, <2>7, <2>9 DEF PoliteInv, Phase
<1> QED
  BY <1>9, <1>10, TakesWhole

\* The host sends a packet when the device receives data or waits for the status.
LEMMA SendsWhenAwaited ==
  ASSUME PoliteInv, SendPacket
  PROVE  \/ Receiving /\ host.stage = "dataOut" /\ dev.rxFifo = <<>> /\ ~dev.failed
         \/ /\ Sending /\ host.stage = "statusOut" /\ dev.ctrlState = "StatusRx"
            /\ host.req.dir = "in" /\ ~dev.inReady /\ ~dev.xfrcIn /\ dev.rxFifo = <<>>
            /\ Len(host.got) = CT!DataLength(host.req)
<1>1. host.stage \in {"dataOut", "statusOut"} /\ dev.outReady
  BY DEF SendPacket
<1>2. Receiving \/ Sending
  BY <1>1 DEF PoliteInv, Phase, Resting, Asking, Refusing, InTheHands, Committed, Disarmed
<1>3. Receiving => host.stage = "dataOut" /\ dev.rxFifo = <<>> /\ ~dev.failed
  BY <1>1 DEF Receiving
<1>4. Sending => /\ host.stage = "statusOut" /\ dev.ctrlState = "StatusRx" /\ host.req.dir = "in"
                 /\ ~dev.inReady /\ ~dev.xfrcIn /\ dev.rxFifo = <<>> /\ Len(host.got) = CT!DataLength(host.req)
  BY <1>1 DEF Sending
<1> QED
  BY <1>2, <1>3, <1>4

LEMMA SendPacketStep ==
  ASSUME Proper, PoliteInv, SendPacket
  PROVE  PoliteInv'
<1>0. HostTypes /\ DevTypes /\ SendInv
  BY DEF PoliteInv
<1> DEFINE n == IF host.stage = "dataOut" THEN Least(host.req.sent, PacketSize) ELSE 0
           added == <<[sts |-> "Rx", bcnt |-> n], [sts |-> "RxComplete"]>>
<1>1. dev.rxFifo = <<>> /\ dev.rxFifo \o added = added
  <2>1. dev.rxFifo = <<>>
    BY SendsWhenAwaited
  <2> HIDE DEF n
  <2>2. <<>> \o added = added
    OBVIOUS
  <2> QED
    BY <2>1, <2>2
<1>2. /\ UNCHANGED <<pc, setup, send, times>>
      /\ dev' = [dev EXCEPT !.outReady = FALSE, !.received = n, !.rxFifo = dev.rxFifo \o added]
  BY DEF SendPacket, thread
<1>3. /\ host.stage = "dataOut" => n = host.req.len
      /\ host.stage = "statusOut" => n = 0
      /\ n \in 0..PacketSize
  <2>1. CASE host.stage = "dataOut"
    <3>1. host.req.len \in 1..PacketSize /\ host.req.sent = host.req.len /\ PacketSize \in Nat
      BY <2>1, SendsWhenAwaited, UsbAssumption DEF Receiving
    <3>2. Least(host.req.sent, PacketSize) = host.req.len
      BY <3>1 DEF Least
    <3> QED
      BY <2>1, <3>1, <3>2
  <2>2. CASE host.stage = "statusOut"
    BY <2>2, UsbAssumption
  <2> QED
    BY <2>1, <2>2 DEF SendPacket
<1> HIDE DEF added, n
<1>4. /\ DOMAIN dev' = DOMAIN dev /\ ~dev'.outReady /\ dev'.received = n /\ dev'.rxFifo = added
      /\ dev'.inReady = dev.inReady /\ dev'.xfrcIn = dev.xfrcIn /\ dev'.txFifo = dev.txFifo
      /\ dev'.hasResult = dev.hasResult /\ dev'.usbrst = dev.usbrst
      /\ dev'.stup = dev.stup /\ dev'.xfrcOut = dev.xfrcOut /\ dev'.setupCount = dev.setupCount
      /\ dev'.outStall = dev.outStall
      /\ dev'.inSize = dev.inSize /\ dev'.inStall = dev.inStall /\ dev'.txRemain = dev.txRemain
      /\ dev'.setup = dev.setup /\ dev'.ctrlState = dev.ctrlState /\ dev'.failed = dev.failed
      /\ dev'.tasks = dev.tasks /\ dev'.state = dev.state
  BY <1>0, <1>1, <1>2 DEF DevTypes, Members
<1>5. host'.id = host.id => DevTypes' /\ SendInv'
  <2> SUFFICES ASSUME host'.id = host.id PROVE DevTypes' /\ SendInv'
    OBVIOUS
  <2>1. DevTypes'
    BY <1>0, <1>3, <1>4 DEF DevTypes
  <2>2. SendInv'
    BY <1>0, <1>2, <1>4 DEF SendInv
  <2> QED
    BY <2>1, <2>2
<1>6. CASE host.stage = "dataOut"
  <2>1. Receiving /\ ~dev.failed
    BY <1>6, SendsWhenAwaited
  <2>2. host' = [host EXCEPT !.stage = "statusIn"]
    BY <1>6 DEF SendPacket
  <2>3. /\ DOMAIN host' = DOMAIN host /\ host'.stage = "statusIn" /\ host'.result = host.result
        /\ host'.req = host.req /\ host'.id = host.id /\ host'.got = host.got
    BY <1>0, <2>2 DEF HostTypes
  <2>4. HostTypes'
    BY <1>0, <1>6, <2>3 DEF HostTypes
  <2>5. Asked' = Asked /\ Unstalled'
    BY <1>4, <2>1, <2>3 DEF Asked, Unstalled, Receiving
  <2>6. added = <<[sts |-> "Rx", bcnt |-> host.req.len], [sts |-> "RxComplete"]>>
    BY <1>3, <1>6 DEF added
  <2>7. Receiving'
    BY <1>2, <1>4, <2>1, <2>3, <2>5, <2>6 DEF Receiving
  <2> QED
    BY <1>5, <2>3, <2>4, <2>7 DEF PoliteInv, Phase
<1>7. CASE host.stage = "statusOut"
  <2>1. /\ Sending /\ dev.ctrlState = "StatusRx" /\ host.req.dir = "in" /\ ~dev.inReady /\ ~dev.xfrcIn
    BY <1>7, SendsWhenAwaited
  <2>2. host' = Ends(host, "answered")
    BY <1>7 DEF SendPacket
  <2> DEFINE a == IF host.req.op = "address" THEN host.req.value ELSE host.address
             c == IF host.req.op = "configure" THEN host.req.value ELSE host.config
  <2>3. host' = [host EXCEPT !.stage = "idle", !.result = "answered", !.address = a, !.config = c]
    BY <2>2 DEF Ends
  <2> HIDE DEF a, c
  <2>4. /\ DOMAIN host' = DOMAIN host /\ host'.stage = "idle" /\ host'.result = "answered"
        /\ host'.req = host.req /\ host'.id = host.id /\ host'.got = host.got
    BY <1>0, <2>3 DEF HostTypes
  <2>5. HostTypes'
    BY <1>0, <2>4 DEF HostTypes
  <2>6. Asked' = Asked /\ Unstalled'
    BY <1>4, <2>1, <2>4 DEF Asked, Unstalled, Sending
  <2>7. added = <<[sts |-> "Rx", bcnt |-> 0], [sts |-> "RxComplete"]>>
    BY <1>3, <1>7 DEF added
  <2>8. /\ ~dev.tasks /\ ~dev.failed /\ dev.setup = Asked /\ host.req.supported /\ times = 1
        /\ pc \in {"write", "finish", "wait"} /\ (pc # "wait" => dev.hasResult /\ setup = Asked)
    BY <2>1 DEF Sending
  <2>9. Sending'
    BY <1>2, <1>4, <2>1, <2>4, <2>6, <2>7, <2>8 DEF Sending
  <2> QED
    BY <1>5, <2>4, <2>5, <2>9 DEF PoliteInv, Phase
<1> QED
  BY <1>6, <1>7 DEF SendPacket

LEMMA PoliteNext ==
  ASSUME Polite, PoliteInv, [Next]_vars
  PROVE  PoliteInv'
<1>1. Proper /\ ~Resets
  BY DEF Polite
<1>2. CASE Next
  BY <1>1, <1>2, PoliteInterrupt, PoliteThread, AskStep, SeeStallStep, TakePacketStep, SendPacketStep DEF Next, ResetBus
<1>3. CASE UNCHANGED vars
  <2>1. UNCHANGED <<host, dev, pc, setup, send, times>>
    BY <1>3 DEF vars, thread
  <2>2. Asked' = Asked /\ Awaiting' = Awaiting
    BY <2>1 DEF Asked, Awaiting
  <2>3. Silent' = Silent /\ Disarmed' = Disarmed /\ Unstalled' = Unstalled
    BY <2>1 DEF Silent, Disarmed, Unstalled
  <2>4. HostTypes' /\ DevTypes' /\ SendInv'
    BY <2>1 DEF PoliteInv, HostTypes, DevTypes, SendInv
  <2>5. /\ Resting => Resting'
        /\ Asking => Asking'
        /\ Refusing => Refusing'
    BY <2>1, <2>2, <2>3 DEF Resting, Asking, Refusing
  <2>6. /\ Receiving => Receiving'
        /\ InTheHands => InTheHands'
        /\ Committed => Committed'
    BY <2>1, <2>2, <2>3 DEF Receiving, InTheHands, Committed
  <2>7. Sending => Sending'
    BY <2>1, <2>2, <2>3 DEF Sending
  <2> QED
    BY <2>4, <2>5, <2>6, <2>7 DEF PoliteInv, Phase
<1> QED
  BY <1>2, <1>3

\* The inductive invariant: host and device are in the same phase of a request, and
\* whoever is not its actor holds still.
THEOREM UsbPhases ==
  ASSUME Polite
  PROVE  Spec => []PoliteInv
<1>1. Init => PoliteInv
  BY PoliteInit
<1>2. PoliteInv /\ [Next]_vars => PoliteInv'
  BY PoliteNext
<1> QED
  BY <1>1, <1>2, PTL DEF Spec

\* With a host that waits, FIFO, packets and answers keep to their sizes: ControlSuccess
\* cuts the answer to the length asked for, and into packets.
THEOREM UsbTypes ==
  ASSUME Polite
  PROVE  Spec => []TypeOK
<1>1. PoliteInv => TypeOK
  BY UsbAssumption DEF PoliteInv, HostTypes, DevTypes, SendInv, TypeOK
<1> QED
  BY <1>1, UsbPhases, PTL

\* With a host that waits, IRQHandler takes no stale entry of ctrl.setupBuffer for a
\* request: the count of SETUP packets is right whenever one arrives.
THEOREM UsbSetupReceived ==
  ASSUME Polite
  PROVE  Spec => []SetupReceived
<1>1. PoliteInv => SetupReceived
  <2> SUFFICES ASSUME PoliteInv, dev.ctrlState \in {"DataRx", "Processing"}
               PROVE  dev.setup.id # 0
    BY DEF SetupReceived
  <2>1. dev.setup = Asked
    BY DEF PoliteInv, Phase, Resting, Asking, Refusing, Receiving, InTheHands, Committed, Sending
  <2>2. host.id \in Ids
    BY DEF PoliteInv, HostTypes
  <2> QED
    BY <2>1, <2>2 DEF Asked, Packet, Ids
<1> QED
  BY <1>1, UsbPhases, PTL

\* With a host that waits, ControlSuccess answers the request that HandleControl was
\* called for: no other one replaces ctrl.setup meanwhile.
THEOREM UsbAnswersItsRequest ==
  ASSUME Polite
  PROVE  Spec => []AnswersItsRequest
<1>1. PoliteInv => AnswersItsRequest
  BY DEF PoliteInv, Phase, Resting, Asking, Refusing, Receiving, InTheHands, Committed, Sending, AnswersItsRequest
<1> QED
  BY <1>1, UsbPhases, PTL
-----------------------------------------------------------------------------
(* The device keeps its promise: UsbControl implements ControlTransfer.    *)

\* The state of ControlTransfer, as UsbControl shows it.
Stage(h) == IF h.stage = "idle" THEN "idle" ELSE "pending"
Result(h) == IF h.result # "answered" THEN [kind |-> h.result, length |-> 0]
             ELSE [kind |-> IF \A i \in 1..Len(h.got) : h.got[i] = h.id THEN "answered" ELSE "wrong data",
                   length |-> Len(h.got)]

LEMMA TransferSteps ==
  /\ CT!vars = <<Stage(host), host.req, times, Result(host)>>
  /\ CT!Init <=> /\ Stage(host) = "idle" /\ host.req \in Requests /\ times = 0
                 /\ Result(host) = [kind |-> "none", length |-> 0]
  /\ CT!Ask <=> /\ Stage(host) = "idle" /\ Stage(host') = "pending" /\ host'.req \in Requests
                /\ times' = 0 /\ Result(host') = [kind |-> "none", length |-> 0]
  /\ CT!CarryOut <=> /\ Stage(host) = "pending" /\ times = 0 /\ times' = 1
                     /\ Stage(host') = Stage(host) /\ host'.req = host.req /\ Result(host') = Result(host)
  /\ CT!Reply <=> /\ Stage(host) = "pending" /\ Stage(host') = "idle" /\ times = 1 /\ host.req.supported
                  /\ Result(host') = [kind |-> "answered", length |-> CT!DataLength(host.req)]
                  /\ host'.req = host.req /\ times' = times
  /\ CT!Refuse <=> /\ Stage(host) = "pending" /\ Stage(host') = "idle" /\ ~host.req.supported
                   /\ Result(host') = [kind |-> "refused", length |-> 0]
                   /\ host'.req = host.req /\ times' = times
<1>1. CT!vars = <<Stage(host), host.req, times, Result(host)>>
  BY DEF CT!vars, Stage, Result
<1>2. CT!Init <=> /\ Stage(host) = "idle" /\ host.req \in Requests /\ times = 0
                  /\ Result(host) = [kind |-> "none", length |-> 0]
  BY DEF CT!Init, CT!None, Stage, Result
<1>3. CT!Ask <=> /\ Stage(host) = "idle" /\ Stage(host') = "pending" /\ host'.req \in Requests
                 /\ times' = 0 /\ Result(host') = [kind |-> "none", length |-> 0]
  BY DEF CT!Ask, CT!None, Stage, Result
<1>4. CT!CarryOut <=> /\ Stage(host) = "pending" /\ times = 0 /\ times' = 1
                      /\ Stage(host') = Stage(host) /\ host'.req = host.req /\ Result(host') = Result(host)
  BY DEF CT!CarryOut, Stage, Result
<1>5. CT!Reply <=> /\ Stage(host) = "pending" /\ Stage(host') = "idle" /\ times = 1 /\ host.req.supported
                   /\ Result(host') = [kind |-> "answered", length |-> CT!DataLength(host.req)]
                   /\ host'.req = host.req /\ times' = times
  BY DEF CT!Reply, CT!Answered, Stage, Result
<1>6. CT!Refuse <=> /\ Stage(host) = "pending" /\ Stage(host') = "idle" /\ ~host.req.supported
                    /\ Result(host') = [kind |-> "refused", length |-> 0]
                    /\ host'.req = host.req /\ times' = times
  BY DEF CT!Refuse, CT!Refused, Stage, Result
<1> QED
  BY <1>1, <1>2, <1>3, <1>4, <1>5, <1>6

LEMMA TransferStutter ==
  ASSUME Stage(host') = Stage(host), host'.req = host.req, times' = times, Result(host') = Result(host)
  PROVE  UNCHANGED CT!vars
<1>1. (CT!vars)' = <<Stage(host'), host'.req, times', Result(host')>>
  BY DEF CT!vars, Stage, Result
<1> QED
  BY <1>1, TransferSteps

LEMMA TransferInit ==
  ASSUME Init
  PROVE  CT!Init
<1>1. PICK r \in Requests :
        /\ host = [stage |-> "idle", req |-> r, id |-> 1, got |-> <<>>, result |-> "none",
                   address |-> 0, config |-> 0]
        /\ times = 0
  BY DEF Init
<1>2. host.stage = "idle" /\ host.req \in Requests /\ host.result = "none"
  BY <1>1
<1>3. Stage(host) = "idle" /\ Result(host) = [kind |-> "none", length |-> 0]
  BY <1>2 DEF Stage, Result
<1> QED
  BY <1>1, <1>2, <1>3, TransferSteps

\* An answer made of the request's own data.
LEMMA OwnData ==
  ASSUME NEW h, h.result = "answered", h.got \in Seq({h.id})
  PROVE  Result(h) = [kind |-> "answered", length |-> Len(h.got)]
<1>1. \A i \in 1..Len(h.got) : h.got[i] = h.id
  OBVIOUS
<1> QED
  BY <1>1 DEF Result

\* A request is carried out once, while the host waits for it.
LEMMA CarryOutImplements ==
  ASSUME PoliteInv, CarryOut
  PROVE  CT!CarryOut
<1>1. InTheHands /\ pc = "handle"
  BY DEF PoliteInv, Phase, CarryOut, Goto, Resting, Asking, Refusing, Receiving, Committed, Sending
<1>2. setup = Asked /\ times = 0 /\ host.stage = Awaiting
  BY <1>1 DEF InTheHands
<1>3. setup.id = host.id /\ host.stage # "idle"
  BY <1>2 DEF Asked, Packet, Awaiting
<1>4. Least(times + 1, MaxTimes) = 1
  BY <1>2 DEF Least, MaxTimes
<1>5. times' = 1 /\ host' = host
  BY <1>3, <1>4 DEF CarryOut
<1>6. Stage(host) = "pending"
  BY <1>3 DEF Stage
<1> QED
  BY <1>2, <1>5, <1>6, TransferSteps

LEMMA AskImplements ==
  ASSUME Polite, PoliteInv, Ask
  PROVE  CT!Ask
<1>1. host.stage = "idle"
  BY AsksAtRest DEF Resting
<1> PICK r \in Requests :
      host' = [host EXCEPT
            !.stage = CASE r.len = 0 -> "statusIn"
                        [] r.len > 0 /\ r.dir = "in"  -> "dataIn"
                        [] r.len > 0 /\ r.dir = "out" -> "dataOut",
            !.req = r, !.id = (host.id % 3) + 1, !.got = <<>>, !.result = "none"]
  BY DEF Ask
<1> DEFINE stage == CASE r.len = 0 -> "statusIn"
                      [] r.len > 0 /\ r.dir = "in"  -> "dataIn"
                      [] r.len > 0 /\ r.dir = "out" -> "dataOut"
           id == (host.id % 3) + 1
<1>2. stage # "idle"
  <2>1. r.len \in Nat /\ r.dir \in {"in", "out"}
    BY UsbAssumption DEF Request
  <2> QED
    BY <2>1
<1> HIDE DEF stage, id
<1>3. host' = [host EXCEPT !.stage = stage, !.req = r, !.id = id, !.got = <<>>, !.result = "none"]
  BY DEF stage, id
<1>4. host'.stage = stage /\ host'.req = r /\ host'.result = "none"
  BY <1>3 DEF PoliteInv, HostTypes
<1>5. Stage(host) = "idle" /\ Stage(host') = "pending" /\ Result(host') = [kind |-> "none", length |-> 0]
  BY <1>1, <1>2, <1>4 DEF Stage, Result
<1>6. times' = 0
  BY DEF Ask
<1> QED
  BY <1>4, <1>5, <1>6, TransferSteps

LEMMA SeeStallImplements ==
  ASSUME PoliteInv, SeeStall
  PROVE  CT!Refuse
<1>1. ~host.req.supported /\ host.stage # "idle"
  BY StallRefuses DEF Refusing
<1>2. host' = [[host EXCEPT !.stage = "idle", !.result = "refused"] EXCEPT !.address = host.address, !.config = host.config]
  BY DEF SeeStall, Ends
<1>3. host'.stage = "idle" /\ host'.result = "refused" /\ host'.req = host.req
  BY <1>2 DEF PoliteInv, HostTypes
<1>4. Stage(host) = "pending" /\ Stage(host') = "idle" /\ Result(host') = [kind |-> "refused", length |-> 0]
  BY <1>1, <1>3 DEF Stage, Result
<1>5. times' = times
  BY DEF SeeStall
<1> QED
  BY <1>1, <1>3, <1>4, <1>5, TransferSteps

\* The status stage of a supported request answers it.
LEMMA AnswerImplements ==
  ASSUME PoliteInv, Sending, host.stage # "idle", Len(host.got) = CT!DataLength(host.req),
         host' = Ends(host, "answered"), times' = times
  PROVE  CT!Reply
<1> DEFINE a == IF host.req.op = "address" THEN host.req.value ELSE host.address
           c == IF host.req.op = "configure" THEN host.req.value ELSE host.config
<1>1. host' = [host EXCEPT !.stage = "idle", !.result = "answered", !.address = a, !.config = c]
  BY DEF Ends
<1> HIDE DEF a, c
<1>2. host.got \in Seq({host.id})
  BY DEF PoliteInv, HostTypes
<1>3. host'.stage = "idle" /\ host'.result = "answered" /\ host'.req = host.req /\ host'.got = host.got /\ host'.id = host.id
  BY <1>1 DEF PoliteInv, HostTypes
<1>4. Result(host') = [kind |-> "answered", length |-> CT!DataLength(host.req)]
  <2>1. Result(host') = [kind |-> "answered", length |-> Len(host'.got)]
    BY <1>2, <1>3, OwnData
  <2> QED
    BY <1>3, <2>1
<1>5. Stage(host) = "pending" /\ Stage(host') = "idle"
  BY <1>3 DEF Stage
<1>6. times = 1 /\ host.req.supported
  BY DEF Sending
<1> QED
  BY <1>3, <1>4, <1>5, <1>6, TransferSteps

LEMMA TakePacketImplements ==
  ASSUME Proper, PoliteInv, TakePacket
  PROVE  CT!Reply \/ UNCHANGED CT!vars
<1>1. times' = times
  BY DEF TakePacket
<1>2. CASE dev.ctrlState = "StatusTx"
  <2>1. Sending /\ host.stage = "statusIn" /\ dev.inSize = 0 /\ host.got = <<>> /\ host.req.len = 0
    BY <1>2, TakesWhole
  <2>2. host' = Ends(host, "answered")
    BY <2>1 DEF TakePacket
  <2>3. CT!DataLength(host.req) = 0 /\ Len(<<>>) = 0
    BY <2>1, ProperRequest DEF CT!DataLength, PoliteInv
  <2>4. Len(host.got) = CT!DataLength(host.req)
    BY <2>1, <2>3
  <2> QED
    BY <1>1, <2>1, <2>2, <2>4, AnswerImplements
<1>3. CASE dev.ctrlState = "DataTx"
  <2>1. host.stage = "dataIn"
    BY <1>3, TakesWhole
  <2> DEFINE got == host.got \o Left(dev.txFifo, dev.inSize)
  <2>2. \/ host' = [host EXCEPT !.got = got]
        \/ host' = [host EXCEPT !.got = got, !.stage = "statusOut"]
    BY <2>1 DEF TakePacket
  <2> HIDE DEF got
  <2>3. host'.stage \in {"dataIn", "statusOut"} /\ host'.req = host.req /\ host'.result = host.result /\ host.result = "none"
    BY <2>1, <2>2 DEF PoliteInv, HostTypes
  <2>4. Stage(host') = Stage(host) /\ Result(host') = Result(host)
    BY <2>1, <2>3 DEF Stage, Result
  <2> QED
    BY <1>1, <2>3, <2>4, TransferStutter
<1> QED
  BY <1>2, <1>3, TakesWhole

LEMMA SendPacketImplements ==
  ASSUME PoliteInv, SendPacket
  PROVE  CT!Reply \/ UNCHANGED CT!vars
<1>1. times' = times
  BY DEF SendPacket
<1>2. CASE host.stage = "dataOut"
  <2>1. host' = [host EXCEPT !.stage = "statusIn"]
    BY <1>2 DEF SendPacket
  <2>2. host'.stage = "statusIn" /\ host'.req = host.req /\ host'.result = host.result /\ host.result = "none"
    BY <1>2, <2>1 DEF PoliteInv, HostTypes
  <2>3. Stage(host') = Stage(host) /\ Result(host') = Result(host)
    BY <1>2, <2>2 DEF Stage, Result
  <2> QED
    BY <1>1, <2>2, <2>3, TransferStutter
<1>3. CASE host.stage = "statusOut"
  <2>1. Sending /\ Len(host.got) = CT!DataLength(host.req)
    BY <1>3, SendsWhenAwaited
  <2>2. host' = Ends(host, "answered")
    BY <1>3 DEF SendPacket
  <2> QED
    BY <1>1, <1>3, <2>1, <2>2, AnswerImplements
<1> QED
  BY <1>2, <1>3 DEF SendPacket

LEMMA TransferNext ==
  ASSUME Polite, PoliteInv, [Next]_vars
  PROVE  [CT!Next]_(CT!vars)
<1>1. Proper /\ ~Resets
  BY DEF Polite
<1>2. CASE host' = host /\ times' = times
  BY <1>2, TransferStutter
<1>3. CASE CarryOut
  BY <1>3, CarryOutImplements DEF CT!Next
<1>4. CASE Ask
  BY <1>4, AskImplements DEF CT!Next
<1>5. CASE SeeStall
  BY <1>5, SeeStallImplements DEF CT!Next
<1>6. CASE TakePacket
  BY <1>1, <1>6, TakePacketImplements DEF CT!Next
<1>7. CASE SendPacket
  BY <1>7, SendPacketImplements DEF CT!Next
<1>8. \/ host' = host /\ times' = times
      \/ CarryOut \/ Ask \/ SeeStall \/ TakePacket \/ SendPacket
  BY <1>1 DEF Next, vars, IRQHandler, Thread, TakeTasks, StartControl, Check, Commit, Transmit, Write, Finish,
              Stall, ResetBus
<1> QED
  BY <1>2, <1>3, <1>4, <1>5, <1>6, <1>7, <1>8

\* With a host that waits, every answer is to the request that the host asked, made of
\* that request's own data in the right length, after the request was carried out once;
\* and only an unsupported request is refused: UsbControl implements ControlTransfer.
THEOREM UsbImplementsTransfer ==
  ASSUME Polite
  PROVE  Spec => CT!Spec
<1>1. Init => CT!Init
  BY TransferInit
<1>2. PoliteInv /\ [Next]_vars => [CT!Next]_(CT!vars)
  BY TransferNext
<1> QED
  BY <1>1, <1>2, UsbPhases, PTL DEF Spec, CT!Spec
-----------------------------------------------------------------------------
(***************************************************************************)
(* A host that may also reset the bus, whenever no interrupt is left to be *)
(* served; callbacks do not suspend.  The thread does not notice a reset,  *)
(* and goes on with a request that nobody waits for.                       *)
(***************************************************************************)
Resetting == Prompt /\ ~Suspends /\ ~Aborts /\ \A r \in Requests : r.dir = "in" => r.len > 0

Registers ==
  /\ Members \subseteq DOMAIN dev /\ ~dev.stup /\ ~dev.xfrcOut
  /\ {"stage", "req", "id", "got", "result", "address", "config"} \subseteq DOMAIN host
  /\ host.req \in Requests /\ host.id \in Ids
  /\ SetupReceived

\* The bus was reset, and the device has not seen it; or it has, and is ready for a SETUP packet
\* whatever the thread may be doing.
Cleared == dev.usbrst /\ host.stage = "idle" /\ Silent
Free == ~dev.usbrst /\ host.stage = "idle" /\ Silent /\ (dev.setupCount = 3 \/ pc = "rearm")

Idling == pc = "wait" /\ ~dev.tasks

\* The SETUP stage.
Beginning ==
  /\ ~dev.usbrst /\ Idling /\ ~dev.xfrcIn /\ dev.setupCount = 2 /\ Disarmed /\ Unstalled
  /\ host.stage = (IF host.req.len = 0 THEN "statusIn" ELSE IF host.req.dir = "in" THEN "dataIn" ELSE "dataOut")
  /\ \/ dev.rxFifo = <<[sts |-> "SetupRx", packet |-> Asked], [sts |-> "SetupComplete"]>>
     \/ dev.rxFifo = <<[sts |-> "SetupComplete"]>> /\ dev.data = Asked /\ dev.ctrlState = "Idle"

\* The data stage of a write: its packet is awaited, or was received.
Collecting ==
  /\ ~dev.usbrst /\ Idling /\ ~dev.xfrcIn /\ ~dev.inReady /\ Unstalled
  /\ dev.ctrlState = "DataRx" /\ dev.setup.req.dir = "out"
  /\ \/ host.stage = "dataOut" /\ dev.rxFifo = <<>>
     \/ /\ host.stage = "statusIn" /\ ~dev.outReady
        /\ \/ dev.rxFifo = <<[sts |-> "RxComplete"]>>
           \/ \E n \in Nat : dev.rxFifo = <<[sts |-> "Rx", bcnt |-> n], [sts |-> "RxComplete"]>>

\* The request is refused, and the host is about to see it; the thread may be busy with it all the same.
Refused ==
  /\ ~dev.usbrst /\ Silent /\ (dev.setupCount = 3 \/ pc = "rearm")
  /\ \/ host.stage \in {"dataIn", "statusIn"} /\ dev.inStall
     \/ host.stage = "dataOut" /\ dev.outStall

\* What the host waits for, by the direction of the request the device has.
Expected == IF dev.setup.req.dir = "in" THEN "dataIn" ELSE "statusIn"

\* HandleControl has the request, and has not answered.
Handling ==
  /\ ~dev.usbrst /\ Silent /\ Disarmed /\ ~dev.inStall /\ host.stage = Expected
  /\ pc # "stallIn" => ~dev.outStall
  /\ pc # "transmit" => dev.ctrlState = "Processing"
  /\ \/ pc = "wait" /\ dev.tasks
     \/ pc = "start" /\ ~dev.tasks
     \/ pc \in {"handle", "check", "commit", "finish", "stallOut", "stallIn"} /\ ~dev.tasks /\ ~dev.hasResult
     \/ /\ pc = "transmit" /\ ~dev.tasks /\ dev.hasResult
        /\ dev.ctrlState = (IF dev.setup.req.dir = "in" THEN "DataTx" ELSE "StatusTx")

\* The answer is on its way, or its status stage.
Answering ==
  /\ ~dev.usbrst /\ ~dev.tasks /\ Unstalled
  /\ pc = "wait" \/ (pc \in {"write", "finish"} /\ dev.hasResult)
  /\ \/ /\ dev.ctrlState = "StatusTx" /\ dev.rxFifo = <<>>
        /\ \/ host.stage = "statusIn" /\ ~dev.xfrcIn
           \/ host.stage = "idle" /\ ~dev.inReady /\ dev.xfrcIn
     \/ /\ dev.ctrlState = "DataTx" /\ dev.rxFifo = <<>> /\ ~dev.outReady
        /\ host.stage \in {"dataIn", "statusOut"} /\ ~(dev.inReady /\ dev.xfrcIn)
     \/ /\ dev.ctrlState = "StatusRx" /\ ~dev.inReady /\ ~dev.xfrcIn
        /\ \/ host.stage \in {"dataIn", "statusOut"} /\ dev.rxFifo = <<>>
           \/ /\ host.stage = "idle" /\ ~dev.outReady
              /\ \/ dev.rxFifo = <<[sts |-> "RxComplete"]>>
                 \/ dev.rxFifo = <<[sts |-> "Rx", bcnt |-> 0], [sts |-> "RxComplete"]>>

ResetPhase == Cleared \/ Free \/ Beginning \/ Collecting \/ Refused \/ Handling \/ Answering
ResetInv == Registers /\ ResetPhase

LEMMA ResetInit ==
  ASSUME Init
  PROVE  ResetInv
<1> PICK r \in Requests :
      /\ host = [stage |-> "idle", req |-> r, id |-> 1, got |-> <<>>, result |-> "none",
                 address |-> 0, config |-> 0]
      /\ dev = [rxFifo |-> <<>>, txFifo |-> <<>>, usbrst |-> FALSE,
                stup |-> FALSE, xfrcOut |-> FALSE, xfrcIn |-> FALSE,
                setupCount |-> 3, received |-> 0, outReady |-> FALSE, outStall |-> FALSE,
                inSize |-> 0, inReady |-> FALSE, inStall |-> FALSE,
                data |-> Packet(r, 0), setup |-> Packet(r, 0), ctrlState |-> "Idle",
                txRemain |-> <<>>, hasResult |-> FALSE, tasks |-> FALSE,
                address |-> 0, state |-> "Default", config |-> 0, failed |-> FALSE]
  BY DEF Init
<1>1. Members \subseteq DOMAIN dev
  BY DEF Members
<1>2. Registers
  BY <1>1 DEF Registers, Ids, SetupReceived
<1>3. Free
  BY DEF Free, Silent
<1> QED
  BY <1>2, <1>3 DEF ResetInv, ResetPhase
-----------------------------------------------------------------------------
(* The interrupts.                                                         *)

\* The device sees the reset, and makes endpoint 0 ready for SETUP packets.
LEMMA ServesReset ==
  ASSUME Registers, Cleared, IRQHandler
  PROVE  ResetInv'
<1> DEFINE d1 == [[[[dev EXCEPT !.usbrst = FALSE, !.state = "Default", !.address = 0]
                   EXCEPT !.outReady = FALSE, !.inReady = FALSE] EXCEPT !.setupCount = 3] EXCEPT !.ctrlState = "Idle"]
           d2 == [d1 EXCEPT !.xfrcIn = FALSE]
           d3 == [d2 EXCEPT !.stup = FALSE, !.xfrcOut = FALSE]
<1>1. PICK junk : dev' = HandleOut(HandleIn(HandleReset(HandleRx(dev))), junk)
  BY DEF IRQHandler
<1>2. HandleRx(dev) = dev
  BY QuietHandlers DEF Cleared, Silent
<1>3. HandleReset(dev) = d1
  BY DEF HandleReset, Cleared, ControlSetup, ConfigureSetup, Reinitialize
<1>4. ~d1.xfrcIn /\ ~d2.stup /\ ~d2.xfrcOut
  BY DEF Registers, Members, Cleared, Silent
<1> HIDE DEF d1
<1>5. HandleIn(d1) = d2
  BY <1>4, QuietHandlers
<1> HIDE DEF d2
<1>6. HandleOut(d2, junk) = d3
  BY <1>4, QuietHandlers
<1>7. dev' = d3
  BY <1>1, <1>2, <1>3, <1>5, <1>6
<1>8. /\ DOMAIN dev' = DOMAIN dev /\ ~dev'.usbrst /\ ~dev'.stup /\ ~dev'.xfrcOut /\ ~dev'.xfrcIn
      /\ dev'.setupCount = 3 /\ dev'.ctrlState = "Idle" /\ dev'.rxFifo = dev.rxFifo
  BY <1>7 DEF d1, d2, Registers, Members
<1>9. host' = host /\ pc' = pc
  BY DEF IRQHandler, thread
<1>10. Registers'
  BY <1>8, <1>9 DEF Registers, SetupReceived
<1>11. Free'
  BY <1>8, <1>9 DEF Free, Cleared, Silent
<1> QED
  BY <1>10, <1>11 DEF ResetInv, ResetPhase

\* The SETUP packet is read.
LEMMA BeginsRequest ==
  ASSUME Registers, Beginning, IRQHandler,
         dev.rxFifo = <<[sts |-> "SetupRx", packet |-> Asked], [sts |-> "SetupComplete"]>>
  PROVE  ResetInv'
<1>1. Settled /\ ~dev.xfrcIn
  BY DEF Registers, Settled, Beginning
<1>2. dev' = [[[[dev EXCEPT !.rxFifo = <<[sts |-> "SetupComplete"]>>] EXCEPT !.ctrlState = "Idle", !.data = Asked]
                  EXCEPT !.xfrcIn = FALSE] EXCEPT !.stup = FALSE, !.xfrcOut = FALSE]
  BY <1>1, ReadsSetupPacket
<1>3. /\ DOMAIN dev' = DOMAIN dev /\ ~dev'.stup /\ ~dev'.xfrcOut /\ ~dev'.xfrcIn
      /\ dev'.usbrst = dev.usbrst /\ dev'.ctrlState = "Idle" /\ dev'.data = Asked
      /\ dev'.rxFifo = <<[sts |-> "SetupComplete"]>> /\ dev'.setupCount = dev.setupCount /\ dev'.tasks = dev.tasks
      /\ dev'.outReady = dev.outReady /\ dev'.outStall = dev.outStall
      /\ dev'.inReady = dev.inReady /\ dev'.inStall = dev.inStall
  BY <1>1, <1>2 DEF Settled, Members
<1>4. host' = host /\ pc' = pc
  BY <1>1, SettledStep
<1>5. Registers'
  BY <1>3, <1>4 DEF Registers, SetupReceived
<1>6. Beginning'
  BY <1>3, <1>4 DEF Beginning, Idling, Disarmed, Unstalled, Asked
<1> QED
  BY <1>5, <1>6 DEF ResetInv, ResetPhase

\* The SETUP stage is over.
LEMMA AcceptsRequest ==
  ASSUME Resetting, Registers, Beginning, IRQHandler,
         dev.rxFifo = <<[sts |-> "SetupComplete"]>>, dev.data = Asked, dev.ctrlState = "Idle"
  PROVE  ResetInv'
<1> DEFINE d3 == [[[[dev EXCEPT !.rxFifo = <<>>] EXCEPT !.stup = TRUE] EXCEPT !.xfrcIn = FALSE]
                    EXCEPT !.stup = FALSE, !.xfrcOut = FALSE]
           r == [d3 EXCEPT !.setup = Asked]
<1>1. Settled /\ ~dev.xfrcIn /\ dev.setupCount = 2
  BY DEF Registers, Settled, Beginning
<1>2. dev' = StartRequest(d3, Asked)
  BY <1>1, TakesRequest
<1>3. host' = host /\ pc' = pc
  BY <1>1, SettledStep
<1>4. /\ DOMAIN r = DOMAIN dev /\ r.rxFifo = <<>> /\ r.setup = Asked /\ ~r.xfrcIn /\ ~r.stup /\ ~r.xfrcOut
      /\ ~r.inReady /\ ~r.outReady /\ ~r.inStall /\ ~r.outStall /\ ~r.tasks /\ ~r.usbrst
  BY <1>1 DEF Settled, Members, Beginning, Disarmed, Unstalled, Idling
<1>5. /\ Asked.req = host.req /\ Asked.id # 0 /\ pc = "wait"
      /\ host.stage = (IF host.req.len = 0 THEN "statusIn" ELSE IF host.req.dir = "in" THEN "dataIn" ELSE "dataOut")
  BY DEF Asked, Packet, Beginning, Idling, Registers, Ids
<1>6. /\ host.req.len \in Nat /\ host.req.dir \in {"in", "out"} /\ (host.req.dir = "in" => host.req.len > 0)
      /\ PacketSize \in Nat
  BY UsbAssumption DEF Registers, Resetting, Request
<1> HIDE DEF d3
<1>7. CASE host.req.dir = "out" /\ host.req.len > PacketSize
  <2>1. dev' = ControlStall(r)
    BY <1>2, <1>5, <1>6, <1>7 DEF StartRequest
  <2> HIDE DEF r
  <2>2. dev' = [[[[[r EXCEPT !.outReady = FALSE, !.outStall = TRUE] EXCEPT !.inReady = FALSE, !.inStall = TRUE]
                   EXCEPT !.setupCount = 3] EXCEPT !.ctrlState = "Idle"] EXCEPT !.ctrlState = "Stall"]
    BY <2>1 DEF ControlStall, ControlSetup, ConfigureSetup, StallIn, StallOut
  <2>3. /\ DOMAIN dev' = DOMAIN dev /\ dev'.rxFifo = <<>> /\ ~dev'.xfrcIn /\ ~dev'.stup /\ ~dev'.xfrcOut
        /\ dev'.inStall /\ dev'.outStall /\ dev'.setupCount = 3 /\ ~dev'.usbrst /\ dev'.ctrlState = "Stall"
    BY <1>4, <2>2 DEF Registers, Members
  <2>4. host.stage = "dataOut"
    BY <1>5, <1>6, <1>7
  <2>5. Registers'
    BY <1>3, <2>3 DEF Registers, SetupReceived
  <2>6. Refused'
    BY <1>3, <2>3, <2>4 DEF Refused, Silent
  <2> QED
    BY <2>5, <2>6 DEF ResetInv, ResetPhase
<1>8. CASE host.req.dir = "out" /\ host.req.len \in 1..PacketSize
  <2>1. dev' = [ReceivePacket(r) EXCEPT !.ctrlState = "DataRx"]
    <3>1. ~(host.req.len > PacketSize) /\ host.req.len # 0
      BY <1>6, <1>8
    <3> QED
      BY <1>2, <1>5, <1>8, <3>1 DEF StartRequest
  <2> HIDE DEF r
  <2>2. dev' = [[r EXCEPT !.setupCount = 0, !.received = 0, !.outReady = TRUE] EXCEPT !.ctrlState = "DataRx"]
    BY <2>1 DEF ReceivePacket
  <2>3. /\ DOMAIN dev' = DOMAIN dev /\ dev'.rxFifo = <<>> /\ ~dev'.xfrcIn /\ ~dev'.stup /\ ~dev'.xfrcOut
        /\ ~dev'.inReady /\ ~dev'.inStall /\ ~dev'.outStall /\ ~dev'.tasks /\ ~dev'.usbrst
        /\ dev'.ctrlState = "DataRx" /\ dev'.setup = Asked
    BY <1>4, <2>2 DEF Registers, Members
  <2>4. host.stage = "dataOut"
    BY <1>5, <1>6, <1>8
  <2>5. Registers'
    BY <1>3, <1>5, <2>3 DEF Registers, SetupReceived
  <2>6. Collecting'
    BY <1>3, <1>5, <1>8, <2>3, <2>4 DEF Collecting, Idling, Unstalled
  <2> QED
    BY <2>5, <2>6 DEF ResetInv, ResetPhase
<1>9. CASE host.req.dir = "in" \/ host.req.len = 0
  <2>1. dev' = Process(r)
    <3>1. ~(host.req.dir = "out" /\ host.req.len > PacketSize) /\ ~(host.req.dir = "out" /\ host.req.len \in 1..PacketSize)
      BY <1>6, <1>9
    <3> QED
      BY <1>2, <1>5, <1>9, <3>1 DEF StartRequest
  <2> HIDE DEF r
  <2>2. dev' = [r EXCEPT !.ctrlState = "Processing", !.tasks = TRUE]
    BY <2>1 DEF Process
  <2>3. /\ DOMAIN dev' = DOMAIN dev /\ dev'.rxFifo = <<>> /\ ~dev'.xfrcIn /\ ~dev'.stup /\ ~dev'.xfrcOut
        /\ ~dev'.inReady /\ ~dev'.outReady /\ ~dev'.inStall /\ ~dev'.outStall /\ dev'.tasks /\ ~dev'.usbrst
        /\ dev'.ctrlState = "Processing" /\ dev'.setup = Asked
    BY <1>4, <2>2 DEF Registers, Members
  <2>4. host.stage = IF host.req.dir = "in" THEN "dataIn" ELSE "statusIn"
    <3>1. host.req.dir = "in" => host.req.len # 0
      BY <1>6
    <3> QED
      BY <1>5, <1>9, <3>1
  <2>5. Registers'
    BY <1>3, <1>5, <2>3 DEF Registers, SetupReceived
  <2>6. Handling'
    BY <1>3, <1>5, <2>3, <2>4 DEF Handling, Silent, Disarmed, Expected
  <2> QED
    BY <2>5, <2>6 DEF ResetInv, ResetPhase
<1> QED
  BY <1>6, <1>7, <1>8, <1>9

\* The data of a write is read, and the request processed, or refused and processed all the same.
LEMMA CollectsData ==
  ASSUME Registers, Collecting, IRQHandler
  PROVE  ResetInv'
<1>1. Settled /\ ~dev.xfrcIn
  BY DEF Registers, Settled, Collecting
<1>2. host' = host /\ pc' = pc /\ dev.rxFifo # <<>>
  BY <1>1, SettledStep
<1>3. /\ Idling /\ ~dev.inReady /\ ~dev.outReady /\ ~dev.inStall /\ ~dev.outStall /\ ~dev.tasks /\ pc = "wait"
      /\ dev.ctrlState = "DataRx" /\ dev.setup.req.dir = "out" /\ host.stage = "statusIn" /\ dev.setup.id # 0
      /\ \/ dev.rxFifo = <<[sts |-> "RxComplete"]>>
         \/ \E n \in Nat : dev.rxFifo = <<[sts |-> "Rx", bcnt |-> n], [sts |-> "RxComplete"]>>
  BY <1>2 DEF Collecting, Unstalled, Idling, Registers, SetupReceived
<1>4. ASSUME NEW n \in Nat, dev.rxFifo = <<[sts |-> "Rx", bcnt |-> n], [sts |-> "RxComplete"]>>
      PROVE  ResetInv'
  <2>1. dev' = [[[[dev EXCEPT !.rxFifo = <<[sts |-> "RxComplete"]>>] EXCEPT !.failed = n > 0]
                 EXCEPT !.xfrcIn = FALSE] EXCEPT !.stup = FALSE, !.xfrcOut = FALSE]
    BY <1>1, <1>4, ReadsPacket
  <2>2. /\ DOMAIN dev' = DOMAIN dev /\ ~dev'.stup /\ ~dev'.xfrcOut /\ ~dev'.xfrcIn
        /\ dev'.usbrst = dev.usbrst /\ dev'.ctrlState = dev.ctrlState /\ dev'.setup = dev.setup
        /\ dev'.rxFifo = <<[sts |-> "RxComplete"]>> /\ dev'.tasks = dev.tasks
        /\ dev'.outReady = dev.outReady /\ dev'.outStall = dev.outStall
        /\ dev'.inReady = dev.inReady /\ dev'.inStall = dev.inStall
    BY <1>1, <2>1 DEF Settled, Members
  <2>3. Registers'
    BY <1>2, <1>3, <2>2 DEF Registers, SetupReceived
  <2>4. Collecting'
    BY <1>1, <1>2, <1>3, <2>2 DEF Collecting, Idling, Unstalled, Settled
  <2> QED
    BY <2>3, <2>4 DEF ResetInv, ResetPhase
<1>5. CASE dev.rxFifo = <<[sts |-> "RxComplete"]>>
  <2> DEFINE d == [[[[dev EXCEPT !.rxFifo = <<>>] EXCEPT !.xfrcOut = TRUE] EXCEPT !.xfrcIn = FALSE]
                     EXCEPT !.stup = FALSE, !.xfrcOut = FALSE]
  <2>1. dev' = Process(d) \/ dev' = Process(ControlStall(d))
    BY <1>1, <1>3, <1>5, EndsPacket
  <2>2. /\ DOMAIN d = DOMAIN dev /\ d.rxFifo = <<>> /\ d.setup = dev.setup /\ ~d.xfrcIn /\ ~d.stup /\ ~d.xfrcOut
        /\ ~d.inReady /\ ~d.outReady /\ ~d.inStall /\ ~d.outStall /\ ~d.usbrst
    BY <1>1, <1>3 DEF Settled, Members
  <2> HIDE DEF d
  <2>3. CASE dev' = Process(d)
    <3>1. dev' = [d EXCEPT !.ctrlState = "Processing", !.tasks = TRUE]
      BY <2>3 DEF Process
    <3>2. /\ DOMAIN dev' = DOMAIN dev /\ dev'.rxFifo = <<>> /\ ~dev'.xfrcIn /\ ~dev'.stup /\ ~dev'.xfrcOut
          /\ ~dev'.inReady /\ ~dev'.outReady /\ ~dev'.inStall /\ ~dev'.outStall /\ dev'.tasks /\ ~dev'.usbrst
          /\ dev'.ctrlState = "Processing" /\ dev'.setup = dev.setup
      BY <1>1, <2>2, <3>1 DEF Settled, Members
    <3>3. Registers'
      BY <1>2, <1>3, <3>2 DEF Registers, SetupReceived
    <3>4. Handling'
      BY <1>2, <1>3, <3>2 DEF Handling, Silent, Disarmed, Expected
    <3> QED
      BY <3>3, <3>4 DEF ResetInv, ResetPhase
  <2>4. CASE dev' = Process(ControlStall(d))
    <3>1. dev' = [[[[[[d EXCEPT !.outReady = FALSE, !.outStall = TRUE] EXCEPT !.inReady = FALSE, !.inStall = TRUE]
                     EXCEPT !.setupCount = 3] EXCEPT !.ctrlState = "Idle"] EXCEPT !.ctrlState = "Stall"]
                    EXCEPT !.ctrlState = "Processing", !.tasks = TRUE]
      BY <2>4 DEF Process, ControlStall, ControlSetup, ConfigureSetup, StallIn, StallOut
    <3>2. /\ DOMAIN dev' = DOMAIN dev /\ dev'.rxFifo = <<>> /\ ~dev'.xfrcIn /\ ~dev'.stup /\ ~dev'.xfrcOut
          /\ dev'.inStall /\ dev'.setupCount = 3 /\ ~dev'.usbrst /\ dev'.setup = dev.setup
      BY <1>1, <2>2, <3>1 DEF Settled, Members
    <3>3. Registers'
      BY <1>2, <1>3, <3>2 DEF Registers, SetupReceived
    <3>4. Refused'
      BY <1>2, <1>3, <3>2 DEF Refused, Silent
    <3> QED
      BY <3>3, <3>4 DEF ResetInv, ResetPhase
  <2> QED
    BY <2>1, <2>3, <2>4
<1> QED
  BY <1>3, <1>4, <1>5

\* The host has taken a packet of the answer, or the status; or its empty packet is read.
LEMMA GoesOnAnswering ==
  ASSUME Registers, Answering, IRQHandler, dev.rxFifo = <<>>
  PROVE  ResetInv'
<1> DEFINE d == [dev EXCEPT !.xfrcIn = FALSE]
           p == Left(dev.txRemain, PacketSize)
           Kept(e) == [e EXCEPT !.stup = FALSE, !.xfrcOut = FALSE]
<1>1. Settled
  BY DEF Registers, Settled, Answering
<1>2. host' = host /\ pc' = pc /\ dev.xfrcIn
  BY <1>1, SettledStep
<1>3. dev.ctrlState \in {"StatusTx", "DataTx"}
  BY <1>2 DEF Answering
<1>4. /\ dev.ctrlState = "StatusTx" => dev' = Kept([[d EXCEPT !.setupCount = 3] EXCEPT !.ctrlState = "Idle"])
      /\ dev.ctrlState = "DataTx" /\ dev.txRemain # <<>> =>
           dev' = Kept([[[d EXCEPT !.txRemain = Rest(dev.txRemain, PacketSize)]
                          EXCEPT !.inSize = Len(p), !.inReady = TRUE]
                          EXCEPT !.txFifo = Left(dev.txFifo \o p, FifoSize)])
      /\ dev.ctrlState = "DataTx" /\ dev.txRemain = <<>> =>
           dev' = Kept([[d EXCEPT !.setupCount = 0, !.received = 0, !.outReady = TRUE]
                          EXCEPT !.ctrlState = "StatusRx"])
  BY <1>1, EndsTransmission
<1>5. CASE dev.ctrlState = "StatusTx"
  <2>1. dev' = Kept([[d EXCEPT !.setupCount = 3] EXCEPT !.ctrlState = "Idle"])
    BY <1>4, <1>5
  <2>2. /\ DOMAIN dev' = DOMAIN dev /\ dev'.rxFifo = <<>> /\ ~dev'.xfrcIn /\ ~dev'.stup /\ ~dev'.xfrcOut
        /\ dev'.setupCount = 3 /\ ~dev'.usbrst /\ dev'.ctrlState = "Idle"
    BY <1>1, <2>1 DEF Settled, Members
  <2>3. host.stage = "idle"
    BY <1>2, <1>5 DEF Answering
  <2>4. Registers'
    BY <1>2, <2>2 DEF Registers, SetupReceived
  <2>5. Free'
    BY <1>2, <2>2, <2>3 DEF Free, Silent
  <2> QED
    BY <2>4, <2>5 DEF ResetInv, ResetPhase
<1>6. CASE dev.ctrlState = "DataTx"
  <2>1. /\ ~dev.outReady /\ host.stage \in {"dataIn", "statusOut"} /\ ~dev.inReady
        /\ ~dev.tasks /\ ~dev.inStall /\ ~dev.outStall /\ (pc = "wait" \/ (pc \in {"write", "finish"} /\ dev.hasResult))
    BY <1>2, <1>6 DEF Answering, Unstalled
  <2>2. CASE dev.txRemain # <<>>
    <3>1. dev' = Kept([[[d EXCEPT !.txRemain = Rest(dev.txRemain, PacketSize)]
                          EXCEPT !.inSize = Len(p), !.inReady = TRUE]
                          EXCEPT !.txFifo = Left(dev.txFifo \o p, FifoSize)])
      BY <1>4, <1>6, <2>2
    <3> HIDE DEF p
    <3>2. /\ DOMAIN dev' = DOMAIN dev /\ dev'.rxFifo = <<>> /\ ~dev'.xfrcIn /\ ~dev'.stup /\ ~dev'.xfrcOut
          /\ ~dev'.usbrst /\ dev'.ctrlState = "DataTx" /\ dev'.outReady = dev.outReady
          /\ dev'.outStall = dev.outStall /\ dev'.inStall = dev.inStall
          /\ dev'.tasks = dev.tasks /\ dev'.hasResult = dev.hasResult
      BY <1>1, <1>6, <3>1 DEF Settled, Members
    <3>3. Registers'
      BY <1>2, <3>2 DEF Registers, SetupReceived
    <3>4. Answering'
      BY <1>2, <2>1, <3>2 DEF Answering, Unstalled
    <3> QED
      BY <3>3, <3>4 DEF ResetInv, ResetPhase
  <2>3. CASE dev.txRemain = <<>>
    <3>1. dev' = Kept([[d EXCEPT !.setupCount = 0, !.received = 0, !.outReady = TRUE] EXCEPT !.ctrlState = "StatusRx"])
      BY <1>4, <1>6, <2>3
    <3>2. /\ DOMAIN dev' = DOMAIN dev /\ dev'.rxFifo = <<>> /\ ~dev'.xfrcIn /\ ~dev'.stup /\ ~dev'.xfrcOut
          /\ ~dev'.usbrst /\ dev'.ctrlState = "StatusRx" /\ dev'.inReady = dev.inReady
          /\ dev'.outStall = dev.outStall /\ dev'.inStall = dev.inStall
          /\ dev'.tasks = dev.tasks /\ dev'.hasResult = dev.hasResult
      BY <1>1, <1>6, <3>1 DEF Settled, Members
    <3>3. Registers'
      BY <1>2, <3>2 DEF Registers, SetupReceived
    <3>4. Answering'
      BY <1>2, <2>1, <3>2 DEF Answering, Unstalled
    <3> QED
      BY <3>3, <3>4 DEF ResetInv, ResetPhase
  <2> QED
    BY <2>2, <2>3
<1> QED
  BY <1>3, <1>5, <1>6

LEMMA EndsAnswering ==
  ASSUME Registers, Answering, IRQHandler, dev.rxFifo # <<>>
  PROVE  ResetInv'
<1>1. Settled /\ ~dev.xfrcIn
  BY DEF Registers, Settled, Answering
<1>2. host' = host /\ pc' = pc
  BY <1>1, SettledStep
<1>3. /\ dev.ctrlState = "StatusRx" /\ ~dev.inReady /\ ~dev.outReady /\ host.stage = "idle"
      /\ ~dev.tasks /\ ~dev.inStall /\ ~dev.outStall /\ (pc = "wait" \/ (pc \in {"write", "finish"} /\ dev.hasResult))
      /\ \/ dev.rxFifo = <<[sts |-> "RxComplete"]>>
         \/ dev.rxFifo = <<[sts |-> "Rx", bcnt |-> 0], [sts |-> "RxComplete"]>>
  BY DEF Answering, Unstalled
<1>4. CASE dev.rxFifo = <<[sts |-> "Rx", bcnt |-> 0], [sts |-> "RxComplete"]>>
  <2>1. dev' = [[[[dev EXCEPT !.rxFifo = <<[sts |-> "RxComplete"]>>] EXCEPT !.failed = 0 > 0]
                 EXCEPT !.xfrcIn = FALSE] EXCEPT !.stup = FALSE, !.xfrcOut = FALSE]
    BY <1>1, <1>4, ReadsPacket
  <2>2. /\ DOMAIN dev' = DOMAIN dev /\ ~dev'.stup /\ ~dev'.xfrcOut /\ ~dev'.xfrcIn
        /\ dev'.usbrst = dev.usbrst /\ dev'.ctrlState = dev.ctrlState
        /\ dev'.rxFifo = <<[sts |-> "RxComplete"]>> /\ dev'.tasks = dev.tasks /\ dev'.hasResult = dev.hasResult
        /\ dev'.outReady = dev.outReady /\ dev'.outStall = dev.outStall
        /\ dev'.inReady = dev.inReady /\ dev'.inStall = dev.inStall
    BY <1>1, <2>1 DEF Settled, Members
  <2>3. Registers'
    BY <1>2, <1>3, <2>2 DEF Registers, SetupReceived
  <2>4. Answering'
    BY <1>1, <1>2, <1>3, <2>2 DEF Answering, Unstalled, Settled
  <2> QED
    BY <2>3, <2>4 DEF ResetInv, ResetPhase
<1>5. CASE dev.rxFifo = <<[sts |-> "RxComplete"]>>
  <2> DEFINE d == [[[[dev EXCEPT !.rxFifo = <<>>] EXCEPT !.xfrcOut = TRUE] EXCEPT !.xfrcIn = FALSE]
                     EXCEPT !.stup = FALSE, !.xfrcOut = FALSE]
  <2>1. dev' = ControlSetup(d)
    BY <1>1, <1>3, <1>5, EndsPacket
  <2>2. dev' = [[d EXCEPT !.setupCount = 3] EXCEPT !.ctrlState = "Idle"]
    BY <2>1 DEF ControlSetup, ConfigureSetup
  <2>3. /\ DOMAIN dev' = DOMAIN dev /\ dev'.rxFifo = <<>> /\ ~dev'.xfrcIn /\ ~dev'.stup /\ ~dev'.xfrcOut
        /\ dev'.setupCount = 3 /\ ~dev'.usbrst /\ dev'.ctrlState = "Idle"
    BY <1>1, <2>2 DEF Settled, Members
  <2>4. Registers'
    BY <1>2, <2>3 DEF Registers, SetupReceived
  <2>5. Free'
    BY <1>2, <1>3, <2>3 DEF Free, Silent
  <2> QED
    BY <2>4, <2>5 DEF ResetInv, ResetPhase
<1> QED
  BY <1>3, <1>4, <1>5

LEMMA ResetInterrupt ==
  ASSUME Resetting, ResetInv, IRQHandler
  PROVE  ResetInv'
<1>1. Registers /\ ResetPhase
  BY DEF ResetInv
<1>2. ~(Free \/ Refused \/ Handling)
  BY <1>1 DEF Free, Refused, Handling, Silent, Registers, IRQHandler, Interrupt
<1>3. CASE Beginning
  BY <1>1, <1>3, BeginsRequest, AcceptsRequest DEF Beginning
<1> QED
  BY <1>1, <1>2, <1>3, ServesReset, CollectsData, GoesOnAnswering, EndsAnswering DEF ResetPhase
-----------------------------------------------------------------------------
(* The thread, which notices nothing of a reset.                           *)

\* What no step of the thread touches, and what it does not take back.
LEMMA ThreadFrame ==
  ASSUME IInv, Registers, Thread
  PROVE  /\ host' = host /\ DOMAIN dev' = DOMAIN dev
         /\ dev'.rxFifo = dev.rxFifo /\ dev'.usbrst = dev.usbrst /\ dev'.stup = dev.stup
         /\ dev'.xfrcOut = dev.xfrcOut /\ dev'.xfrcIn = dev.xfrcIn /\ dev'.setup = dev.setup
         /\ dev.setupCount = 3 \/ pc = "rearm" => dev'.setupCount = 3
         /\ dev'.ctrlState \in {dev.ctrlState, "DataTx", "StatusTx", "Idle", "Stall"}
         /\ (dev.outStall => dev'.outStall) /\ (dev.inStall => dev'.inStall)
<1>0. Members \subseteq DOMAIN dev
  BY DEF Registers
<1>1. CASE TakeTasks
  BY <1>0, <1>1 DEF TakeTasks, Goto, Members
<1>2. CASE StartControl
  BY <1>0, <1>2 DEF StartControl, Goto, Members
<1>3. CASE CarryOut
  <2>1. setup.req.op \in {"none", "address", "configure"}
    BY UsbAssumption DEF IInv, SetupPackets, Request
  <2>2. pc = "handle" /\ host' = host
        /\ (dev' = SetAddress(dev, setup.req.value) \/ dev' = SetConfiguration(dev, setup.req.value) \/ dev' = dev)
    BY <1>3, <2>1 DEF CarryOut, Goto
  <2>3. \/ \E s : dev' = [dev EXCEPT !.address = setup.req.value, !.state = s]
        \/ \E c, s : dev' = [dev EXCEPT !.config = c, !.state = s]
        \/ dev' = dev
    BY <2>2 DEF SetAddress, SetConfiguration
  <2> QED
    BY <1>0, <2>2, <2>3 DEF Members
<1>4. CASE Check
  BY <1>4 DEF Check, Goto
<1>5. CASE Commit
  BY <1>0, <1>5 DEF Commit, Goto, Members
<1>6. CASE Transmit
  BY <1>0, <1>6 DEF Transmit, TransmitPacket, Goto, Members
<1>7. CASE Write
  BY <1>0, <1>7 DEF Write, TxFifoWrite, Goto, Members
<1>8. CASE Finish
  BY <1>8 DEF Finish, Goto
<1>9. CASE Stall
  <2>1. /\ host' = host
        /\ \/ pc = "stallOut" /\ dev' = [dev EXCEPT !.outReady = FALSE, !.outStall = TRUE]
           \/ pc = "stallIn"  /\ dev' = [dev EXCEPT !.inReady = FALSE, !.inStall = TRUE]
           \/ pc = "rearm"    /\ dev' = [dev EXCEPT !.setupCount = 3]
           \/ pc = "idle"     /\ dev' = [dev EXCEPT !.ctrlState = "Idle"]
           \/ pc = "stalled"  /\ dev' = [dev EXCEPT !.ctrlState = "Stall"]
    BY <1>9 DEF Stall, Goto, StallOut, StallIn, ConfigureSetup
  <2> QED
    BY <1>0, <2>1 DEF Members
<1> QED
  BY <1>1, <1>2, <1>3, <1>4, <1>5, <1>6, <1>7, <1>8, <1>9 DEF Thread

\* HandleControl, as far as its answer or its refusal.
LEMMA HandlesRequest ==
  ASSUME IInv, Registers, Handling, Thread
  PROVE  Handling' \/ Answering' \/ Refused'
<1>0. /\ Members \subseteq DOMAIN dev /\ dev.tasks \in BOOLEAN /\ dev.hasResult \in BOOLEAN
      /\ dev.setup.req.dir \in {"in", "out"}
  BY UsbAssumption DEF Registers, IInv, DeviceOK, SetupPackets, Request
<1>1. /\ host' = host /\ dev'.rxFifo = dev.rxFifo /\ dev'.usbrst = dev.usbrst
      /\ dev'.xfrcIn = dev.xfrcIn /\ dev'.setup = dev.setup
  BY ThreadFrame
<1>2. /\ dev.rxFifo = <<>> /\ ~dev.xfrcIn /\ ~dev.usbrst /\ ~dev.inReady /\ ~dev.outReady /\ ~dev.inStall
      /\ host.stage = Expected /\ Expected' = Expected
  BY <1>1 DEF Handling, Silent, Disarmed, Expected
<1>3. CASE TakeTasks
  <2>1. pc = "wait" /\ pc' = "start" /\ dev' = [dev EXCEPT !.tasks = FALSE]
    BY <1>3 DEF TakeTasks, Goto
  <2>2. /\ ~dev'.tasks /\ dev'.inReady = dev.inReady /\ dev'.outReady = dev.outReady /\ dev'.inStall = dev.inStall
        /\ dev'.outStall = dev.outStall /\ dev'.ctrlState = dev.ctrlState
    BY <1>0, <2>1 DEF Members
  <2> QED
    BY <1>1, <1>2, <2>1, <2>2 DEF Handling, Silent, Disarmed
<1>4. CASE StartControl
  <2>1. pc = "start" /\ pc' = "handle" /\ dev' = [dev EXCEPT !.hasResult = FALSE]
    BY <1>4 DEF StartControl, Goto
  <2>2. /\ ~dev'.hasResult /\ dev'.inReady = dev.inReady /\ dev'.outReady = dev.outReady /\ dev'.inStall = dev.inStall
        /\ dev'.outStall = dev.outStall /\ dev'.ctrlState = dev.ctrlState /\ dev'.tasks = dev.tasks
    BY <1>0, <2>1 DEF Members
  <2> QED
    BY <1>1, <1>2, <2>1, <2>2 DEF Handling, Silent, Disarmed
<1>5. CASE CarryOut
  <2>1. setup.req.op \in {"none", "address", "configure"}
    BY UsbAssumption DEF IInv, SetupPackets, Request
  <2>2. pc = "handle" /\ pc' \in {"check", "finish"}
        /\ (dev' = SetAddress(dev, setup.req.value) \/ dev' = SetConfiguration(dev, setup.req.value) \/ dev' = dev)
    BY <1>5, <2>1 DEF CarryOut, Goto
  <2>3. \/ \E s : dev' = [dev EXCEPT !.address = setup.req.value, !.state = s]
        \/ \E c, s : dev' = [dev EXCEPT !.config = c, !.state = s]
        \/ dev' = dev
    BY <2>2 DEF SetAddress, SetConfiguration
  <2>4. /\ dev'.hasResult = dev.hasResult /\ dev'.inReady = dev.inReady /\ dev'.outReady = dev.outReady
        /\ dev'.inStall = dev.inStall
        /\ dev'.outStall = dev.outStall /\ dev'.ctrlState = dev.ctrlState /\ dev'.tasks = dev.tasks
    BY <1>0, <2>3 DEF Members
  <2> QED
    BY <1>1, <1>2, <2>2, <2>4 DEF Handling, Silent, Disarmed
<1>6. CASE Check
  <2>1. pc = "check" /\ dev' = dev
    BY <1>6 DEF Check, Goto
  <2>2. dev.ctrlState = "Processing"
    BY <2>1 DEF Handling
  <2>3. pc' = "commit"
    BY <1>6, <2>2 DEF Check, Goto
  <2> QED
    BY <1>1, <1>2, <2>1, <2>2, <2>3 DEF Handling, Silent, Disarmed
<1>7. CASE Commit
  <2>1. /\ pc = "commit" /\ pc' = "transmit" /\ dev'.hasResult
        /\ dev'.ctrlState = (IF dev.setup.req.dir = "in" THEN "DataTx" ELSE "StatusTx")
        /\ dev'.inReady = dev.inReady /\ dev'.outReady = dev.outReady
        /\ dev'.inStall = dev.inStall /\ dev'.outStall = dev.outStall /\ dev'.tasks = dev.tasks
    BY <1>0, <1>7 DEF Commit, Goto, Members
  <2> QED
    BY <1>1, <1>2, <2>1 DEF Handling, Silent, Disarmed
<1>8. CASE Transmit
  <2>1. pc = "transmit" /\ pc' = "write" /\ dev' = [dev EXCEPT !.inSize = Len(send), !.inReady = TRUE]
    BY <1>8 DEF Transmit, TransmitPacket, Goto
  <2>2. /\ dev'.hasResult = dev.hasResult /\ dev'.outReady = dev.outReady
        /\ dev'.inStall = dev.inStall
        /\ dev'.outStall = dev.outStall /\ dev'.ctrlState = dev.ctrlState /\ dev'.tasks = dev.tasks
    BY <1>0, <2>1 DEF Members
  <2>3. /\ dev.ctrlState = (IF dev.setup.req.dir = "in" THEN "DataTx" ELSE "StatusTx")
        /\ ~dev.tasks /\ dev.hasResult /\ ~dev.outStall
    BY <2>1 DEF Handling
  <2> QED
    BY <1>0, <1>1, <1>2, <2>1, <2>2, <2>3 DEF Answering, Unstalled, Expected
<1>9. ~Write
  BY DEF Handling, Write, Goto
<1>10. CASE Finish
  <2>1. pc = "finish" /\ pc' = "stallOut" /\ dev' = dev
    BY <1>10 DEF Finish, Goto, Handling
  <2> QED
    BY <1>1, <1>2, <2>1 DEF Handling, Silent, Disarmed
<1>11. CASE Stall
  <2>1. pc \in {"stallOut", "stallIn"}
    BY <1>11 DEF Handling, Stall, Goto
  <2>2. CASE pc = "stallOut"
    <3>1. pc' = "stallIn" /\ dev' = [dev EXCEPT !.outReady = FALSE, !.outStall = TRUE]
      BY <1>11, <2>2 DEF Stall, Goto, StallOut
    <3>2. /\ dev'.hasResult = dev.hasResult /\ ~dev'.outReady /\ dev'.inReady = dev.inReady
          /\ dev'.inStall = dev.inStall /\ dev'.ctrlState = dev.ctrlState /\ dev'.tasks = dev.tasks
      BY <1>0, <3>1 DEF Members
    <3> QED
      BY <1>1, <1>2, <2>2, <3>1, <3>2 DEF Handling, Silent, Disarmed
  <2>3. CASE pc = "stallIn"
    <3>1. pc' = "rearm" /\ dev' = [dev EXCEPT !.inReady = FALSE, !.inStall = TRUE]
      BY <1>11, <2>3 DEF Stall, Goto, StallIn
    <3>2. dev'.inStall
      BY <1>0, <3>1 DEF Members
    <3>3. host.stage \in {"dataIn", "statusIn"}
      BY <1>2 DEF Expected
    <3> QED
      BY <1>1, <1>2, <3>1, <3>2, <3>3 DEF Refused, Silent
  <2> QED
    BY <2>1, <2>2, <2>3
<1> QED
  BY <1>3, <1>4, <1>5, <1>6, <1>7, <1>8, <1>9, <1>10, <1>11 DEF Thread

\* The end of HandleControl, while the host takes the answer.
LEMMA FinishesAnswer ==
  ASSUME IInv, Registers, Answering, Thread
  PROVE  Answering'
<1>0. Members \subseteq DOMAIN dev
  BY DEF Registers
<1>1. /\ host' = host /\ dev'.rxFifo = dev.rxFifo /\ dev'.usbrst = dev.usbrst
      /\ dev'.xfrcIn = dev.xfrcIn /\ dev'.setup = dev.setup
  BY ThreadFrame
<1>2. pc \in {"wait", "write", "finish"} /\ ~dev.tasks
  BY DEF Answering
<1>3. Write \/ Finish
  BY <1>2 DEF Thread, TakeTasks, StartControl, CarryOut, Check, Commit, Transmit, Stall, Goto
<1>4. CASE Write
  <2>1. pc = "write" /\ pc' = "finish" /\ dev' = [dev EXCEPT !.txFifo = Left(dev.txFifo \o send, FifoSize)]
    BY <1>4 DEF Write, TxFifoWrite, Goto
  <2>2. /\ dev'.hasResult = dev.hasResult /\ dev'.outReady = dev.outReady /\ dev'.inReady = dev.inReady
        /\ dev'.inStall = dev.inStall
        /\ dev'.outStall = dev.outStall /\ dev'.ctrlState = dev.ctrlState /\ dev'.tasks = dev.tasks
    BY <1>0, <2>1 DEF Members
  <2>3. dev.hasResult
    BY <2>1 DEF Answering
  <2> QED
    BY <1>1, <2>1, <2>2, <2>3 DEF Answering, Unstalled
<1>5. CASE Finish
  <2>1. pc = "finish" /\ dev.hasResult
    BY <1>5 DEF Answering, Finish, Goto
  <2>2. pc' = "wait" /\ dev' = dev
    BY <1>5, <2>1 DEF Finish, Goto
  <2> QED
    BY <1>1, <2>2 DEF Answering, Unstalled
<1> QED
  BY <1>3, <1>4, <1>5

LEMMA ResetThread ==
  ASSUME IInv, ResetInv, Thread
  PROVE  ResetInv'
<1>1. Registers /\ ResetPhase
  BY DEF ResetInv
<1>2. /\ host' = host /\ DOMAIN dev' = DOMAIN dev
      /\ dev'.rxFifo = dev.rxFifo /\ dev'.usbrst = dev.usbrst /\ dev'.stup = dev.stup
      /\ dev'.xfrcOut = dev.xfrcOut /\ dev'.xfrcIn = dev.xfrcIn /\ dev'.setup = dev.setup
      /\ dev.setupCount = 3 \/ pc = "rearm" => dev'.setupCount = 3
      /\ dev'.ctrlState \in {dev.ctrlState, "DataTx", "StatusTx", "Idle", "Stall"}
      /\ (dev.outStall => dev'.outStall) /\ (dev.inStall => dev'.inStall)
  BY <1>1, ThreadFrame
<1>3. Registers'
  BY <1>1, <1>2 DEF Registers, SetupReceived
<1>4. (Cleared => Cleared') /\ (Free => Free') /\ (Refused => Refused')
  BY <1>2 DEF Cleared, Free, Refused, Silent
<1>5. ~Beginning /\ ~Collecting
  BY DEF Beginning, Collecting, Idling, Thread, TakeTasks, StartControl, CarryOut, Check, Commit, Transmit,
         Write, Finish, Stall, Goto
<1>6. Handling => Handling' \/ Answering' \/ Refused'
  BY <1>1, HandlesRequest
<1>7. Answering => Answering'
  BY <1>1, FinishesAnswer
<1> QED
  BY <1>1, <1>3, <1>4, <1>5, <1>6, <1>7 DEF ResetInv, ResetPhase
-----------------------------------------------------------------------------
(* The host.                                                               *)

\* It asks when the device has nothing left to do, and is free.
LEMMA ResetAsk ==
  ASSUME Resetting, ResetInv, Ask
  PROVE  ResetInv'
<1>0. Registers /\ ResetPhase
  BY DEF ResetInv
<1>1. Settled /\ dev.rxFifo = <<>> /\ ~dev.xfrcIn /\ host.stage = "idle" /\ pc = "wait" /\ ~dev.tasks
  BY <1>0 DEF Ask, Resetting, Busy, Interrupt, Settled, Registers
<1>2. Free
  BY <1>0, <1>1 DEF ResetPhase, Settled, Cleared, Beginning, Collecting, Refused, Handling, Expected, Answering
<1>3. dev.setupCount = 3
  BY <1>1, <1>2 DEF Free
<1>ask. PICK r \in Requests :
      LET id == (host.id % 3) + 1 IN
      /\ host' = [host EXCEPT
            !.stage = CASE r.len = 0 -> "statusIn"
                        [] r.len > 0 /\ r.dir = "in"  -> "dataIn"
                        [] r.len > 0 /\ r.dir = "out" -> "dataOut",
            !.req = r, !.id = id, !.got = <<>>, !.result = "none"]
      /\ dev' = [dev EXCEPT
            !.rxFifo = @ \o <<[sts |-> "SetupRx", packet |-> Packet(r, id)],
                              [sts |-> "SetupComplete"]>>,
            !.setupCount = IF @ = 0 THEN 0 ELSE @ - 1,
            !.outReady = FALSE, !.inReady = FALSE, !.outStall = FALSE, !.inStall = FALSE]
  BY DEF Ask
<1> DEFINE id == (host.id % 3) + 1
           stage == CASE r.len = 0 -> "statusIn"
                      [] r.len > 0 /\ r.dir = "in"  -> "dataIn"
                      [] r.len > 0 /\ r.dir = "out" -> "dataOut"
           added == <<[sts |-> "SetupRx", packet |-> Packet(r, id)], [sts |-> "SetupComplete"]>>
<1>4. id \in Ids
  BY <1>0 DEF Registers, Ids
<1>5. stage = (IF r.len = 0 THEN "statusIn" ELSE IF r.dir = "in" THEN "dataIn" ELSE "dataOut")
  <2>1. r.len \in Nat /\ r.dir \in {"in", "out"}
    BY UsbAssumption DEF Request
  <2>2. r.len = 0 \/ r.len > 0
    BY <2>1
  <2> QED
    BY <2>1, <2>2
<1>6. host' = [host EXCEPT !.stage = stage, !.req = r, !.id = id, !.got = <<>>, !.result = "none"]
  BY <1>ask
<1>7. <<>> \o added = added
  OBVIOUS
<1>8. dev' = [dev EXCEPT !.rxFifo = dev.rxFifo \o added, !.setupCount = IF dev.setupCount = 0 THEN 0 ELSE dev.setupCount - 1,
            !.outReady = FALSE, !.inReady = FALSE, !.outStall = FALSE, !.inStall = FALSE]
  BY <1>ask, <1>1 DEF Settled, Members
<1> HIDE DEF stage, id, added
<1>9. /\ DOMAIN dev' = DOMAIN dev /\ dev'.rxFifo = added /\ dev'.setupCount = 2
      /\ ~dev'.outReady /\ ~dev'.inReady /\ ~dev'.outStall /\ ~dev'.inStall /\ dev'.tasks = dev.tasks
      /\ dev'.usbrst = dev.usbrst /\ dev'.stup = dev.stup /\ dev'.xfrcOut = dev.xfrcOut /\ dev'.xfrcIn = dev.xfrcIn
      /\ dev'.ctrlState = dev.ctrlState /\ dev'.setup = dev.setup
  <2>1. 3 - 1 = 2 /\ 3 # 0
    OBVIOUS
  <2>2. dev' = [dev EXCEPT !.rxFifo = added, !.setupCount = 2,
            !.outReady = FALSE, !.inReady = FALSE, !.outStall = FALSE, !.inStall = FALSE]
    BY <1>1, <1>3, <1>7, <1>8, <2>1
  <2> QED
    BY <1>1, <2>2 DEF Settled, Members
<1>10. DOMAIN host' = DOMAIN host /\ host'.stage = stage /\ host'.req = r /\ host'.id = id /\ pc' = pc
  BY <1>0, <1>6 DEF Registers, Ask, thread
<1>11. Registers'
  BY <1>0, <1>4, <1>9, <1>10 DEF Registers, SetupReceived
<1>12. Asked' = Packet(r, id)
  BY <1>10 DEF Asked
<1>13. dev'.rxFifo = <<[sts |-> "SetupRx", packet |-> Asked'], [sts |-> "SetupComplete"]>>
  BY <1>9, <1>12 DEF added
<1>14. Beginning'
  <2>1. ~dev'.usbrst /\ Idling' /\ ~dev'.xfrcIn /\ dev'.setupCount = 2 /\ Disarmed' /\ Unstalled'
    BY <1>1, <1>9, <1>10 DEF Idling, Disarmed, Unstalled, Settled
  <2>2. host'.stage = IF host'.req.len = 0 THEN "statusIn" ELSE IF host'.req.dir = "in" THEN "dataIn" ELSE "dataOut"
    BY <1>5, <1>10
  <2> QED
    BY <1>13, <2>1, <2>2 DEF Beginning
<1> QED
  BY <1>11, <1>14 DEF ResetInv, ResetPhase

\* It learns that its request is refused.
LEMMA ResetSeeStall ==
  ASSUME ResetInv, SeeStall
  PROVE  ResetInv'
<1>0. Registers /\ ResetPhase
  BY DEF ResetInv
<1>1. /\ dev' = dev /\ pc' = pc
      /\ \/ host.stage \in {"dataIn", "statusIn"} /\ dev.inStall
         \/ host.stage \in {"dataOut", "statusOut"} /\ dev.outStall
  BY DEF SeeStall, thread
<1>2. DOMAIN host' = DOMAIN host /\ host'.stage = "idle" /\ host'.req = host.req /\ host'.id = host.id
  BY <1>0 DEF SeeStall, Ends, Registers
<1>3. Refused
  BY <1>0, <1>1 DEF ResetPhase, Cleared, Free, Beginning, Collecting, Handling, Expected, Answering, Unstalled
<1>4. Registers'
  BY <1>0, <1>1, <1>2 DEF Registers, SetupReceived
<1>5. Free'
  BY <1>1, <1>2, <1>3 DEF Refused, Free, Silent
<1> QED
  BY <1>4, <1>5 DEF ResetInv, ResetPhase

\* It takes a packet of the answer, or the status.
LEMMA ResetTakePacket ==
  ASSUME ResetInv, TakePacket
  PROVE  ResetInv'
<1>0. Registers /\ ResetPhase
  BY DEF ResetInv
<1>1. /\ host.stage \in {"dataIn", "statusIn"} /\ dev.inReady /\ ~dev.inStall /\ pc' = pc
      /\ dev' = [dev EXCEPT !.inReady = FALSE, !.xfrcIn = TRUE, !.txFifo = Rest(@, dev.inSize)]
  BY DEF TakePacket, thread
<1>2. /\ DOMAIN dev' = DOMAIN dev /\ ~dev'.inReady /\ dev'.xfrcIn /\ dev'.rxFifo = dev.rxFifo
      /\ dev'.outReady = dev.outReady /\ dev'.outStall = dev.outStall /\ dev'.inStall = dev.inStall
      /\ dev'.tasks = dev.tasks /\ dev'.hasResult = dev.hasResult
      /\ dev'.usbrst = dev.usbrst /\ dev'.stup = dev.stup /\ dev'.xfrcOut = dev.xfrcOut
      /\ dev'.ctrlState = dev.ctrlState /\ dev'.setup = dev.setup
  BY <1>0, <1>1 DEF Registers, Members
<1>3. /\ DOMAIN host' = DOMAIN host /\ host'.req = host.req /\ host'.id = host.id
      /\ host.stage = "dataIn" => host'.stage \in {"dataIn", "statusOut"}
      /\ host.stage = "statusIn" => host'.stage = "idle"
  BY <1>0 DEF TakePacket, Ends, Registers
<1>4. Answering
  BY <1>0, <1>1 DEF ResetPhase, Cleared, Free, Beginning, Disarmed, Collecting, Handling, Refused
<1>5. Registers'
  BY <1>0, <1>2, <1>3 DEF Registers, SetupReceived
<1>6. \/ dev.ctrlState = "StatusTx" /\ host.stage = "statusIn" /\ dev.rxFifo = <<>>
      \/ dev.ctrlState = "DataTx" /\ host.stage = "dataIn" /\ dev.rxFifo = <<>> /\ ~dev.outReady
  BY <1>1, <1>4 DEF Answering
<1>7. Answering'
  BY <1>1, <1>2, <1>3, <1>4, <1>6 DEF Answering, Unstalled
<1> QED
  BY <1>5, <1>7 DEF ResetInv, ResetPhase

\* It sends its data, or the empty packet that confirms the answer.
LEMMA ResetSendPacket ==
  ASSUME ResetInv, SendPacket
  PROVE  ResetInv'
<1> DEFINE n == IF host.stage = "dataOut" THEN Least(host.req.sent, PacketSize) ELSE 0
           added == <<[sts |-> "Rx", bcnt |-> n], [sts |-> "RxComplete"]>>
<1>0. Registers /\ ResetPhase
  BY DEF ResetInv
<1>1. /\ host.stage \in {"dataOut", "statusOut"} /\ dev.outReady /\ ~dev.outStall /\ pc' = pc
      /\ dev' = [dev EXCEPT !.outReady = FALSE, !.received = n, !.rxFifo = @ \o added]
  BY DEF SendPacket, thread
<1>2. n \in Nat
  BY <1>0, UsbAssumption DEF Registers, Least, Request
<1>3. host.stage = "statusOut" => n = 0
  OBVIOUS
<1> HIDE DEF n
<1>4. <<>> \o added = added
  OBVIOUS
<1> HIDE DEF added
<1>5. (Collecting /\ host.stage = "dataOut") \/ (Answering /\ host.stage = "statusOut")
  BY <1>0, <1>1 DEF ResetPhase, Cleared, Free, Beginning, Disarmed, Collecting, Handling, Expected, Refused, Answering
<1>6. dev.rxFifo = <<>>
  BY <1>5 DEF Collecting, Answering
<1>7. /\ DOMAIN dev' = DOMAIN dev /\ ~dev'.outReady /\ dev'.rxFifo = added
      /\ dev'.inReady = dev.inReady /\ dev'.outStall = dev.outStall /\ dev'.inStall = dev.inStall
      /\ dev'.tasks = dev.tasks /\ dev'.hasResult = dev.hasResult /\ dev'.xfrcIn = dev.xfrcIn
      /\ dev'.usbrst = dev.usbrst /\ dev'.stup = dev.stup /\ dev'.xfrcOut = dev.xfrcOut
      /\ dev'.ctrlState = dev.ctrlState /\ dev'.setup = dev.setup
  BY <1>0, <1>1, <1>4, <1>6 DEF Registers, Members
<1>8. /\ DOMAIN host' = DOMAIN host /\ host'.req = host.req /\ host'.id = host.id
      /\ host'.stage = IF host.stage = "dataOut" THEN "statusIn" ELSE "idle"
  BY <1>0 DEF SendPacket, Ends, Registers
<1>9. Registers'
  BY <1>0, <1>7, <1>8 DEF Registers, SetupReceived
<1>10. CASE Collecting /\ host.stage = "dataOut"
  <2>1. \E m \in Nat : dev'.rxFifo = <<[sts |-> "Rx", bcnt |-> m], [sts |-> "RxComplete"]>>
    BY <1>2, <1>7 DEF added
  <2>2. Collecting'
    BY <1>1, <1>7, <1>8, <1>10, <2>1 DEF Collecting, Idling, Unstalled
  <2> QED
    BY <1>9, <2>2 DEF ResetInv, ResetPhase
<1>11. CASE Answering /\ host.stage = "statusOut"
  <2>1. dev'.rxFifo = <<[sts |-> "Rx", bcnt |-> 0], [sts |-> "RxComplete"]>>
    BY <1>3, <1>7, <1>11 DEF added
  <2>2. dev.ctrlState = "StatusRx"
    BY <1>1, <1>11 DEF Answering
  <2>3. Answering'
    BY <1>1, <1>7, <1>8, <1>11, <2>1, <2>2 DEF Answering, Unstalled
  <2> QED
    BY <1>9, <2>3 DEF ResetInv, ResetPhase
<1> QED
  BY <1>5, <1>10, <1>11

\* It resets the bus, whatever the thread may be doing.
LEMMA ResetResetBus ==
  ASSUME Resetting, ResetInv, ResetBus
  PROVE  ResetInv'
<1>0. Registers
  BY DEF ResetInv
<1>1. dev.rxFifo = <<>> /\ ~dev.xfrcIn /\ dev' = [dev EXCEPT !.usbrst = TRUE] /\ pc' = pc
  BY DEF ResetBus, Resetting, Interrupt, thread
<1>2. /\ DOMAIN dev' = DOMAIN dev /\ dev'.usbrst /\ dev'.rxFifo = <<>> /\ ~dev'.xfrcIn
      /\ dev'.stup = dev.stup /\ dev'.xfrcOut = dev.xfrcOut
      /\ dev'.ctrlState = dev.ctrlState /\ dev'.setup = dev.setup
  BY <1>0, <1>1 DEF Registers, Members
<1>3. DOMAIN host' = DOMAIN host /\ host'.stage = "idle" /\ host'.req = host.req /\ host'.id = host.id
  BY <1>0 DEF ResetBus, Registers
<1>4. Registers'
  BY <1>0, <1>2, <1>3 DEF Registers, SetupReceived
<1>5. Cleared'
  BY <1>2, <1>3 DEF Cleared, Silent
<1> QED
  BY <1>4, <1>5 DEF ResetInv, ResetPhase
-----------------------------------------------------------------------------
LEMMA ResetNext ==
  ASSUME Resetting, IInv, ResetInv, [Next]_vars
  PROVE  ResetInv'
<1>1. CASE UNCHANGED vars
  BY <1>1 DEF vars, thread, ResetInv, ResetPhase, Registers, SetupReceived, Cleared, Free, Beginning, Collecting,
              Refused, Handling, Answering, Silent, Idling, Disarmed, Unstalled, Expected, Asked
<1>2. CASE Next
  BY <1>2, ResetInterrupt, ResetThread, ResetAsk, ResetSeeStall, ResetTakePacket, ResetSendPacket, ResetResetBus
     DEF Next
<1> QED
  BY <1>1, <1>2

\* Where host and device can be with resets of the bus: a reset leaves endpoint 0 ready for SETUP
\* packets (HandleReset, ControlSetup), and the thread, which goes on with the old request, does not
\* take that away, since it is done before the host asks again.
THEOREM UsbResetPhases ==
  ASSUME Resetting
  PROVE  Spec => []ResetInv
<1>1. Init => ResetInv
  BY ResetInit
<1>2. IInv /\ ResetInv /\ [Next]_vars => ResetInv'
  BY ResetNext
<1> QED
  BY <1>1, <1>2, UsbInvariant, PTL DEF Spec

\* The request that IRQHandler takes from ctrl.setupBuffer is one that the host sent, also when the
\* bus was reset in the middle of another: the count of SETUP packets was restarted (ConfigureSetup).
THEOREM UsbSetupSurvivesResets ==
  ASSUME Resetting
  PROVE  Spec => []SetupReceived
<1>1. ResetInv => SetupReceived
  BY DEF ResetInv, Registers
<1> QED
  BY <1>1, UsbResetPhases, PTL
-----------------------------------------------------------------------------
(***************************************************************************)
(* A SETUP packet that arrives only when the device has nothing left to do *)
(* never replaces the request in the hands of the thread, even if the host *)
(* gives up requests and resets the bus.                                   *)
(***************************************************************************)
Undisturbed == Prompt /\ ~Suspends

\* A SETUP packet is due to be taken, and nothing else is going on.
SetupPending ==
  /\ \/ \E p \in SetupPackets : dev.rxFifo = <<[sts |-> "SetupRx", packet |-> p], [sts |-> "SetupComplete"]>>
     \/ dev.rxFifo = <<[sts |-> "SetupComplete"]>>
  /\ pc = "wait" /\ ~dev.tasks /\ ~dev.usbrst /\ ~dev.xfrcIn /\ Disarmed

NoSetup == \A n \in 1..Len(dev.rxFifo) : dev.rxFifo[n].sts # "SetupComplete"

\* HandleControl and ctrl.setup agree from StartControl on.
SetupInv ==
  /\ Members \subseteq DOMAIN dev /\ ~dev.stup /\ ~dev.xfrcOut
  /\ SetupPending \/ NoSetup
  /\ pc \notin {"wait", "start"} => dev.setup = setup

\* The reset and the IN endpoint have nothing to do with SETUP packets.
LEMMA OthersKeepSetup ==
  ASSUME NEW d, Members \subseteq DOMAIN d
  PROVE  /\ /\ Members \subseteq DOMAIN HandleReset(d)
            /\ HandleReset(d).setup = d.setup /\ HandleReset(d).stup = d.stup
            /\ HandleReset(d).xfrcOut = d.xfrcOut /\ HandleReset(d).rxFifo = d.rxFifo
            /\ HandleReset(d).data = d.data
         /\ /\ Members \subseteq DOMAIN HandleIn(d)
            /\ HandleIn(d).setup = d.setup /\ HandleIn(d).stup = d.stup
            /\ HandleIn(d).xfrcOut = d.xfrcOut /\ HandleIn(d).rxFifo = d.rxFifo
            /\ HandleIn(d).data = d.data
<1> DEFINE Same(e) == /\ Members \subseteq DOMAIN e /\ e.setup = d.setup /\ e.stup = d.stup
                      /\ e.xfrcOut = d.xfrcOut /\ e.rxFifo = d.rxFifo /\ e.data = d.data
<1>1. Same(HandleReset(d))
  BY DEF HandleReset, ControlSetup, ConfigureSetup, Reinitialize, Members
<1>2. Same(HandleIn(d))
  <2> DEFINE r == [d EXCEPT !.xfrcIn = FALSE]
             p == Left(d.txRemain, PacketSize)
             more == TxFifoWrite(TransmitPacket([r EXCEPT !.txRemain = Rest(@, PacketSize)], Len(p)), p)
             status == [ReceivePacket(r) EXCEPT !.ctrlState = "StatusRx"]
  <2>1. Same(r) /\ Same(ControlSetup(r)) /\ Same(status)
    BY DEF Members, ControlSetup, ConfigureSetup, ReceivePacket
  <2> HIDE DEF p
  <2>2. Same(more)
    BY DEF Members, TxFifoWrite, TransmitPacket
  <2>3. \/ HandleIn(d) = ControlSetup(r) \/ HandleIn(d) = more
        \/ HandleIn(d) = status \/ HandleIn(d) = r
    BY DEF HandleIn, p
  <2> HIDE DEF r, more, status, Same
  <2> QED
    BY <2>1, <2>2, <2>3
<1> QED
  BY <1>1, <1>2

\* HandleOut serves both flags, and takes a request only after a SETUP packet.
LEMMA OutTakesSetup ==
  ASSUME NEW d, Members \subseteq DOMAIN d, d.data \in SetupPackets, NEW junk \in SetupPackets
  PROVE  LET e == HandleOut(d, junk) IN
         /\ Members \subseteq DOMAIN e /\ ~e.stup /\ ~e.xfrcOut /\ e.rxFifo = d.rxFifo
         /\ ~d.stup => e.setup = d.setup
<1> DEFINE r == [d EXCEPT !.stup = FALSE, !.xfrcOut = FALSE]
           p == SetupRead(d, junk)
           q == [r EXCEPT !.setup = p]
           Served(e) == Members \subseteq DOMAIN e /\ ~e.stup /\ ~e.xfrcOut /\ e.rxFifo = d.rxFifo
           receive == [ReceivePacket(q) EXCEPT !.ctrlState = "DataRx"]
<1>1. p \in SetupPackets
  BY DEF SetupRead
<1>2. p.req.dir \in {"in", "out"} /\ p.req.len \in Nat /\ PacketSize \in Nat
  BY <1>1, UsbAssumption DEF SetupPackets, Request
<1> HIDE DEF p
<1>3. Served(r) /\ r.setup = d.setup /\ Served(q)
  BY DEF Members
<1> HIDE DEF r, q
<1>4. ASSUME NEW e, Served(e)
      PROVE  /\ Served(ControlSetup(e)) /\ ControlSetup(e).setup = e.setup
             /\ Served(ControlStall(e)) /\ ControlStall(e).setup = e.setup
             /\ Served(Process(e)) /\ Process(e).setup = e.setup
  BY <1>4 DEF Members, ControlSetup, ControlStall, ConfigureSetup, StallIn, StallOut, Process
<1>5. Served(receive)
  BY <1>3 DEF Members, ReceivePacket
<1> HIDE DEF Served
<1>6. CASE d.stup
  <2>1. HandleOut(d, junk) = StartRequest(r, p)
    BY <1>6 DEF HandleOut, r, p
  <2> HIDE DEF receive
  <2>2. StartRequest(r, p) \in {ControlStall(q), receive, Process(q)}
    BY <1>2 DEF StartRequest, q, receive
  <2>3. Served(HandleOut(d, junk))
    BY <1>3, <1>4, <1>5, <2>1, <2>2
  <2> QED
    BY <1>6, <2>3 DEF Served
<1>7. CASE ~d.stup
  <2>1. HandleOut(d, junk) \in {Process(r), Process(ControlStall(r)), ControlSetup(r), r}
    BY <1>7 DEF HandleOut, r
  <2>2. Served(HandleOut(d, junk)) /\ HandleOut(d, junk).setup = d.setup
    BY <1>3, <1>4, <2>1
  <2> QED
    BY <2>2 DEF Served
<1> QED
  BY <1>6, <1>7

\* An entry of the receive FIFO that is not the end of a SETUP packet.
LEMMA RxKeepsSetup ==
  ASSUME DeviceOK(dev), Members \subseteq DOMAIN dev, NoSetup
  PROVE  LET e == HandleRx(dev) IN
         /\ Members \subseteq DOMAIN e /\ e.setup = dev.setup /\ e.stup = dev.stup /\ e.data \in SetupPackets
         /\ e.rxFifo = dev.rxFifo \/ (dev.rxFifo # <<>> /\ e.rxFifo = Tail(dev.rxFifo))
<1> DEFINE e == Head(dev.rxFifo)
           r == [dev EXCEPT !.rxFifo = Tail(dev.rxFifo)]
<1>1. CASE dev.rxFifo = <<>>
  BY <1>1 DEF HandleRx, DeviceOK
<1>2. CASE dev.rxFifo # <<>>
  <2>1. e \in Entries /\ e.sts # "SetupComplete"
    BY <1>2 DEF DeviceOK, NoSetup
  <2>2. /\ Members \subseteq DOMAIN r /\ r.setup = dev.setup /\ r.stup = dev.stup
        /\ r.data = dev.data /\ r.rxFifo = Tail(dev.rxFifo) /\ dev.data \in SetupPackets
    BY DEF Members, DeviceOK
  <2> HIDE DEF r, e
  <2>3. HandleRx(dev) = CASE e.sts = "SetupRx"       -> [r EXCEPT !.ctrlState = "Idle", !.data = e.packet]
                          [] e.sts = "SetupComplete" -> [r EXCEPT !.stup = TRUE]
                          [] e.sts = "Rx"            -> [r EXCEPT !.failed = e.bcnt > 0]
                          [] e.sts = "RxComplete"    -> [r EXCEPT !.xfrcOut = TRUE]
    BY <1>2 DEF HandleRx, r, e
  <2>4. CASE e.sts = "SetupRx"
    <3>1. e.packet \in SetupPackets
      BY <2>1, <2>4 DEF Entries
    <3>2. HandleRx(dev) = [r EXCEPT !.ctrlState = "Idle", !.data = e.packet]
      BY <2>3, <2>4
    <3> QED
      BY <1>2, <2>2, <3>1, <3>2 DEF Members
  <2>5. CASE e.sts = "Rx"
    <3>1. HandleRx(dev) = [r EXCEPT !.failed = e.bcnt > 0]
      BY <2>3, <2>5
    <3> QED
      BY <1>2, <2>2, <3>1 DEF Members
  <2>6. CASE e.sts = "RxComplete"
    <3>1. HandleRx(dev) = [r EXCEPT !.xfrcOut = TRUE]
      BY <2>3, <2>6
    <3> QED
      BY <1>2, <2>2, <3>1 DEF Members
  <2> QED
    BY <2>1, <2>4, <2>5, <2>6 DEF Entries
<1> QED
  BY <1>1, <1>2

-----------------------------------------------------------------------------
\* IRQHandler takes a request only while the thread waits.
LEMMA SetupInterrupt ==
  ASSUME IInv, SetupInv, IRQHandler
  PROVE  SetupInv'
<1> PICK r0 \in Requests : dev' = HandleOut(HandleIn(HandleReset(HandleRx(dev))), Packet(r0, 0))
  BY DEF IRQHandler
<1> DEFINE junk == Packet(r0, 0)
           d1 == HandleRx(dev)
           d2 == HandleReset(d1)
           d3 == HandleIn(d2)
<1>1. junk \in SetupPackets
  BY DEF Packet, SetupPackets
<1>2. pc' = pc /\ setup' = setup
  BY DEF IRQHandler, thread
<1>3. DeviceOK(dev) /\ Members \subseteq DOMAIN dev /\ ~dev.stup /\ ~dev.xfrcOut
  BY DEF IInv, SetupInv
<1>4. dev' = HandleOut(d3, junk)
  OBVIOUS
<1>5. ASSUME Members \subseteq DOMAIN d1, d1.data \in SetupPackets
      PROVE  /\ Members \subseteq DOMAIN dev' /\ ~dev'.stup /\ ~dev'.xfrcOut
             /\ dev'.rxFifo = d1.rxFifo
             /\ ~d1.stup => dev'.setup = d1.setup
  <2> HIDE DEF d1, junk
  <2>1. /\ Members \subseteq DOMAIN d2 /\ d2.setup = d1.setup /\ d2.stup = d1.stup
        /\ d2.rxFifo = d1.rxFifo /\ d2.data = d1.data
    BY <1>5, OthersKeepSetup
  <2> HIDE DEF d2
  <2>2. /\ Members \subseteq DOMAIN d3 /\ d3.setup = d1.setup /\ d3.stup = d1.stup
        /\ d3.rxFifo = d1.rxFifo /\ d3.data = d1.data
    BY <2>1, OthersKeepSetup
  <2> HIDE DEF d3
  <2> QED
    BY <1>1, <1>4, <1>5, <2>2, OutTakesSetup
<1>6. CASE NoSetup
  <2>1. /\ Members \subseteq DOMAIN d1 /\ d1.setup = dev.setup /\ d1.stup = dev.stup /\ d1.data \in SetupPackets
        /\ d1.rxFifo = dev.rxFifo \/ (dev.rxFifo # <<>> /\ d1.rxFifo = Tail(dev.rxFifo))
    BY <1>3, <1>6, RxKeepsSetup
  <2> HIDE DEF d1, d2, d3, junk
  <2>2. /\ Members \subseteq DOMAIN dev' /\ ~dev'.stup /\ ~dev'.xfrcOut
        /\ dev'.rxFifo = d1.rxFifo /\ dev'.setup = dev.setup
    BY <1>3, <1>5, <2>1
  <2>3. NoSetup'
    <3>1. CASE dev'.rxFifo = dev.rxFifo
      BY <1>6, <3>1 DEF NoSetup
    <3>2. CASE dev.rxFifo # <<>> /\ dev'.rxFifo = Tail(dev.rxFifo)
      <4>1. dev.rxFifo \in Seq(Entries)
        BY <1>3 DEF DeviceOK
      <4>2. /\ Len(Tail(dev.rxFifo)) = Len(dev.rxFifo) - 1
            /\ \A n \in 1..Len(Tail(dev.rxFifo)) : Tail(dev.rxFifo)[n] = dev.rxFifo[n + 1] /\ n + 1 \in 1..Len(dev.rxFifo)
        BY <3>2, <4>1
      <4> QED
        BY <1>6, <3>2, <4>2 DEF NoSetup
    <3> QED
      BY <2>1, <2>2, <3>1, <3>2
  <2> QED
    BY <1>2, <2>2, <2>3 DEF SetupInv
<1>7. CASE SetupPending /\ dev.rxFifo = <<[sts |-> "SetupComplete"]>>
  <2>1. d1 = [[dev EXCEPT !.rxFifo = <<>>] EXCEPT !.stup = TRUE]
    BY <1>7 DEF HandleRx
  <2>2. Members \subseteq DOMAIN d1 /\ d1.data \in SetupPackets /\ d1.rxFifo = <<>>
    BY <1>3, <2>1 DEF Members, DeviceOK
  <2> HIDE DEF d1, d2, d3, junk
  <2>3. Members \subseteq DOMAIN dev' /\ ~dev'.stup /\ ~dev'.xfrcOut /\ dev'.rxFifo = <<>>
    BY <1>5, <2>2
  <2>4. NoSetup'
    <3>1. Len(dev'.rxFifo) = 0
      BY <2>3
    <3> QED
      BY <3>1 DEF NoSetup
  <2>5. pc' = "wait"
    BY <1>2, <1>7 DEF SetupPending
  <2> QED
    BY <2>3, <2>4, <2>5 DEF SetupInv
<1>8. ASSUME SetupPending, NEW p \in SetupPackets,
             dev.rxFifo = <<[sts |-> "SetupRx", packet |-> p], [sts |-> "SetupComplete"]>>
      PROVE  SetupInv'
  <2>1. Settled /\ ~dev.xfrcIn
    BY <1>3, <1>8 DEF Settled, SetupPending
  <2>2. d1 = [[dev EXCEPT !.rxFifo = <<[sts |-> "SetupComplete"]>>] EXCEPT !.ctrlState = "Idle", !.data = p]
    <3>1. /\ dev.rxFifo # <<>> /\ Head(dev.rxFifo) = [sts |-> "SetupRx", packet |-> p]
          /\ Tail(dev.rxFifo) = <<[sts |-> "SetupComplete"]>>
      BY <1>8
    <3> DEFINE r == [dev EXCEPT !.rxFifo = Tail(dev.rxFifo)]
               e == Head(dev.rxFifo)
    <3>2. e.sts = "SetupRx" /\ e.packet = p
      BY <3>1
    <3>3. r = [dev EXCEPT !.rxFifo = <<[sts |-> "SetupComplete"]>>]
      BY <3>1
    <3>4. HandleRx(dev) = CASE e.sts = "SetupRx"       -> [r EXCEPT !.ctrlState = "Idle", !.data = e.packet]
                            [] e.sts = "SetupComplete" -> [r EXCEPT !.stup = TRUE]
                            [] e.sts = "Rx"            -> [r EXCEPT !.failed = e.bcnt > 0]
                            [] e.sts = "RxComplete"    -> [r EXCEPT !.xfrcOut = TRUE]
      BY <3>1 DEF HandleRx
    <3> HIDE DEF r, e
    <3>5. d1 = [r EXCEPT !.ctrlState = "Idle", !.data = p]
      BY <3>2, <3>4
    <3> HIDE DEF d1
    <3> QED
      BY <3>3, <3>5
  <2>3. /\ Members \subseteq DOMAIN d1 /\ ~d1.usbrst /\ ~d1.stup /\ ~d1.xfrcOut /\ ~d1.xfrcIn
        /\ d1.rxFifo = <<[sts |-> "SetupComplete"]>> /\ d1.tasks = dev.tasks
        /\ d1.outReady = dev.outReady /\ d1.inReady = dev.inReady
    BY <2>1, <2>2 DEF Settled, Members
  <2> HIDE DEF d1, junk
  <2>4. d2 = d1
    BY <2>3, QuietHandlers
  <2>5. d3 = [d1 EXCEPT !.xfrcIn = FALSE]
    BY <2>3, <2>4, QuietHandlers
  <2>6. /\ Members \subseteq DOMAIN d3 /\ ~d3.usbrst /\ ~d3.stup /\ ~d3.xfrcOut /\ ~d3.xfrcIn
        /\ d3.rxFifo = <<[sts |-> "SetupComplete"]>> /\ d3.tasks = dev.tasks
        /\ d3.outReady = dev.outReady /\ d3.inReady = dev.inReady
    BY <2>3, <2>5 DEF Members
  <2> HIDE DEF d2, d3
  <2>7. dev' = [d3 EXCEPT !.stup = FALSE, !.xfrcOut = FALSE]
    BY <1>4, <2>6, QuietHandlers
  <2>8. /\ Members \subseteq DOMAIN dev' /\ ~dev'.usbrst /\ ~dev'.stup /\ ~dev'.xfrcOut /\ ~dev'.xfrcIn
        /\ dev'.rxFifo = <<[sts |-> "SetupComplete"]>> /\ dev'.tasks = dev.tasks
        /\ dev'.outReady = dev.outReady /\ dev'.inReady = dev.inReady
    BY <2>6, <2>7 DEF Members
  <2> QED
    BY <1>2, <1>8, <2>8 DEF SetupInv, SetupPending, Disarmed
<1> QED
  BY <1>6, <1>7, <1>8 DEF SetupInv, SetupPending

\* The thread takes the request with setup, and changes ctrl.setup never.
LEMMA SetupThread ==
  ASSUME IInv, SetupInv, Thread
  PROVE  SetupInv'
<1>1. ~SetupPending
  BY DEF SetupPending, Thread, TakeTasks, StartControl, CarryOut, Check, Commit, Transmit, Write, Finish, Stall, Goto
<1>2. Members \subseteq DOMAIN dev /\ ~dev.stup /\ ~dev.xfrcOut /\ NoSetup
  BY <1>1 DEF SetupInv
<1> DEFINE Same == /\ Members \subseteq DOMAIN dev' /\ dev'.stup = dev.stup /\ dev'.xfrcOut = dev.xfrcOut
                   /\ dev'.rxFifo = dev.rxFifo /\ dev'.setup = dev.setup
<1>3. ASSUME Same, \/ pc \notin {"wait", "start"} /\ setup' = setup
                   \/ pc' = "start"
                   \/ setup' = dev.setup
      PROVE  SetupInv'
  BY <1>2, <1>3 DEF SetupInv, NoSetup
<1>4. CASE TakeTasks
  <2>1. Same /\ pc' = "start"
    BY <1>2, <1>4 DEF TakeTasks, Goto, Members
  <2> QED
    BY <1>3, <2>1
<1>5. CASE StartControl
  <2>1. Same /\ setup' = dev.setup
    BY <1>2, <1>5 DEF StartControl, Members
  <2> QED
    BY <1>3, <2>1
<1>6. CASE CarryOut
  <2>1. setup.req.op \in {"none", "address", "configure"}
    BY UsbAssumption DEF IInv, SetupPackets, Request
  <2>2. dev' = SetAddress(dev, setup.req.value) \/ dev' = SetConfiguration(dev, setup.req.value) \/ dev' = dev
    BY <1>6, <2>1 DEF CarryOut
  <2>3. Same
    BY <1>2, <2>2 DEF SetAddress, SetConfiguration, Members
  <2>4. pc \notin {"wait", "start"} /\ setup' = setup
    BY <1>6 DEF CarryOut, Goto
  <2> QED
    BY <1>3, <2>3, <2>4
<1>7. CASE Check \/ Finish
  <2>1. Same /\ pc \notin {"wait", "start"} /\ setup' = setup
    BY <1>2, <1>7 DEF Check, Finish, Goto
  <2> QED
    BY <1>3, <2>1
<1>8. CASE Commit
  <2>1. Same /\ pc \notin {"wait", "start"} /\ setup' = setup
    BY <1>2, <1>8 DEF Commit, Goto, Members
  <2> QED
    BY <1>3, <2>1
<1>9. CASE Transmit \/ Write
  <2>1. Same /\ pc \notin {"wait", "start"} /\ setup' = setup
    BY <1>2, <1>9 DEF Transmit, TransmitPacket, Write, TxFifoWrite, Goto, Members
  <2> QED
    BY <1>3, <2>1
<1>10. CASE Stall
  <2>1. Same /\ pc \notin {"wait", "start"} /\ setup' = setup
    BY <1>2, <1>10 DEF Stall, StallOut, StallIn, ConfigureSetup, Goto, Members
  <2> QED
    BY <1>3, <2>1
<1> QED
  BY <1>4, <1>5, <1>6, <1>7, <1>8, <1>9, <1>10 DEF Thread

\* What is in a concatenation is in one of its parts.
LEMMA BothParts ==
  ASSUME NEW S, NEW s \in Seq(S), NEW t \in Seq(S), NEW k \in 1..Len(s \o t)
  PROVE  IF k <= Len(s) THEN k \in 1..Len(s) /\ (s \o t)[k] = s[k]
         ELSE k - Len(s) \in 1..Len(t) /\ (s \o t)[k] = t[k - Len(s)]
OBVIOUS

\* The host.  Ask finds the device with nothing left to do.
LEMMA SetupHost ==
  ASSUME Undisturbed, IInv, SetupInv, Ask \/ SeeStall \/ TakePacket \/ SendPacket \/ ResetBus
  PROVE  SetupInv'
<1>0. Members \subseteq DOMAIN dev /\ ~dev.stup /\ ~dev.xfrcOut /\ dev.rxFifo \in Seq(Entries)
  BY DEF SetupInv, IInv, DeviceOK
<1>1. CASE Ask
  <2>1. dev.rxFifo = <<>> /\ ~dev.xfrcIn /\ ~dev.usbrst /\ pc = "wait" /\ ~dev.tasks /\ pc' = pc
    BY <1>1 DEF Ask, Undisturbed, Busy, Interrupt, thread
  <2> PICK r \in Requests :
        dev' = [dev EXCEPT
            !.rxFifo = @ \o <<[sts |-> "SetupRx", packet |-> Packet(r, (host.id % 3) + 1)],
                              [sts |-> "SetupComplete"]>>,
            !.setupCount = IF @ = 0 THEN 0 ELSE @ - 1,
            !.outReady = FALSE, !.inReady = FALSE, !.outStall = FALSE, !.inStall = FALSE]
    BY <1>1 DEF Ask
  <2> DEFINE p == Packet(r, (host.id % 3) + 1)
             added == <<[sts |-> "SetupRx", packet |-> p], [sts |-> "SetupComplete"]>>
  <2>2. p \in SetupPackets
    <3>1. (host.id % 3) + 1 \in 0..3
      BY DEF IInv, HostOK, Ids
    <3> QED
      BY <3>1 DEF Packet, SetupPackets
  <2>3. /\ Members \subseteq DOMAIN dev' /\ dev'.rxFifo = dev.rxFifo \o added
        /\ dev'.stup = dev.stup /\ dev'.xfrcOut = dev.xfrcOut /\ dev'.xfrcIn = dev.xfrcIn
        /\ dev'.usbrst = dev.usbrst /\ dev'.tasks = dev.tasks /\ ~dev'.outReady /\ ~dev'.inReady
    BY <1>0 DEF Members
  <2> HIDE DEF p
  <2>4. dev'.rxFifo = added
    BY <2>1, <2>3
  <2>5. SetupPending'
    BY <2>1, <2>2, <2>3, <2>4 DEF SetupPending, Disarmed
  <2> QED
    BY <1>0, <2>1, <2>3, <2>5 DEF SetupInv
<1>2. CASE SeeStall
  BY <1>2 DEF SeeStall, thread, SetupInv, SetupPending, NoSetup, Disarmed
<1>3. CASE TakePacket
  <2>1. dev.inReady /\ pc' = pc /\ setup' = setup
    BY <1>3 DEF TakePacket, thread
  <2>2. NoSetup
    BY <2>1 DEF SetupInv, SetupPending, Disarmed
  <2>3. /\ Members \subseteq DOMAIN dev' /\ dev'.rxFifo = dev.rxFifo /\ dev'.setup = dev.setup
        /\ dev'.stup = dev.stup /\ dev'.xfrcOut = dev.xfrcOut
    BY <1>0, <1>3 DEF TakePacket, Members
  <2> QED
    BY <2>1, <2>2, <2>3 DEF SetupInv, NoSetup
<1>4. CASE SendPacket
  <2> DEFINE n == IF host.stage = "dataOut" THEN Least(host.req.sent, PacketSize) ELSE 0
             added == <<[sts |-> "Rx", bcnt |-> n], [sts |-> "RxComplete"]>>
  <2>1. dev.outReady /\ pc' = pc /\ setup' = setup
    BY <1>4 DEF SendPacket, thread
  <2>2. NoSetup
    BY <2>1 DEF SetupInv, SetupPending, Disarmed
  <2>3. dev' = [dev EXCEPT !.outReady = FALSE, !.received = n, !.rxFifo = @ \o added]
    BY <1>4 DEF SendPacket
  <2> HIDE DEF n
  <2>4. /\ Members \subseteq DOMAIN dev' /\ dev'.rxFifo = dev.rxFifo \o added /\ dev'.setup = dev.setup
        /\ dev'.stup = dev.stup /\ dev'.xfrcOut = dev.xfrcOut
    BY <1>0, <2>3 DEF Members
  <2>5. NoSetup'
    <3>1. Len(added) = 2 /\ added[1].sts = "Rx" /\ added[2].sts = "RxComplete"
      OBVIOUS
    <3> DEFINE S == Entries \cup {added[1], added[2]}
               s == dev.rxFifo
    <3>2. added \in Seq(S)
      <4>1. added[1] \in S /\ added[2] \in S
        OBVIOUS
      <4> HIDE DEF S
      <4> QED
        BY <4>1
    <3>3. s \in Seq(S) /\ \A k \in 1..Len(s) : s[k].sts # "SetupComplete"
      BY <1>0, <2>2 DEF NoSetup
    <3>4. dev'.rxFifo = s \o added
      BY <2>4
    <3> HIDE DEF added, S, s
    <3>5. ASSUME NEW k \in 1..Len(s \o added)
          PROVE  (s \o added)[k].sts # "SetupComplete"
      <4>1. CASE k <= Len(s)
        BY <3>2, <3>3, <4>1, BothParts
      <4>2. CASE ~(k <= Len(s))
        <5>1. (s \o added)[k] = added[k - Len(s)] /\ k - Len(s) \in 1..2
          BY <3>1, <3>2, <3>3, <4>2, BothParts
        <5> QED
          BY <3>1, <5>1
      <4> QED
        BY <4>1, <4>2
    <3> QED
      BY <3>4, <3>5 DEF NoSetup
  <2> QED
    BY <1>0, <2>1, <2>4, <2>5 DEF SetupInv
<1>5. CASE ResetBus
  <2>1. dev' = [dev EXCEPT !.usbrst = TRUE] /\ dev.rxFifo = <<>> /\ pc' = pc /\ setup' = setup
    BY <1>5 DEF ResetBus, Undisturbed, Interrupt, thread
  <2>2. /\ Members \subseteq DOMAIN dev' /\ dev'.rxFifo = <<>> /\ dev'.setup = dev.setup
        /\ dev'.stup = dev.stup /\ dev'.xfrcOut = dev.xfrcOut
    BY <1>0, <2>1 DEF Members
  <2>3. Len(dev'.rxFifo) = 0
    BY <2>2
  <2>4. NoSetup'
    BY <2>3 DEF NoSetup
  <2> QED
    BY <2>1, <2>2, <2>4 DEF SetupInv
<1> QED
  BY <1>1, <1>2, <1>3, <1>4, <1>5

\* From StartControl on the thread handles the request in ctrl.setup, and the next SETUP packet
\* waits until it is done, for any requests, and whatever the host gives up or resets.
THEOREM UsbSetupIsStable ==
  ASSUME Undisturbed
  PROVE  Spec => []SetupInv
<1>1. Init => SetupInv
  <2> SUFFICES ASSUME Init PROVE SetupInv
    OBVIOUS
  <2>1. Members \subseteq DOMAIN dev /\ ~dev.stup /\ ~dev.xfrcOut /\ dev.rxFifo = <<>> /\ pc = "wait"
    BY DEF Init, Members
  <2>2. Len(dev.rxFifo) = 0
    BY <2>1
  <2> QED
    BY <2>1, <2>2 DEF SetupInv, NoSetup
<1>2. IInv /\ SetupInv /\ [Next]_vars => SetupInv'
  <2> SUFFICES ASSUME IInv, SetupInv, [Next]_vars PROVE SetupInv'
    OBVIOUS
  <2>1. CASE UNCHANGED vars
    BY <2>1 DEF vars, thread, SetupInv, SetupPending, NoSetup, Disarmed
  <2>2. CASE Next
    BY <2>2, SetupInterrupt, SetupThread, SetupHost DEF Next
  <2> QED
    BY <2>1, <2>2
<1> QED
  BY <1>1, <1>2, UsbInvariant, PTL DEF Spec

\* ControlSuccess answers the request that HandleControl was called for, also if the host gives up
\* requests and resets the bus, as long as its next SETUP packet finds the device done and no
\* callback suspends the thread.
THEOREM UsbAnswersUndisturbed ==
  ASSUME Undisturbed
  PROVE  Spec => []AnswersItsRequest
<1>1. SetupInv => AnswersItsRequest
  BY DEF SetupInv, AnswersItsRequest
<1> QED
  BY <1>1, UsbSetupIsStable, PTL
=============================================================================
