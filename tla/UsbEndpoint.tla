----------------------------- MODULE UsbEndpoint -----------------------------
(* The data endpoints of the USB device, one of each direction: SendPacket and
   ReceivePacket against the endpoint interrupts, the FIFOs, the host, timeouts
   and bus resets.  IN data is counted in words of the FIFO, OUT data in bytes.
   Interrupts are taken before the thread goes on.  An assertion that fails
   stops the device.                                                          *)
EXTENDS Integers, Sequences, SequencesExt

CONSTANTS PacketWords,   \* words of an IN packet of the endpoint's size
          Sends,         \* lengths of SendPacket, in words
          FifoSize,      \* words of the transmit FIFO
          Packets,       \* lengths of the packets of the host
          Buffers,       \* lengths of the buffers given to ReceivePacket
          MaxWords,      \* bound on the words sent
          MaxPackets,    \* bound on the packets received
          Configurations \* sets of endpoints that a configuration may have

ASSUME EndpointAssumption ==
    /\ PacketWords \in Nat \ {0} /\ FifoSize \in Nat /\ MaxWords \in Nat /\ MaxPackets \in Nat
    /\ Sends \subseteq Nat /\ Packets \subseteq Nat /\ Buffers \subseteq Nat
    /\ Configurations \subseteq SUBSET {"in", "out"}

VARIABLES in,        \* DeviceInEndpoint, the frame of SendPacket, the registers
          fifo,      \* the transmit FIFO, as the words' numbers
          out,       \* DeviceOutEndpoint, the frame of ReceivePacket, the registers
          rx,        \* entries of the receive FIFO
          host,      \* history: words taken, given, reported; packets sent, returned; faults
          active,    \* the endpoints whose USBAEP is set
          config     \* the endpoints in the configuration of the device

vars == <<in, fifo, out, rx, host, active, config>>

Smaller(a, b) == IF a < b THEN a ELSE b

Init == /\ in = [pc |-> "out", txWords |-> 0, txPtr |-> 0, start |-> 0, complete |-> FALSE, disabled |-> FALSE,
                 empty |-> FALSE, epena |-> FALSE, epdis |-> FALSE, left |-> 0, xfrc |-> FALSE, epdisd |-> FALSE]
        /\ out = [pc |-> "out", buffer |-> 0, complete |-> FALSE, disabled |-> FALSE,
                  epena |-> FALSE, epdis |-> FALSE, xfrc |-> FALSE, epdisd |-> FALSE]
        /\ fifo = <<>> /\ rx = <<>> /\ active = {} /\ config \in Configurations
        /\ host = [got |-> <<>>, given |-> 0, reported |-> 0, sent |-> <<>>, returned |-> <<>>, skew |-> 0, faults |-> {}]

----------------------------------------------------------------------------
(* DeviceInEndpoint and DeviceOutEndpoint, HandleInterrupts                   *)
InPending == in.xfrc \/ in.epdisd \/ (in.empty /\ fifo = <<>>)
OutPending == out.xfrc \/ out.epdisd \/ rx # <<>>
\* An assertion has failed.
Stopped == in.pc = "failed" \/ out.pc = "failed"
ThreadRuns == ~InPending /\ ~OutPending /\ ~Stopped

\* Mutant: the space in the FIFO is not asked for.
BatchAll == in.txWords
Batch == Smaller(in.txWords, FifoSize - Len(fifo))

HandleInterruptsIn ==
    /\ InPending /\ ~Stopped
    /\ LET batch == IF fifo = <<>> THEN Batch ELSE 0 IN
       /\ fifo' = fifo \o [k \in 1..batch |-> in.txPtr + k]
       /\ in' = [in EXCEPT !.txPtr = @ + batch, !.txWords = @ - batch,
                           !.empty = @ /\ ~(fifo = <<>> /\ in.txWords = batch),
                           !.complete = @ \/ in.xfrc, !.disabled = @ \/ in.epdisd,
                           !.xfrc = FALSE, !.epdisd = FALSE]
    /\ UNCHANGED <<out, rx, host, active, config>>

HandleInterruptsOut ==
    /\ (out.xfrc \/ out.epdisd) /\ ~Stopped
    /\ out' = [out EXCEPT !.complete = @ \/ out.xfrc, !.disabled = @ \/ out.epdisd,
                          !.xfrc = FALSE, !.epdisd = FALSE]
    /\ UNCHANGED <<in, fifo, rx, host, active, config>>

\* The words that PacketReceived takes from the FIFO for `size` bytes.
WordsOf(size) == (size + 3) \div 4
WordsTaken(size, length) ==
    IF length >= WordsOf(size) * 4 THEN WordsOf(size)
    ELSE LET toRead == length \div 4
             part == IF length % 4 # 0 THEN 1 ELSE 0
         IN  toRead + part + (WordsOf(size) - toRead - part)

\* Mutant: packetBuffer keeps its length.
LeftNot(length, size) == length
Left(length, size) == Smaller(length, size)

\* HandleRx of an entry, a packet or the end of the transfer; a packet without
\* data is taken for an acknowledgement.
PacketReceived ==
    /\ rx # <<>> /\ ~Stopped
    /\ rx' = Tail(rx)
    /\ CASE Head(rx) = -1 -> out' = [out EXCEPT !.epena = FALSE, !.xfrc = TRUE] /\ UNCHANGED host
         [] Head(rx) = 0 -> UNCHANGED <<out, host>>
         [] Head(rx) > 0 /\ out.complete -> out' = [out EXCEPT !.pc = "failed"] /\ UNCHANGED host
         [] OTHER -> /\ out' = [out EXCEPT !.buffer = Left(@, Head(rx)), !.complete = TRUE]
                     /\ host' = [host EXCEPT !.skew = @ + WordsOf(Head(rx)) - WordsTaken(Head(rx), out.buffer)]
    /\ UNCHANGED <<in, fifo, active, config>>

----------------------------------------------------------------------------
(* DeviceInEndpoint::SendPacket                                               *)
SendPacket(words) ==
    /\ ThreadRuns /\ "in" \in active /\ in.pc = "out" /\ host.given + words <= MaxWords
    /\ IF in.txWords # 0 THEN in' = [in EXCEPT !.pc = "failed"] /\ UNCHANGED host
       ELSE /\ in' = [in EXCEPT !.pc = "transmit", !.txWords = words, !.txPtr = host.given, !.start = host.given,
                                !.complete = FALSE, !.disabled = FALSE]
            /\ host' = [host EXCEPT !.given = @ + words]
    /\ UNCHANGED <<fifo, out, rx, active, config>>

Transmit ==
    /\ ThreadRuns /\ in.pc = "transmit"
    /\ in' = [in EXCEPT !.pc = "wait", !.epena = TRUE, !.left = in.txWords, !.empty = @ \/ in.txWords > 0]
    /\ UNCHANGED <<fifo, out, rx, host, active, config>>

\* The words that went into the FIFO, with the host or not.
Sent == in.txPtr - in.start

SendComplete ==
    /\ ThreadRuns /\ in.pc = "wait" /\ in.complete
    /\ in' = [in EXCEPT !.pc = "out"]
    /\ host' = [host EXCEPT !.reported = @ + Sent]
    /\ UNCHANGED <<fifo, out, rx, active, config>>

SendTimeout ==
    /\ ThreadRuns /\ in.pc = "wait" /\ ~in.complete
    /\ in' = [in EXCEPT !.pc = "reset"]
    /\ host' = [host EXCEPT !.faults = @ \cup {"timeout"}]
    /\ UNCHANGED <<fifo, out, rx, active, config>>

\* USBInEndpoint::Reset: EPDIS is written if the endpoint is enabled.
SendReset ==
    /\ ThreadRuns /\ in.pc = "reset"
    /\ in' = [in EXCEPT !.pc = "disable", !.epdis = in.epena]
    /\ UNCHANGED <<fifo, out, rx, host, active, config>>

\* Mutant: txWords is left as it is.
AbandonedKeep(n) == n
Abandoned(n) == 0

SendDisabled ==
    /\ ThreadRuns /\ in.pc = "disable" /\ in.disabled
    /\ in' = [in EXCEPT !.pc = "out", !.txWords = Abandoned(@)]
    /\ host' = [host EXCEPT !.reported = @ + Sent]
    /\ UNCHANGED <<fifo, out, rx, active, config>>

----------------------------------------------------------------------------
(* DeviceOutEndpoint::ReceivePacket                                           *)
ReceivePacket(length) ==
    /\ ThreadRuns /\ "out" \in active /\ out.pc = "out" /\ Len(host.sent) < MaxPackets
    /\ out' = IF out.epena THEN [out EXCEPT !.pc = "failed"]
              ELSE [out EXCEPT !.pc = "receive", !.buffer = length, !.complete = FALSE, !.disabled = FALSE]
    /\ UNCHANGED <<in, fifo, rx, host, active, config>>

Receive ==
    /\ ThreadRuns /\ out.pc = "receive"
    /\ out' = [out EXCEPT !.pc = "wait", !.epena = TRUE]
    /\ UNCHANGED <<in, fifo, rx, host, active, config>>

\* Mutant: the endpoint is left enabled.
EpdisNot(epena) == FALSE
Epdis(epena) == epena

ReceiveTimeout ==
    /\ ThreadRuns /\ out.pc = "wait" /\ ~out.complete
    /\ out' = [out EXCEPT !.pc = "reset"]
    /\ UNCHANGED <<in, fifo, rx, host, active, config>>

ReceiveReset ==
    /\ ThreadRuns /\ out.pc = "reset"
    /\ out' = [out EXCEPT !.pc = "disable", !.epdis = Epdis(out.epena)]
    /\ UNCHANGED <<in, fifo, rx, host, active, config>>

ReceiveReturn ==
    /\ ThreadRuns
    /\ \/ out.pc = "wait" /\ out.complete
       \/ out.pc = "disable" /\ out.disabled
    /\ out' = [out EXCEPT !.pc = "out"]
    /\ host' = IF out.complete /\ "reset" \notin host.faults
               THEN [host EXCEPT !.returned = Append(@, out.buffer)] ELSE host
    /\ UNCHANGED <<in, fifo, rx, active, config>>

----------------------------------------------------------------------------
(* The core and the host                                                      *)
HostIn ==
    /\ "in" \in active /\ in.epena /\ ~in.epdis
    /\ LET size == Smaller(PacketWords, in.left) IN
       /\ Len(fifo) >= size
       /\ fifo' = SubSeq(fifo, size + 1, Len(fifo))
       /\ host' = [host EXCEPT !.got = @ \o SubSeq(fifo, 1, size)]
       /\ in' = [in EXCEPT !.left = @ - size, !.epena = in.left > size, !.xfrc = in.left = size]
    /\ UNCHANGED <<out, rx, active, config>>

HostOut(size) ==
    /\ "out" \in active /\ out.epena /\ ~out.epdis /\ rx = <<>>
    /\ rx' = <<size, -1>>
    /\ host' = [host EXCEPT !.sent = Append(@, Smaller(size, out.buffer))]
    /\ UNCHANGED <<in, fifo, out, active, config>>

InDisabled ==
    /\ in.epdis
    /\ in' = [in EXCEPT !.epdis = FALSE, !.epena = FALSE, !.epdisd = TRUE]
    /\ UNCHANGED <<fifo, out, rx, host, active, config>>

OutDisabled ==
    /\ out.epdis
    /\ out' = [out EXCEPT !.epdis = FALSE, !.epena = FALSE, !.epdisd = TRUE]
    /\ UNCHANGED <<in, fifo, rx, host, active, config>>

\* Device::IRQHandler on USBRST: Reset() of both endpoints.  It takes one entry
\* from the receive FIFO before, which may be that of another endpoint.
BusReset ==
    /\ active # {} /\ ~Stopped
    /\ in' = [in EXCEPT !.complete = TRUE, !.disabled = TRUE, !.epdis = in.epena, !.xfrc = FALSE, !.epdisd = FALSE]
    /\ out' = [out EXCEPT !.complete = TRUE, !.disabled = TRUE, !.epdis = out.epena, !.xfrc = FALSE, !.epdisd = FALSE]
    /\ active' = {}
    /\ host' = [host EXCEPT !.faults = @ \cup {"reset"}]
    /\ UNCHANGED <<fifo, rx, config>>

\* ConfigureEndpoints, of a configuration that has the endpoints or of none.
Configure ==
    /\ ThreadRuns /\ in.pc = "out" /\ out.pc = "out" /\ ~in.epdis /\ ~out.epdis
    /\ active' \in {{}, config}
    /\ UNCHANGED <<in, fifo, out, rx, host, config>>

Thread == \/ Transmit \/ SendComplete \/ SendReset \/ SendDisabled
          \/ Receive \/ ReceiveReset \/ ReceiveReturn
Interrupts == HandleInterruptsIn \/ HandleInterruptsOut \/ PacketReceived
Timeouts == SendTimeout \/ ReceiveTimeout

Next == \/ Thread \/ Interrupts \/ Timeouts
        \/ \E words \in Sends : SendPacket(words)
        \/ \E length \in Buffers : ReceivePacket(length)
        \/ HostIn \/ (\E size \in Packets : HostOut(size))
        \/ InDisabled \/ OutDisabled \/ BusReset \/ Configure

Spec == Init /\ [][Next]_vars
\* Interrupts are served, the core disables an endpoint that it is told to
\* disable, and each of the tasks has its turn between the interrupts (strong
\* fairness: they interrupt it again and again); a timeout expires.
FairSpec == /\ Spec
            /\ WF_vars(Interrupts) /\ WF_vars(InDisabled) /\ WF_vars(OutDisabled)
            /\ SF_vars(Transmit \/ SendComplete \/ SendReset \/ SendDisabled) /\ SF_vars(SendTimeout)
            /\ SF_vars(Receive \/ ReceiveReset \/ ReceiveReturn) /\ SF_vars(ReceiveTimeout)

----------------------------------------------------------------------------
(* The variables have their types; the FIFO holds no more than it can.        *)
TypeOK ==
    /\ in.pc \in {"out", "transmit", "wait", "reset", "disable", "failed"}
    /\ out.pc \in {"out", "receive", "wait", "reset", "disable", "failed"}
    /\ in.txWords \in 0..MaxWords /\ in.txPtr \in 0..MaxWords /\ in.left \in 0..MaxWords
    /\ Len(fifo) <= FifoSize
    /\ host.faults \subseteq {"timeout", "reset"}

(* IN: no word goes out twice or before an earlier one, not even after a
   timeout or a bus reset, and without those all words are with the host and
   reported when SendPacket returns.  OUT: ReceivePacket reports every packet
   once, with the length that was put into its buffer, also when calls before
   it timed out; all of its words are taken from the FIFO that the endpoints
   share.                                                                     *)
PacketsExact ==
    /\ \A j, k \in 1..Len(host.got) : j < k => host.got[j] < host.got[k]
    /\ in.pc = "out" /\ host.faults = {} => host.got = [k \in 1..host.given |-> k] /\ host.reported = host.given
    /\ out.pc = "out" /\ "reset" \notin host.faults => host.returned = host.sent
    /\ host.skew = 0

(* Outside the calls the interrupt handlers touch no buffer of the caller, and
   the assertions that rely on it hold.  IN (DeviceEndpoints.cpp:46): a call
   that completes without a fault, and one that gives up, leaves nothing to
   send; a bus reset may leave words of the call that it ends, and words of a
   call that gave up, left in the FIFO, may complete the next one.  OUT
   (:132, :150): a call leaves the endpoint disabled, and a packet that is read
   behind a bus reset finds the assertion before the buffer.                  *)
CallOwnsBuffer ==
    /\ in.pc = "failed" => host.faults # {}
    /\ out.pc = "failed" => "reset" \in host.faults
    /\ in.pc = "out" /\ "reset" \notin host.faults /\ (in.disabled \/ host.faults = {}) => in.txWords = 0 /\ ~in.epena
    /\ out.pc = "out" => /\ out.epena \/ rx # <<>> => "reset" \in host.faults
                         /\ rx # <<>> => out.complete

\* The transfer ended by itself between the timeout and the reset of the
\* endpoint: there was nothing to disable, and EPDISD never comes.
Stranded(e) == e.pc = "disable" /\ e.complete /\ ~e.disabled /\ ~e.epdis /\ ~e.epdisd

(* SendPacket and ReceivePacket with a timeout return, whatever the host does,
   unless an assertion stops the device or the transfer that timed out ends
   before it is reset.                                                        *)
CallsReturn == /\ in.pc # "out" ~> in.pc = "out" \/ Stopped \/ Stranded(in)
               /\ out.pc # "out" ~> out.pc = "out" \/ Stopped \/ Stranded(out)

(* DeviceEndpoints.cpp:68, 141: they return, or an assertion stops the device.
   The code breaks this where Stranded says.                                  *)
CallsAlwaysReturn == /\ in.pc # "out" ~> in.pc = "out" \/ Stopped
                     /\ out.pc # "out" ~> out.pc = "out" \/ Stopped

(* DeviceEndpoints.cpp:46: nothing is left to send when SendPacket is called.
   The code breaks this behind a bus reset (:15-22 leaves txWords).           *)
NothingLeftToSend == in.pc # "failed"

(* DeviceEndpoints.cpp:150: no packet is read but for a call that waits.  The
   code breaks this behind a bus reset.                                       *)
PacketIsAwaited == out.pc # "failed"
=============================================================================
