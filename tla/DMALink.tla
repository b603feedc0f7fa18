------------------------------- MODULE DMALink -------------------------------
(***************************************************************************)
(* One DMA channel with buffer linking (stm32/hw/DMA.cpp), as DMAReceiver  *)
(* and DMATransmitter (stm32l/io) use it.  Three actors touch the channel: *)
(*                                                                         *)
(*  - the thread, which is cooperative, so one call at a time, but whose   *)
(*    register accesses are steps of their own;                            *)
(*  - LinkHandler, the transfer-complete interrupt, which runs at the      *)
(*    highest priority and is therefore one step;                          *)
(*  - the transfer engine of the chip, which moves a byte whenever the     *)
(*    peripheral asks for one, between any two steps of the software.      *)
(*                                                                         *)
(* The engine is assumed to keep its position while EN is cleared and set  *)
(* again (GetStatus relies on it), to leave EN set at the end of a         *)
(* transfer, and to do nothing while CNDTR is zero.  CCR |= and CCR &= are *)
(* one step: only EN can change between their read and their write, and    *)
(* that bit is the one they overwrite.  CPAR never changes and is left out.*)
(***************************************************************************)
EXTENDS Integers, Sequences

CONSTANTS
  Spans,        \* the buffers callers offer: records [start, len], len > 0
  MaxTransfer,  \* DMA_CNDTR_NDT, the largest count the CNDTR register holds
  MaxAccepted,  \* bound: no buffer is offered once this many bytes were linked
  Ops,          \* the calls the thread makes
  Latency       \* may the thread go on for a while when a transfer completes?

Span == [start : Nat, len : Nat \ {0}]
AllOps == {"TryLinkBuffer", "LinkPointer", "LinkPointerNot", "Unlink"}

ASSUME DMALinkAssumption ==
  /\ Spans \subseteq Span
  /\ MaxTransfer \in Nat \ {0}
  /\ MaxAccepted \in Nat
  /\ Ops \subseteq AllOps
  /\ Latency \in BOOLEAN

VARIABLES
  CCR,       \* the flags set in the channel's control register
  CMAR,      \* memory address register
  CNDTR,     \* bytes left in the transfer
  cur,       \* the engine's internal address: where the next byte goes
  tcif,      \* transfer complete flag
  pend,      \* the interrupt was pended by software
  masked,    \* the interrupt is disabled in the interrupt controller
  link,      \* DMAChannelLink: the transfer to start next
  pc, op,    \* next step and current (or last) call of the thread
  arg,       \* the buffer offered by the current TryLinkBuffer
  status,    \* locals of GetStatus
  ptr,       \* the last result of LinkPointer
  seen,      \* history: locations the engine stood at during GetStatus
  accepted,  \* history: the bytes linked, in order
  touched    \* history: the bytes moved, in order

hw      == <<CCR, CMAR, CNDTR, cur, tcif>>
irq     == <<pend, masked>>
thread  == <<pc, op, arg, status, ptr>>
stream  == <<accepted, touched>>
vars    == <<hw, irq, link, thread, seen, stream>>

Stream == INSTANCE BufferStream
            WITH Starts <- {s.start : s \in Spans}, Limit <- MaxTransfer

NoLink   == [CCR |-> {}, CMAR |-> 0, CNDTR |-> 0, CNDTR0 |-> 0]
NoStatus == [was |-> FALSE, buf |-> 0, cndtr |-> 0]
NoSpan   == [start |-> 0, len |-> 1]

Smaller(a, b) == IF a <= b THEN a ELSE b

IsEnabled == "EN" \in CCR

\* seen', when the engine moves to address a: nothing is recorded between calls.
Saw(a) == IF seen = {} THEN {} ELSE seen \cup {a}

\* The channel as the constructor of the strategy leaves it: configured,
\* without EN and TCIE, nothing linked.
Init ==
  /\ CCR = {"CFG"} /\ CMAR = 0 /\ CNDTR = 0 /\ cur = 0 /\ tcif = FALSE
  /\ pend = FALSE /\ masked = FALSE
  /\ link = NoLink
  /\ pc = "idle" /\ op = "none" /\ arg = NoSpan /\ status = NoStatus /\ ptr = 0
  /\ seen = {} /\ accepted = <<>> /\ touched = <<>>
-----------------------------------------------------------------------------
(* The chip.                                                               *)

\* The engine moves one byte; the last one raises the completion flag.
Transfer ==
  /\ IsEnabled /\ CNDTR > 0
  /\ cur' = cur + 1
  /\ CNDTR' = CNDTR - 1
  /\ tcif' = (tcif \/ CNDTR = 1)
  /\ touched' = Append(touched, cur)
  /\ seen' = Saw(cur + 1)
  /\ UNCHANGED <<CCR, CMAR, irq, link, thread, accepted>>

Interrupt == pend \/ (tcif /\ "TCIE" \in CCR)

\* An interrupt pended by software is taken before the next instruction of the
\* thread.  One raised by the channel takes a while to travel, if Latency.
ThreadRuns == masked \/ ~Interrupt \/ (Latency /\ ~pend)
-----------------------------------------------------------------------------
(* LinkHandler: start the linked transfer, or stop the channel.            *)

StartLinked ==
  /\ link.CCR # {}
  /\ CNDTR' = link.CNDTR
  /\ CMAR' = link.CMAR
  /\ cur' = link.CMAR
  /\ CCR' = link.CCR
  /\ link' = [CCR |-> {}, CMAR |-> link.CMAR, CNDTR |-> link.CNDTR, CNDTR0 |-> link.CNDTR]
  /\ seen' = Saw(link.CMAR)

StopChannel ==
  /\ link.CCR = {}
  /\ CCR' = CCR \ {"EN"}
  /\ UNCHANGED <<CMAR, CNDTR, cur, link, seen>>

LinkHandler ==
  /\ Interrupt /\ ~masked
  /\ pend' = FALSE
  /\ tcif' = FALSE
  /\ StartLinked \/ StopChannel
  /\ UNCHANGED <<masked, thread, stream>>
-----------------------------------------------------------------------------
Goto(from, to) == ThreadRuns /\ pc = from /\ pc' = to

Call(f, to) == /\ f \in Ops
               /\ Goto("idle", to)
               /\ op' = f

(* TryLinkBuffer.                                                          *)

CallTryLinkBuffer ==
  /\ Len(accepted) < MaxAccepted
  /\ Call("TryLinkBuffer", "mask")
  /\ arg' \in Spans
  /\ UNCHANGED <<hw, irq, link, status, ptr, seen, stream>>

MaskIrq ==
  /\ Goto("mask", "test")
  /\ masked' = TRUE
  /\ UNCHANGED <<hw, pend, link, op, arg, status, ptr, seen, stream>>

\* The buffer offered begins where the linked one ends.
Adjacent == link.CMAR + link.CNDTR = arg.start

\* Which branch is taken: fill the empty link, extend the link this buffer
\* follows, or accept nothing.
TestLink ==
  /\ \/ link.CCR = {} /\ Goto("test", "fill")
     \/ link.CCR # {} /\ Adjacent /\ Goto("test", "extend")
     \/ link.CCR # {} /\ ~Adjacent /\ Goto("test", "unmask")
  /\ UNCHANGED <<hw, irq, link, op, arg, status, ptr, seen, stream>>

\* Mutant: the linked transfer does not raise the interrupt.
LinkFlagsNoTCIE == CCR \cup {"EN"}

LinkFlags == CCR \cup {"TCIE", "EN"}

FillLink ==
  LET n == Smaller(arg.len, MaxTransfer) IN
  /\ Goto("fill", "unmask")
  /\ link' = [CCR |-> LinkFlags, CMAR |-> arg.start, CNDTR |-> n, CNDTR0 |-> link.CNDTR0]
  /\ accepted' = accepted \o Stream!Bytes(arg.start, n)
  /\ UNCHANGED <<hw, irq, op, arg, status, ptr, seen, touched>>

\* Mutant: the bytes already linked are not counted.
RoomWhole == MaxTransfer

\* By how much the linked transfer can still grow.
Room == MaxTransfer - link.CNDTR

ExtendLink ==
  LET n == Smaller(arg.len, Room) IN
  /\ Goto("extend", "unmask")
  /\ link' = [link EXCEPT !.CNDTR = link.CNDTR + n]
  /\ accepted' = accepted \o Stream!Bytes(arg.start, n)
  /\ UNCHANGED <<hw, irq, op, arg, status, ptr, seen, touched>>

UnmaskIrq ==
  /\ Goto("unmask", "check")
  /\ masked' = FALSE
  /\ UNCHANGED <<hw, pend, link, op, arg, status, ptr, seen, stream>>

\* Mutants: an idle channel is not started; a running one is interrupted.
CheckEnabledNever ==
  /\ Goto("check", "idle")
  /\ UNCHANGED <<hw, irq, link, op, arg, status, ptr, seen, stream>>

CheckEnabledAlways ==
  /\ Goto("check", "trigger")
  /\ UNCHANGED <<hw, irq, link, op, arg, status, ptr, seen, stream>>

CheckEnabled ==
  /\ \/ IsEnabled /\ Goto("check", "idle")
     \/ ~IsEnabled /\ Goto("check", "trigger")
  /\ UNCHANGED <<hw, irq, link, op, arg, status, ptr, seen, stream>>

Trigger ==
  /\ Goto("trigger", "idle")
  /\ pend' = TRUE
  /\ UNCHANGED <<hw, masked, link, op, arg, status, ptr, seen, stream>>
-----------------------------------------------------------------------------
(* GetStatus, with the tails of LinkPointer and LinkPointerNot.            *)

CallGetStatus ==
  /\ Call("LinkPointer", "was") \/ Call("LinkPointerNot", "was")
  /\ seen' = {cur}
  /\ UNCHANGED <<hw, irq, link, arg, status, ptr, stream>>

WasEnabled ==
  /\ Goto("was", "disable")
  /\ status' = [status EXCEPT !.was = IsEnabled]
  /\ UNCHANGED <<hw, irq, link, op, arg, ptr, seen, stream>>

\* Mutant: the channel keeps running while its registers are read.
DisableForStatusForgotten ==
  /\ Goto("disable", "cmar")
  /\ UNCHANGED <<hw, irq, link, op, arg, status, ptr, seen, stream>>

DisableForStatus ==
  /\ Goto("disable", "cmar")
  /\ CCR' = CCR \ {"EN"}
  /\ UNCHANGED <<CMAR, CNDTR, cur, tcif, irq, link, op, arg, status, ptr, seen, stream>>

ReadCMAR ==
  /\ Goto("cmar", "cndtr")
  /\ status' = [status EXCEPT !.buf = CMAR]
  /\ UNCHANGED <<hw, irq, link, op, arg, ptr, seen, stream>>

ReadCNDTR ==
  /\ Goto("cndtr", "cndtr0")
  /\ status' = [status EXCEPT !.cndtr = CNDTR]
  /\ UNCHANGED <<hw, irq, link, op, arg, ptr, seen, stream>>

ReadCNDTR0 ==
  /\ Goto("cndtr0", "restore")
  /\ status' = [status EXCEPT !.buf = status.buf + link.CNDTR0]
  /\ UNCHANGED <<hw, irq, link, op, arg, ptr, seen, stream>>

RestoreEnabled ==
  /\ Goto("restore", IF op = "LinkPointer" THEN "return" ELSE "compare")
  /\ CCR' = IF status.was THEN CCR \cup {"EN"} ELSE CCR
  /\ UNCHANGED <<CMAR, CNDTR, cur, tcif, irq, link, op, arg, status, ptr, seen, stream>>

Position == status.buf - status.cndtr

\* LinkPointer returns.
ReturnPointer ==
  /\ Goto("return", "idle")
  /\ ptr' = Position
  /\ seen' = {}
  /\ UNCHANGED <<hw, irq, link, op, arg, status, stream>>

\* LinkPointerNot(ptr) returns at once, waits for CNDTR to change, or yields
\* and starts over when there is nothing left to transfer.
ComparePointer ==
  /\ \/ Position # ptr /\ Goto("compare", "idle")
     \/ Position = ptr /\ status.cndtr # 0 /\ Goto("compare", "wait")
     \/ Position = ptr /\ status.cndtr = 0 /\ Goto("compare", "was")
  /\ seen' = IF pc' = "was" THEN {cur} ELSE {}
  /\ UNCHANGED <<hw, irq, link, op, arg, status, ptr, stream>>

\* The scheduler polls the register and finds another value.
WaitDone ==
  /\ Goto("wait", "idle")
  /\ CNDTR # status.cndtr
  /\ UNCHANGED <<hw, irq, link, op, arg, status, ptr, seen, stream>>

WaitTimeout ==
  /\ Goto("wait", "idle")
  /\ UNCHANGED <<hw, irq, link, op, arg, status, ptr, seen, stream>>
-----------------------------------------------------------------------------
(* Unlink.                                                                 *)

CallUnlink ==
  /\ Call("Unlink", "stop")
  /\ UNCHANGED <<hw, irq, link, arg, status, ptr, seen, stream>>

\* Mutant: the current transfer goes on.
UnlinkDisableForgotten ==
  /\ Goto("stop", "clear")
  /\ UNCHANGED <<hw, irq, link, op, arg, status, ptr, seen, stream>>

UnlinkDisable ==
  /\ Goto("stop", "clear")
  /\ CCR' = CCR \ {"EN"}
  /\ UNCHANGED <<CMAR, CNDTR, cur, tcif, irq, link, op, arg, status, ptr, seen, stream>>

\* Mutant: the linked buffer is kept.
UnlinkClearForgotten ==
  /\ Goto("clear", "idle")
  /\ accepted' = touched
  /\ UNCHANGED <<hw, irq, link, op, arg, status, ptr, seen, touched>>

UnlinkClear ==
  /\ Goto("clear", "idle")
  /\ link' = NoLink
  /\ accepted' = touched
  /\ UNCHANGED <<hw, irq, op, arg, status, ptr, seen, touched>>
-----------------------------------------------------------------------------
\* The steps of a call that is under way; waiting is for the scheduler to end.
Continue ==
  \/ MaskIrq \/ TestLink \/ FillLink \/ ExtendLink \/ UnmaskIrq
  \/ CheckEnabled \/ Trigger
  \/ WasEnabled \/ DisableForStatus \/ ReadCMAR \/ ReadCNDTR \/ ReadCNDTR0
  \/ RestoreEnabled \/ ReturnPointer \/ ComparePointer \/ WaitDone
  \/ UnlinkDisable \/ UnlinkClear

Next ==
  \/ Transfer \/ LinkHandler
  \/ CallTryLinkBuffer \/ CallGetStatus \/ CallUnlink
  \/ Continue \/ WaitTimeout

Spec == Init /\ [][Next]_vars

\* A call goes on, and an interrupt that is due again and again is taken, even
\* if calls keep masking it for a moment.  Nothing makes the peripheral ask for
\* another byte.
SoftwareFair == Spec /\ SF_vars(LinkHandler) /\ WF_vars(Continue)

\* The peripheral, too, keeps asking: a transmitter, or a line that is busy.
FairSpec == SoftwareFair /\ WF_vars(Transfer)
-----------------------------------------------------------------------------
Flags == {"CFG", "TCIE", "EN"}

RegisterTypes ==
  /\ CCR \subseteq Flags /\ CMAR \in Nat /\ CNDTR \in 0..MaxTransfer /\ cur \in Nat
  /\ link \in [CCR : SUBSET Flags, CMAR : Nat, CNDTR : 0..MaxTransfer, CNDTR0 : 0..MaxTransfer]

FlagTypes == tcif \in BOOLEAN /\ pend \in BOOLEAN /\ masked \in BOOLEAN

ThreadTypes ==
  /\ pc \in {"idle", "mask", "test", "fill", "extend", "unmask", "check", "trigger",
             "was", "disable", "cmar", "cndtr", "cndtr0", "restore", "return",
             "compare", "wait", "stop", "clear"}
  /\ op \in AllOps \cup {"none"}
  /\ arg \in Span
  /\ status \in [was : BOOLEAN, buf : Nat, cndtr : 0..MaxTransfer]
  /\ ptr \in Int

HistoryTypes == seen \subseteq Nat /\ accepted \in Seq(Nat) /\ touched \in Seq(Nat)

\* The registers hold what they can hold: in particular a linked buffer that
\* TryLinkBuffer extends never outgrows the 16-bit transfer counter.
TypeOK == RegisterTypes /\ FlagTypes /\ ThreadTypes /\ HistoryTypes

\* ASSERT(CNDTR == 0) in LinkHandler: whenever the interrupt can be taken, the
\* transfer it replaces is over.
CompletedAtHandler == Interrupt /\ ~masked => CNDTR = 0

\* The end address that GetStatus computes from CMAR and CNDTR0, less what is
\* left, is where the engine of a running channel stands.
StatusExact == IsEnabled => cur = CMAR + link.CNDTR0 - CNDTR

\* Bytes that TryLinkBuffer reported as linked are not forgotten: between calls
\* they are being moved, or an interrupt is due that starts moving them.
NotStranded ==
  pc = "idle" /\ Len(touched) < Len(accepted) => Interrupt \/ (IsEnabled /\ CNDTR > 0)

\* LinkPointer returns a location the engine stood at during the call, provided
\* a linked transfer has been started at all.
LinkPointerExact ==
  [][pc = "return" /\ pc' = "idle" /\ link.CNDTR0 # 0 => ptr' \in seen]_vars

\* Unlink stops the current transfer: after it nothing is moved until the next
\* buffer is linked.
UnlinkStops == [][Transfer => ~(op = "Unlink" /\ pc = "idle")]_vars

\* LinkPointerNot returns once the pointer has moved away from the address the
\* caller passed.
WaitSeesMove == (pc = "wait" /\ cur # ptr) ~> (pc # "wait")

\* The whole is a stream: bytes are moved in the order they were linked.
RefinesStream == Stream!Spec

\* ... and none is left behind.
RefinesFairStream == Stream!FairSpec
=============================================================================
