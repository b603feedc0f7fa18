--------------------------- MODULE USARTInterrupt ---------------------------
(***************************************************************************)
(* Interrupt-driven USART transfers (stm32l/io/USARTInterrupt).  For each  *)
(* direction there are two slots: the buffer being transferred, p to e,    *)
(* and the one to go on with, p2 to e2.  Three actors:                     *)
(*                                                                         *)
(*  - the thread: AddBuffer, Reset and Wait, one call at a time; what it   *)
(*    does with the interrupt masked is split where a handler that was not *)
(*    masked could get in between;                                         *)
(*  - Handler, which has the highest priority and is one step;             *)
(*  - the USART, which empties TDR and fills RDR at its own pace.          *)
(*                                                                         *)
(* The transmitter and the receiver strategies call nothing else.  The     *)
(* transmitted and received values do not matter here, only where they are *)
(* read from and stored to.                                                *)
(***************************************************************************)
EXTENDS Naturals, Sequences

CONSTANTS
  Spans,             \* the buffers callers offer: records [start, len]
  MaxLength,         \* the length of the longest of them
  MaxAccepted,       \* bound: nothing is offered once this many bytes were taken on
  OverrunDetection,  \* CR3.OVRDIS is clear, as it is after reset
  Latency            \* may the thread go on for a while when an interrupt is due?

NULL == 0
Span == [start : Nat \ {NULL}, len : 0..MaxLength]
Directions == {"tx", "rx"}

ASSUME USARTAssumption ==
  /\ Spans \subseteq Span
  /\ MaxLength \in Nat /\ MaxAccepted \in Nat
  /\ OverrunDetection \in BOOLEAN /\ Latency \in BOOLEAN

VARIABLES
  CR1,       \* the interrupts enabled: a subset of {"TXEIE", "RXNEIE"}
  txe,       \* ISR.TXE: TDR can be written
  rxne, ore, \* ISR.RXNE: RDR holds a byte; ISR.ORE: a byte was lost for that
  masked,    \* the interrupt is disabled in the interrupt controller
  buf,       \* the two Buf members, tx and rx
  pc,        \* next step of the thread
  dir, arg,  \* direction of the call, and the buffer AddBuffer was given
  current,   \* the pointer Wait was given
  accepted,  \* history: per direction, the bytes AddBuffer took on
  touched    \* history: per direction, the bytes sent or stored

usart  == <<CR1, txe, rxne, ore>>
call   == <<dir, arg, current>>
stream == <<accepted, touched>>
vars   == <<usart, masked, buf, pc, call, stream>>

Starts == {s.start : s \in Spans}

Tx == INSTANCE BufferStream
        WITH Limit <- MaxLength, accepted <- accepted.tx, touched <- touched.tx
Rx == INSTANCE BufferStream
        WITH Limit <- MaxLength, accepted <- accepted.rx, touched <- touched.rx

NoSpan   == [start |-> 1, len |-> 0]
EmptyBuf == [p |-> NULL, e |-> NULL, p2 |-> NULL, e2 |-> NULL]

\* As Get leaves it: no interrupt enabled, neither in the USART nor, before the
\* first call of AddBuffer, in the interrupt controller.
Init ==
  /\ CR1 = {} /\ txe = TRUE /\ rxne = FALSE /\ ore = FALSE /\ masked = TRUE
  /\ buf = [tx |-> EmptyBuf, rx |-> EmptyBuf]
  /\ pc = "idle" /\ dir = "tx" /\ arg = NoSpan /\ current = NULL
  /\ accepted = [tx |-> <<>>, rx |-> <<>>] /\ touched = [tx |-> <<>>, rx |-> <<>>]
-----------------------------------------------------------------------------
(* The USART.                                                              *)

\* TDR moves on to the shift register.
Shift ==
  /\ ~txe /\ txe' = TRUE
  /\ UNCHANGED <<CR1, rxne, ore, masked, buf, pc, call, stream>>

\* A byte arrives; if the previous one is still in RDR, one of the two is lost,
\* and with overrun detection this is flagged.
Receive ==
  /\ rxne' = TRUE
  /\ ore' = (ore \/ (rxne /\ OverrunDetection))
  /\ UNCHANGED <<CR1, txe, masked, buf, pc, call, stream>>

\* RXNEIE enables the interrupt for both receiver flags.
Interrupt == \/ "TXEIE" \in CR1 /\ txe
             \/ "RXNEIE" \in CR1 /\ (rxne \/ ore)

ThreadRuns == masked \/ ~Interrupt \/ Latency
-----------------------------------------------------------------------------
(* Handler.                                                                *)

\* A byte of the first slot is done: go on with the next, or the second slot.
Advance(b) ==
  IF b.p + 1 = b.e /\ b.p2 # NULL
    THEN [p |-> b.p2, e |-> b.e2, p2 |-> NULL, e2 |-> NULL]
    ELSE [b EXCEPT !.p = b.p + 1]

\* One byte is moved between buffer d and its data register.
Move(d) ==
  /\ buf' = [buf EXCEPT ![d] = Advance(buf[d])]
  /\ touched' = [touched EXCEPT ![d] = Append(touched[d], buf[d].p)]

\* Mutant: bytes are stored past the end.
ReadDataUnchecked ==
  /\ rxne /\ rxne' = FALSE
  /\ Move("rx")
  /\ UNCHANGED <<CR1, txe>>

\* Write: the byte is dropped if there is no room.
ReadData ==
  /\ rxne /\ rxne' = FALSE
  /\ \/ buf.rx.p = buf.rx.e /\ UNCHANGED <<buf, touched>>
     \/ buf.rx.p # buf.rx.e /\ Move("rx")
  /\ UNCHANGED <<CR1, txe>>

\* Mutant: the interrupt stays enabled when there is nothing to send.
WriteDataEndless ==
  /\ ~rxne /\ txe
  /\ \/ buf.tx.p = buf.tx.e /\ UNCHANGED <<txe, buf, touched>>
     \/ buf.tx.p # buf.tx.e /\ Move("tx") /\ txe' = FALSE
  /\ UNCHANGED <<CR1, rxne>>

\* The transmitter's turn: the next byte, or no more interrupts.
WriteData ==
  /\ ~rxne /\ txe
  /\ \/ buf.tx.p = buf.tx.e /\ CR1' = CR1 \ {"TXEIE"} /\ UNCHANGED <<txe, buf, touched>>
     \/ buf.tx.p # buf.tx.e /\ Move("tx") /\ txe' = FALSE /\ UNCHANGED CR1
  /\ UNCHANGED rxne

\* Neither flag is set: nothing is done about the overrun that brought us here.
NoData == ~rxne /\ ~txe /\ UNCHANGED <<CR1, txe, rxne, buf, touched>>

Handle(what) ==
  /\ Interrupt /\ ~masked
  /\ what
  /\ UNCHANGED <<ore, masked, pc, call, accepted>>
-----------------------------------------------------------------------------
Goto(from, to) == ThreadRuns /\ pc = from /\ pc' = to

(* AddBuffer, and the first and last step of Reset.                        *)

CallAddBuffer ==
  /\ Goto("idle", "mask")
  /\ dir' \in Directions
  /\ Len(accepted.tx) + Len(accepted.rx) < MaxAccepted
  /\ arg' \in Spans
  /\ UNCHANGED <<usart, masked, buf, current, stream>>

CallReset ==
  /\ Goto("idle", "maskreset")
  /\ dir' \in Directions
  /\ UNCHANGED <<usart, masked, buf, arg, current, stream>>

\* Mutant: the interrupt stays as it is.
MaskForgotten ==
  /\ Goto("mask", "test") \/ Goto("maskreset", "reset")
  /\ UNCHANGED <<usart, masked, buf, call, stream>>

Mask ==
  /\ Goto("mask", "test") \/ Goto("maskreset", "reset")
  /\ masked' = TRUE
  /\ UNCHANGED <<usart, buf, call, stream>>

Test ==
  LET b == buf[dir] IN
  /\ \/ b.p = b.e                                              /\ Goto("test", "first")
     \/ b.p # b.e /\ b.p2 = NULL                               /\ Goto("test", "second")
     \/ b.p # b.e /\ b.p2 # NULL /\ b.e2 = arg.start           /\ Goto("test", "extend")
     \/ b.p # b.e /\ b.p2 # NULL /\ b.e2 # arg.start           /\ Goto("test", "unmask")
  /\ UNCHANGED <<usart, masked, buf, call, stream>>

\* The buffer as changed by the branch that was taken.
Added(b, where) ==
  LET end == arg.start + arg.len IN
  CASE where = "first"  -> [b EXCEPT !.p = arg.start, !.e = end]
    [] where = "second" -> [b EXCEPT !.p2 = arg.start, !.e2 = end]
    [] where = "extend" -> [b EXCEPT !.e2 = end]

Store ==
  /\ \E where \in {"first", "second", "extend"} :
       /\ Goto(where, "enable")
       /\ buf' = [buf EXCEPT ![dir] = Added(buf[dir], where)]
  /\ accepted' = [accepted EXCEPT ![dir] = accepted[dir] \o Tx!Bytes(arg.start, arg.len)]
  /\ UNCHANGED <<usart, masked, call, touched>>

\* Mutant: the transmitter's interrupt is not enabled.
EnableForgotten ==
  /\ Goto("enable", "unmask")
  /\ CR1' = CR1 \cup (IF dir = "tx" THEN {} ELSE {"RXNEIE"})
  /\ UNCHANGED <<txe, rxne, ore, masked, buf, call, stream>>

Enable ==
  /\ Goto("enable", "unmask")
  /\ CR1' = CR1 \cup {IF dir = "tx" THEN "TXEIE" ELSE "RXNEIE"}
  /\ UNCHANGED <<txe, rxne, ore, masked, buf, call, stream>>

\* Mutant: the buffer is kept.
ResetForgotten ==
  /\ Goto("reset", "unmask")
  /\ accepted' = [accepted EXCEPT ![dir] = touched[dir]]
  /\ UNCHANGED <<usart, masked, buf, call, touched>>

Reset ==
  /\ Goto("reset", "unmask")
  /\ buf' = [buf EXCEPT ![dir] = EmptyBuf]
  /\ accepted' = [accepted EXCEPT ![dir] = touched[dir]]
  /\ UNCHANGED <<usart, masked, call, touched>>

Unmask ==
  /\ Goto("unmask", "idle")
  /\ masked' = FALSE
  /\ UNCHANGED <<usart, buf, call, stream>>

(* Wait: poll the pointer until it is not the one the caller read before.  *)

CallWait ==
  /\ Goto("idle", "wait")
  /\ dir' \in Directions
  /\ current' = buf[dir'].p
  /\ UNCHANGED <<usart, masked, buf, arg, stream>>

WaitDone ==
  /\ Goto("wait", "idle")
  /\ buf[dir].p # current
  /\ UNCHANGED <<usart, masked, buf, call, stream>>

WaitTimeout ==
  /\ Goto("wait", "idle")
  /\ UNCHANGED <<usart, masked, buf, call, stream>>
-----------------------------------------------------------------------------
Continue == Mask \/ Test \/ Store \/ Enable \/ Reset \/ Unmask

Next ==
  \/ Shift \/ Receive
  \/ Handle(ReadData) \/ Handle(WriteData) \/ Handle(NoData)
  \/ CallAddBuffer \/ CallReset \/ CallWait
  \/ Continue \/ WaitDone \/ WaitTimeout

Spec == Init /\ [][Next]_vars

\* The USART sends what it is given.  A character takes longer than a run of the
\* handler, so that neither the transmitter's branch nor the thread is shut out
\* by bytes that keep arriving: each gets its turn if there is a gap for it.
FairSpec ==
  /\ Spec
  /\ WF_vars(Shift)
  /\ SF_vars(Handle(ReadData)) /\ SF_vars(Handle(WriteData))
  /\ SF_vars(Continue) /\ SF_vars(WaitDone)
-----------------------------------------------------------------------------
BufType == [p : Nat, e : Nat, p2 : Nat, e2 : Nat]

\* The pointers never pass the end of their buffer.
TypeOK ==
  /\ CR1 \subseteq {"TXEIE", "RXNEIE"}
  /\ txe \in BOOLEAN /\ rxne \in BOOLEAN /\ ore \in BOOLEAN /\ masked \in BOOLEAN
  /\ buf \in [Directions -> BufType]
  /\ \A d \in Directions : buf[d].p <= buf[d].e /\ buf[d].p2 <= buf[d].e2
  /\ pc \in {"idle", "mask", "test", "first", "second", "extend", "enable", "unmask",
             "maskreset", "reset", "wait"}
  /\ dir \in Directions /\ arg \in Span /\ current \in Nat
  /\ accepted \in [Directions -> Seq(Nat)] /\ touched \in [Directions -> Seq(Nat)]

\* The first slot is used up only when everything accepted is done: so the handler
\* drops a received byte, or stops the transmitter, only when nothing is left.
UsedUpMeansDone ==
  \A d \in Directions : buf[d].p = buf[d].e <=> accepted[d] = touched[d]

\* Whenever AddBuffer is not at work, a transmitter with something to send has its
\* interrupt enabled: it cannot fall asleep.
TransmitterAwake == ~masked /\ buf.tx.p # buf.tx.e => "TXEIE" \in CR1

\* Bytes leave, and are stored, in the order in which buffers were added, and
\* what is added is sent in the end.
RefinesTx == Tx!Spec
RefinesRx == Rx!Spec
RefinesFairTx == Tx!FairSpec

\* A call that only touches registers and memory comes back, as long as no overrun
\* is flagged: there are gaps for the thread between the interrupts of both
\* directions.
CallsReturnUntilOverrun ==
  (pc \notin {"idle", "wait"}) ~> (pc \in {"idle", "wait"} \/ ore)

\* ... also behind an overrun.
CallsReturn == (pc \notin {"idle", "wait"}) ~> (pc \in {"idle", "wait"})

\* The transmitter's Wait, called while there is something to send, comes back.
WaitReturns == (pc = "wait" /\ dir = "tx" /\ buf.tx.p # buf.tx.e) ~> (pc # "wait")
=============================================================================
