------------------------ MODULE DMAReceiverCircular ------------------------
(***************************************************************************)
(* The circular receiver strategy (stm32l/io/DMAReceiverCircular): a DMA   *)
(* channel in circular mode stores received bytes into a ring of N bytes   *)
(* without ever stopping, and GetWritePointer copies what has arrived into *)
(* the caller's buffer.  The channel keeps writing while the thread copies,*)
(* so the copy is one byte per step.                                       *)
(*                                                                         *)
(* Offsets into the ring stand for the pointers r, w and end; a byte is    *)
(* represented by its ordinal number on the line, so that loss, repetition *)
(* and reordering all show.  Nothing in the code holds the peripheral back *)
(* or notices that the ring has been overrun: the caller must keep up, and *)
(* MaxBacklog says how far behind it may fall.                             *)
(***************************************************************************)
EXTENDS Naturals, Sequences

CONSTANTS
  N,            \* size of the ring
  MaxBacklog,   \* how many bytes may wait in the ring: the caller keeps up
  MaxRoom,      \* the largest buffer the caller passes
  MaxReceived   \* bound: bytes that arrive on the line

\* One place of the ring stays free: a full ring looks like an empty one.
ASSUME CircularAssumption ==
  /\ N \in Nat \ {0} /\ MaxBacklog \in 0..(N - 1)
  /\ MaxRoom \in Nat /\ MaxReceived \in Nat

VARIABLES
  CNDTR,     \* transfer counter of the channel, reloaded with N at the end
  mem,       \* the ring
  r,         \* the member r: next offset to read
  pc,        \* next step of the thread
  lr, lw,    \* the locals r and w of GetWritePointer
  left,      \* bytes left in the running memcpy
  room,      \* bytes left in the caller's buffer
  received,  \* history: bytes received so far, numbered from 1
  out        \* history: bytes handed to the caller

locals == <<lr, lw, left, room>>
vars   == <<CNDTR, mem, r, pc, locals, received, out>>

\* Received bytes are handed over in order, each once.
Stream == INSTANCE BufferStream
            WITH Starts <- 1..MaxReceived, Limit <- 1,
                 accepted <- [i \in 1..received |-> i], touched <- out

Smaller(a, b) == IF a <= b THEN a ELSE b

Init ==
  /\ CNDTR = N /\ mem = [i \in 0..(N - 1) |-> 0] /\ r = 0
  /\ pc = "idle" /\ lr = 0 /\ lw = 0 /\ left = 0 /\ room = 0
  /\ received = 0 /\ out = <<>>

\* end - CNDTR: where the channel writes next.
WriteOffset == N - CNDTR

\* The channel stores a byte and moves on, around the end of the ring.
Receive ==
  /\ received < MaxReceived
  /\ received - Len(out) < MaxBacklog
  /\ mem' = [mem EXCEPT ![WriteOffset] = received + 1]
  /\ CNDTR' = IF CNDTR = 1 THEN N ELSE CNDTR - 1
  /\ received' = received + 1
  /\ UNCHANGED <<r, pc, locals, out>>
-----------------------------------------------------------------------------
(* GetWritePointer(buf).                                                   *)

Goto(from, to) == pc = from /\ pc' = to

CallGetWritePointer(n) ==
  /\ Goto("idle", "sample")
  /\ room' = n
  /\ UNCHANGED <<CNDTR, mem, r, lr, lw, left, received, out>>

\* The counter is read once; whatever arrives later is left for the next call.
Sample ==
  /\ lr' = r
  /\ lw' = WriteOffset
  /\ \/ (WriteOffset = r \/ room = 0) /\ Goto("sample", "idle")
     \/ WriteOffset # r /\ room # 0 /\ Goto("sample", "tail")
  /\ UNCHANGED <<CNDTR, mem, r, left, room, received, out>>

\* Mutant: a block measured from w.
TailBlockFromW == IF lw < lr THEN Smaller(N - lw, room) ELSE 0

\* How much to copy from lr to the end of the ring, if w is behind r.
TailBlock == IF lw < lr THEN Smaller(N - lr, room) ELSE 0

\* How much to copy from lr to w.
HeadBlock == IF lr < lw THEN Smaller(lw - lr, room) ELSE 0

StartTail ==
  /\ Goto("tail", "copytail")
  /\ left' = TailBlock
  /\ UNCHANGED <<CNDTR, mem, r, lr, lw, room, received, out>>

CopyByte ==
  /\ pc \in {"copytail", "copyhead"} /\ left > 0
  /\ out' = Append(out, mem[lr])
  /\ lr' = lr + 1
  /\ left' = left - 1
  /\ room' = room - 1
  /\ UNCHANGED <<CNDTR, mem, r, pc, lw, received>>

\* Mutant: the read position runs off the end of the ring.
WrapNever(a) == a

\* The read position goes back to CMAR, the start of the ring, at its end.
Wrap(a) == IF a = N THEN 0 ELSE a

StartHead ==
  /\ left = 0
  /\ Goto("copytail", "head")
  /\ lr' = Wrap(lr)
  /\ UNCHANGED <<CNDTR, mem, r, lw, left, room, received, out>>

CopyHead ==
  /\ Goto("head", "copyhead")
  /\ left' = HeadBlock
  /\ UNCHANGED <<CNDTR, mem, r, lr, lw, room, received, out>>

\* Mutant: the member r is not stored.
CommitForgotten ==
  /\ left = 0 /\ Goto("copyhead", "idle")
  /\ UNCHANGED <<CNDTR, mem, r, locals, received, out>>

Commit ==
  /\ left = 0
  /\ Goto("copyhead", "idle")
  /\ r' = lr
  /\ UNCHANGED <<CNDTR, mem, locals, received, out>>
-----------------------------------------------------------------------------
(* Wait: poll the counter until it differs from end - r.                   *)

CallWait ==
  /\ Goto("idle", "wait")
  /\ UNCHANGED <<CNDTR, mem, r, locals, received, out>>

WaitDone ==
  /\ CNDTR # N - r
  /\ Goto("wait", "idle")
  /\ UNCHANGED <<CNDTR, mem, r, locals, received, out>>

WaitTimeout ==
  /\ Goto("wait", "idle")
  /\ UNCHANGED <<CNDTR, mem, r, locals, received, out>>
-----------------------------------------------------------------------------
Continue == Sample \/ StartTail \/ CopyByte \/ StartHead \/ CopyHead \/ Commit \/ WaitDone

Next ==
  \/ Receive
  \/ \E n \in 0..MaxRoom : CallGetWritePointer(n)
  \/ CallWait \/ WaitTimeout
  \/ Continue

Spec == Init /\ [][Next]_vars

\* A call goes on, and the receiver's loop keeps coming back with room for at
\* least one byte, however often it waits in between.
FairSpec ==
  /\ Spec
  /\ WF_vars(Continue)
  /\ SF_vars(\E n \in 1..MaxRoom : CallGetWritePointer(n))
-----------------------------------------------------------------------------
TypeOK ==
  /\ CNDTR \in 1..N /\ mem \in [0..(N - 1) -> Nat] /\ r \in 0..(N - 1)
  /\ pc \in {"idle", "sample", "tail", "copytail", "head", "copyhead", "wait"}
  /\ lr \in 0..N /\ lw \in 0..(N - 1) /\ left \in Nat /\ room \in Nat
  /\ received \in Nat /\ out \in Seq(Nat)

\* Between calls, equal positions mean an empty ring: Wait sleeps only while
\* there is nothing to hand over, and GetWritePointer gives up only then.
EmptyIsEmpty == pc \in {"idle", "wait"} => (CNDTR = N - r <=> received = Len(out))

\* ASSERT(r < end): copying up to w never reaches the end of the ring.
HeadInsideRing == pc = "copyhead" => lr + left < N

\* memcpy stays within the caller's buffer and the ring, and reads only bytes
\* the channel has written and will not overwrite.
CopyIsSafe ==
  pc \in {"copytail", "copyhead"} =>
    /\ left <= room
    /\ \A i \in 0..(left - 1) : lr + i < N /\ mem[lr + i] = Len(out) + 1 + i

\* Received bytes are handed over in order, each once (RefinesStream), and in
\* the end all of them are (RefinesFairStream).
RefinesFairStream == Stream!FairSpec
RefinesStream == Stream!Spec
=============================================================================
