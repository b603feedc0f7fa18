--------------------- MODULE DMAReceiverCircularProofs ---------------------
(* The circular receiver for a ring, a caller's buffer and a backlog of any  *)
(* size.                                                                     *)
EXTENDS DMAReceiverCircular, SequenceTheorems, TLAPS

Reading == {"tail", "copytail", "head", "copyhead"}

\* Where the next byte to hand over is: the local r is ahead of the member.
Pos == IF pc \in Reading THEN Wrap(lr) ELSE r

\* How many bytes lie between offsets a and b, going around the end.
Dist(a, b) == IF a <= b THEN b - a ELSE (N - a) + b

At(a) == IF a < N THEN a ELSE a - N

Backlog == received - Len(out)

\* The ring holds exactly the bytes received and not handed over, in order.
RingInv ==
  /\ Backlog \in 0..MaxBacklog
  /\ Backlog = Dist(Pos, WriteOffset)
  /\ \A i \in 0..(Backlog - 1) : mem[At(Pos + i)] = Len(out) + 1 + i

\* What GetWritePointer is about to copy lies within what was there when it
\* read the counter, and that is still there.
CopyInv ==
  /\ pc \in Reading => Dist(lr, lw) <= Backlog
  /\ pc \in {"tail", "head", "copyhead"} => lr < N
  /\ pc \in {"copytail", "copyhead"} => left <= room
  /\ pc = "copytail" /\ left > 0 => lw < lr /\ lr + left <= N
  /\ pc = "copyhead" /\ left > 0 => lr + left <= lw

IInv == TypeOK /\ RingInv /\ CopyInv
-----------------------------------------------------------------------------
LEMMA InitInv == Init => IInv
  <1> SUFFICES ASSUME Init PROVE IInv
    OBVIOUS
  <1> USE CircularAssumption DEF Init
  <1>1. TypeOK
    BY DEF TypeOK
  <1>2. Backlog = 0 /\ Pos = 0 /\ WriteOffset = 0
    <2>1. received = 0 /\ Len(out) = 0 /\ pc = "idle" /\ r = 0 /\ CNDTR = N
      OBVIOUS
    <2> HIDE DEF Init
    <2> QED
      BY <2>1 DEF Backlog, Pos, Reading, WriteOffset
  <1>3. RingInv
    BY <1>2 DEF RingInv, Dist
  <1>4. CopyInv
    BY DEF CopyInv, Reading
  <1> QED
    BY <1>1, <1>3, <1>4 DEF IInv

\* The byte stored is the last of the backlog, and no other is overwritten: the
\* ring never fills.
LEMMA ReceiveInv == IInv /\ Receive => IInv'
  <1> SUFFICES ASSUME IInv, Receive PROVE IInv'
    OBVIOUS
  <1> USE CircularAssumption
  <1>1. /\ N \in Nat /\ N > 0 /\ CNDTR \in 1..N /\ received \in Nat /\ Len(out) \in Nat
        /\ WriteOffset = N - CNDTR /\ mem \in [0..(N - 1) -> Nat]
    BY DEF IInv, TypeOK, WriteOffset
  <1>2. TypeOK'
    BY DEF IInv, TypeOK, Receive, WriteOffset, locals
  <1>3. Pos \in 0..(N - 1) /\ Pos' = Pos
    BY DEF IInv, TypeOK, Receive, locals, Pos, Reading, Wrap
  <1>4. Backlog' = Backlog + 1 /\ Backlog' \in 0..MaxBacklog /\ Backlog \in 0..(N - 2)
    <2>1. Backlog \in Nat /\ Backlog < MaxBacklog
      BY DEF IInv, RingInv, Receive, Backlog
    <2>2. Backlog' = Backlog + 1
      BY <1>1 DEF Receive, Backlog
    <2> QED
      BY <2>1, <2>2
  <1>5. Backlog' = Dist(Pos', WriteOffset')
    <2>1. Backlog = Dist(Pos, N - CNDTR)
      BY DEF IInv, RingInv, WriteOffset
    <2>2. CNDTR' = IF CNDTR = 1 THEN N ELSE CNDTR - 1
      BY DEF Receive
    <2> QED
      BY <1>1, <1>3, <1>4, <2>1, <2>2 DEF Dist, WriteOffset
  <1>6. ASSUME NEW i \in 0..(Backlog' - 1)
        PROVE  mem'[At(Pos + i)] = Len(out) + 1 + i
    <2>1. WriteOffset \in 0..(N - 1) /\ At(Pos + i) \in 0..(N - 1)
      BY <1>1, <1>3, <1>4 DEF At
    <2>2. mem'[WriteOffset] = received + 1
      BY <1>1, <2>1 DEF Receive
    <2>3. CASE i = Backlog
      <3>1. At(Pos + i) = WriteOffset
        BY <1>1, <1>3, <1>4, <2>3 DEF IInv, RingInv, Dist, At
      <3> QED
        BY <1>1, <2>2, <2>3, <3>1 DEF Backlog
    <2>4. CASE i < Backlog
      <3>1. At(Pos + i) # WriteOffset
        BY <1>1, <1>3, <1>4, <2>4 DEF IInv, RingInv, Dist, At
      <3>2. mem'[At(Pos + i)] = mem[At(Pos + i)]
        BY <1>1, <2>1, <3>1 DEF Receive
      <3>3. i \in 0..(Backlog - 1)
        BY <1>4, <2>4
      <3> QED
        BY <3>2, <3>3 DEF IInv, RingInv
    <2> QED
      BY <1>4, <2>3, <2>4
  <1>7. RingInv'
    BY <1>3, <1>4, <1>5, <1>6 DEF RingInv, Receive, At
  <1>8. CopyInv'
    BY <1>1, <1>4 DEF IInv, TypeOK, CopyInv, Receive, locals, Dist, Reading
  <1> QED
    BY <1>2, <1>7, <1>8 DEF IInv
-----------------------------------------------------------------------------
\* A step that keeps the ring and the position keeps what the ring holds.
LEMMA SamePosition ==
  ASSUME IInv, UNCHANGED <<CNDTR, mem, received, out>>, Pos' = Pos
  PROVE  RingInv' /\ Backlog' = Backlog
  BY DEF IInv, RingInv, Backlog, WriteOffset, At, Dist

LEMMA WaitInv == IInv /\ (CallWait \/ WaitDone \/ WaitTimeout) => IInv'
  <1> SUFFICES ASSUME IInv, CallWait \/ WaitDone \/ WaitTimeout PROVE IInv'
    OBVIOUS
  <1> USE DEF CallWait, WaitDone, WaitTimeout, Goto, locals
  <1>1. TypeOK'
    BY DEF IInv, TypeOK
  <1>2. UNCHANGED <<CNDTR, mem, received, out>> /\ Pos' = Pos
    BY DEF Pos, Reading, Wrap
  <1>3. CopyInv'
    BY DEF CopyInv, Reading
  <1> QED
    BY <1>1, <1>2, <1>3, SamePosition DEF IInv

LEMMA CallInv ==
  ASSUME NEW n \in 0..MaxRoom
  PROVE  IInv /\ CallGetWritePointer(n) => IInv'
  <1> SUFFICES ASSUME IInv, CallGetWritePointer(n) PROVE IInv'
    OBVIOUS
  <1> USE DEF CallGetWritePointer, Goto
  <1>1. TypeOK'
    BY CircularAssumption DEF IInv, TypeOK
  <1>2. UNCHANGED <<CNDTR, mem, received, out>> /\ Pos' = Pos
    BY DEF Pos, Reading, Wrap
  <1>3. CopyInv'
    BY DEF CopyInv, Reading
  <1> QED
    BY <1>1, <1>2, <1>3, SamePosition DEF IInv

LEMMA SampleInv == IInv /\ Sample => IInv'
  <1> SUFFICES ASSUME IInv, Sample PROVE IInv'
    OBVIOUS
  <1> USE CircularAssumption
  <1>1. /\ N \in Nat /\ N > 0 /\ r \in 0..(N - 1) /\ WriteOffset \in 0..(N - 1)
    BY DEF IInv, TypeOK, WriteOffset
  <1>2. /\ pc = "sample" /\ pc' \in {"idle", "tail"} /\ lr' = r /\ lw' = WriteOffset
        /\ UNCHANGED <<CNDTR, mem, r, left, room, received, out>>
    BY DEF Sample, Goto
  <1>3. TypeOK'
    BY <1>1, <1>2 DEF IInv, TypeOK
  <1>4. Pos' = r /\ Pos = r
    BY <1>1, <1>2 DEF Pos, Reading, Wrap
  <1>5. RingInv' /\ Backlog' = Backlog
    BY <1>2, <1>4, SamePosition
  <1>6. Backlog = Dist(r, WriteOffset)
    BY <1>4 DEF IInv, RingInv
  <1>7. Dist(r, WriteOffset) \in Nat
    BY <1>1 DEF Dist
  <1>8. CopyInv'
    BY <1>1, <1>2, <1>5, <1>6, <1>7 DEF CopyInv, Reading, Dist
  <1> QED
    BY <1>3, <1>5, <1>8 DEF IInv

\* Both blocks stay short of w and of the end of the ring.
LEMMA StartCopyInv == IInv /\ (StartTail \/ CopyHead) => IInv'
  <1> SUFFICES ASSUME IInv, StartTail \/ CopyHead PROVE IInv'
    OBVIOUS
  <1> USE CircularAssumption DEF StartTail, CopyHead, Goto
  <1>1. /\ N \in Nat /\ lr \in 0..N /\ lr < N /\ lw \in 0..(N - 1) /\ room \in Nat
    BY DEF IInv, TypeOK, CopyInv
  <1>2. /\ TailBlock \in Nat /\ (TailBlock > 0 => lw < lr /\ lr + TailBlock <= N)
        /\ HeadBlock \in Nat /\ (HeadBlock > 0 => lr + HeadBlock <= lw)
        /\ TailBlock <= room /\ HeadBlock <= room
    BY <1>1 DEF TailBlock, HeadBlock, Smaller
  <1>3. TypeOK'
    BY <1>2 DEF IInv, TypeOK
  <1>4. UNCHANGED <<CNDTR, mem, received, out>> /\ Pos' = Pos
    BY DEF Pos, Reading, Wrap
  <1>5. RingInv' /\ Backlog' = Backlog
    BY <1>4, SamePosition
  <1>6. CopyInv'
    BY <1>1, <1>2, <1>5 DEF IInv, CopyInv, Reading, Dist
  <1> QED
    BY <1>3, <1>5, <1>6 DEF IInv

LEMMA StartHeadInv == IInv /\ StartHead => IInv'
  <1> SUFFICES ASSUME IInv, StartHead PROVE IInv'
    OBVIOUS
  <1> USE CircularAssumption DEF StartHead, Goto
  <1>1. N \in Nat /\ N > 0 /\ lr \in 0..N /\ lw \in 0..(N - 1)
    BY DEF IInv, TypeOK
  <1>2. TypeOK'
    BY <1>1 DEF IInv, TypeOK, Wrap
  <1>3. UNCHANGED <<CNDTR, mem, received, out>> /\ Pos' = Pos
    BY <1>1 DEF Pos, Reading, Wrap
  <1>4. RingInv' /\ Backlog' = Backlog
    BY <1>3, SamePosition
  <1>5. CopyInv'
    BY <1>1, <1>4 DEF IInv, CopyInv, Reading, Dist, Wrap
  <1> QED
    BY <1>2, <1>4, <1>5 DEF IInv

LEMMA CommitInv == IInv /\ Commit => IInv'
  <1> SUFFICES ASSUME IInv, Commit PROVE IInv'
    OBVIOUS
  <1> USE CircularAssumption DEF Commit, Goto, locals
  <1>1. N \in Nat /\ lr \in 0..N /\ lr < N
    BY DEF IInv, TypeOK, CopyInv
  <1>2. TypeOK'
    BY <1>1 DEF IInv, TypeOK
  <1>3. UNCHANGED <<CNDTR, mem, received, out>> /\ Pos' = Pos
    BY <1>1 DEF Pos, Reading, Wrap
  <1>4. CopyInv'
    BY DEF CopyInv, Reading
  <1> QED
    BY <1>2, <1>3, <1>4, SamePosition DEF IInv
-----------------------------------------------------------------------------
\* The byte copied is the oldest one that has not been handed over.
LEMMA CopyByteIsNext ==
  ASSUME IInv, CopyByte
  PROVE  /\ lr \in 0..(N - 1) /\ mem[lr] = Len(out) + 1
         /\ Backlog > 0 /\ out' = Append(out, Len(out) + 1)
<1> USE CircularAssumption DEF CopyByte
<1>1. /\ N \in Nat /\ lr \in 0..N /\ lw \in 0..(N - 1) /\ left \in Nat /\ left > 0
      /\ received \in Nat /\ Len(out) \in Nat
  BY DEF IInv, TypeOK
<1>2. lr < N /\ Dist(lr, lw) > 0
  BY <1>1 DEF IInv, CopyInv, Dist
<1>3. Backlog > 0 /\ Backlog \in Nat
  <2>1. Dist(lr, lw) <= Backlog
    BY DEF IInv, CopyInv, Reading
  <2>2. Backlog \in Nat /\ Dist(lr, lw) \in Nat
    BY <1>1 DEF IInv, RingInv, Dist
  <2> QED
    BY <1>2, <2>1, <2>2
<1>4. Pos = lr
  BY <1>1, <1>2 DEF Pos, Reading, Wrap
<1>5. mem[At(Pos + 0)] = Len(out) + 1 + 0
  BY <1>3 DEF IInv, RingInv
<1>6. mem[lr] = Len(out) + 1
  BY <1>1, <1>2, <1>4, <1>5 DEF At
<1> QED
  BY <1>1, <1>2, <1>3, <1>6

LEMMA CopyByteInv == IInv /\ CopyByte => IInv'
  <1> SUFFICES ASSUME IInv, CopyByte PROVE IInv'
    OBVIOUS
  <1> USE CircularAssumption
  <1>1. /\ N \in Nat /\ N > 0 /\ lr \in 0..(N - 1) /\ lw \in 0..(N - 1) /\ left \in Nat
        /\ left > 0 /\ received \in Nat /\ Len(out) \in Nat /\ room \in Nat
        /\ out \in Seq(Nat) /\ WriteOffset \in 0..(N - 1)
    BY CopyByteIsNext DEF IInv, TypeOK, CopyByte, WriteOffset
  <1>2. /\ out' = Append(out, Len(out) + 1) /\ out' \in Seq(Nat)
        /\ Len(out') = Len(out) + 1
    BY <1>1, CopyByteIsNext
  <1>3. /\ lr' = lr + 1 /\ left' = left - 1 /\ room' = room - 1
        /\ UNCHANGED <<CNDTR, mem, r, pc, lw, received>>
        /\ pc \in {"copytail", "copyhead"}
    BY DEF CopyByte
  <1>4. left <= room
    BY <1>3 DEF IInv, CopyInv
  <1>5. TypeOK'
    BY <1>1, <1>2, <1>3, <1>4 DEF IInv, TypeOK
  <1>6. /\ Pos = lr /\ Pos' \in 0..(N - 1)
        /\ Pos' = IF lr + 1 = N THEN 0 ELSE lr + 1
    <2>1. pc \in Reading /\ pc' \in Reading
      BY <1>3 DEF Reading
    <2>2. Pos = Wrap(lr) /\ Pos' = Wrap(lr + 1)
      BY <1>3, <2>1 DEF Pos, Wrap
    <2> QED
      BY <1>1, <2>2 DEF Wrap
  <1>7. /\ Backlog \in 0..MaxBacklog /\ Backlog > 0 /\ Backlog' = Backlog - 1
        /\ Backlog < N
    <2>1. Backlog \in 0..MaxBacklog /\ Backlog > 0
      BY CopyByteIsNext DEF IInv, RingInv
    <2>2. Backlog' = Backlog - 1
      BY <1>1, <1>2, <1>3 DEF Backlog
    <2> QED
      BY <2>1, <2>2
  <1>8. Backlog = Dist(lr, WriteOffset)
    BY <1>6 DEF IInv, RingInv
  <1>9. Backlog' = Dist(Pos', WriteOffset')
    <2>1. WriteOffset' = WriteOffset
      BY <1>3 DEF WriteOffset
    <2> QED
      BY <1>1, <1>6, <1>7, <1>8, <2>1 DEF Dist
  <1>10. ASSUME NEW i \in 0..(Backlog' - 1)
         PROVE  mem'[At(Pos' + i)] = Len(out') + 1 + i
    <2>1. i + 1 \in 0..(Backlog - 1)
      BY <1>7
    <2>2. mem[At(lr + (i + 1))] = Len(out) + 1 + (i + 1)
      BY <1>6, <2>1 DEF IInv, RingInv
    <2>3. At(Pos' + i) = At(lr + (i + 1))
      BY <1>1, <1>6, <1>7, <2>1 DEF At
    <2> QED
      BY <1>1, <1>2, <1>3, <2>1, <2>2, <2>3
  <1>11. RingInv'
    <2>1. Backlog' \in 0..MaxBacklog
      BY <1>7
    <2> QED
      BY <1>9, <1>10, <2>1 DEF RingInv, At
  <1>12. CopyInv'
    BY <1>1, <1>3, <1>4, <1>7 DEF IInv, CopyInv, Reading, Dist
  <1> QED
    BY <1>5, <1>11, <1>12 DEF IInv
-----------------------------------------------------------------------------
LEMMA NextInv == IInv /\ [Next]_vars => IInv'
<1> SUFFICES ASSUME IInv, [Next]_vars PROVE IInv'
  OBVIOUS
<1>1. CASE UNCHANGED vars
  <2>1. TypeOK' /\ CopyInv'
    BY <1>1 DEF IInv, TypeOK, CopyInv, Backlog, Dist, vars, locals
  <2>2. UNCHANGED <<CNDTR, mem, received, out>> /\ Pos' = Pos
    BY <1>1 DEF vars, locals, Pos, Reading, Wrap
  <2> QED
    BY <2>1, <2>2, SamePosition DEF IInv
<1> QED
  BY <1>1, ReceiveInv, CallInv, WaitInv, SampleInv, StartCopyInv, CopyByteInv,
     StartHeadInv, CommitInv
  DEF Next, Continue

\* The ring, the copy under way and the bytes handed over fit together.
THEOREM CircularInvariant == Spec => []IInv
  BY InitInv, NextInv, PTL DEF Spec

THEOREM CircularTypes == Spec => []TypeOK
<1>1. IInv => TypeOK
  BY DEF IInv
<1> QED
  BY <1>1, CircularInvariant, PTL

\* Between calls the ring is empty exactly when the positions are equal, so
\* neither Wait nor GetWritePointer overlooks a byte.
THEOREM EmptyMeansEmpty == Spec => []EmptyIsEmpty
<1>1. IInv => EmptyIsEmpty
  <2> SUFFICES ASSUME IInv, pc \in {"idle", "wait"}
               PROVE  CNDTR = N - r <=> received = Len(out)
    BY DEF EmptyIsEmpty
  <2>1. /\ N \in Nat /\ r \in 0..(N - 1) /\ CNDTR \in 1..N
        /\ received \in Nat /\ Len(out) \in Nat
    BY CircularAssumption DEF IInv, TypeOK
  <2>2. Backlog = Dist(r, N - CNDTR)
    BY DEF IInv, RingInv, Pos, Reading, WriteOffset
  <2> QED
    BY <2>1, <2>2 DEF Backlog, Dist
<1> QED
  BY <1>1, CircularInvariant, PTL

\* ASSERT(r < end) "cannot happen" in GetWritePointer indeed cannot.
THEOREM AssertHolds == Spec => []HeadInsideRing
<1>1. IInv => HeadInsideRing
  BY CircularAssumption DEF IInv, TypeOK, CopyInv, HeadInsideRing
<1> QED
  BY <1>1, CircularInvariant, PTL

\* memcpy stays inside the ring and the caller's buffer, and what it is about to
\* read are the oldest bytes received and not handed over.
THEOREM CopySafety == Spec => []CopyIsSafe
<1>1. IInv => CopyIsSafe
  <2> SUFFICES ASSUME IInv, pc \in {"copytail", "copyhead"},
                      NEW i \in 0..(left - 1)
               PROVE  lr + i < N /\ mem[lr + i] = Len(out) + 1 + i
    BY DEF IInv, CopyInv, CopyIsSafe
  <2>1. /\ N \in Nat /\ lr \in 0..N /\ lw \in 0..(N - 1) /\ left \in Nat /\ left > 0
        /\ received \in Nat /\ Len(out) \in Nat /\ i \in Nat /\ i < left
    BY CircularAssumption DEF IInv, TypeOK
  <2>2. lr + left <= N /\ left <= Dist(lr, lw)
    BY <2>1 DEF IInv, CopyInv, Dist
  <2>3. Dist(lr, lw) <= Backlog /\ Backlog \in Nat
    BY CircularAssumption DEF IInv, CopyInv, RingInv, Reading
  <2>4. i \in 0..(Backlog - 1)
    BY <2>1, <2>2, <2>3 DEF Dist
  <2>5. Pos = lr
    BY <2>1, <2>2 DEF Pos, Reading, Wrap
  <2>6. mem[At(lr + i)] = Len(out) + 1 + i
    BY <2>4, <2>5 DEF IInv, RingInv
  <2> QED
    BY <2>1, <2>2, <2>6 DEF At
<1> QED
  BY <1>1, CircularInvariant, PTL
-----------------------------------------------------------------------------
\* The bytes received so far, as a sequence.
Line == [i \in 1..received |-> i]

LEMMA LineFacts ==
  ASSUME received \in Nat
  PROVE  Line \in Seq(Nat) /\ Len(Line) = received /\ \A i \in 1..received : Line[i] = i
  BY DEF Line

\* A sequence that is another one and one more element.
LEMMA OneMore ==
  ASSUME NEW s \in Seq(Nat), NEW t \in Seq(Nat), NEW b \in Seq(Nat),
         Len(b) = 1, Len(t) = Len(s) + 1,
         \A i \in 1..Len(s) : t[i] = s[i], t[Len(s) + 1] = b[1]
  PROVE  t = s \o b
<1>1. /\ s \o b \in Seq(Nat) /\ Len(s \o b) = Len(s) + 1 /\ Len(s) \in Nat
      /\ \A i \in 1..(Len(s) + 1) : (s \o b)[i] = IF i <= Len(s) THEN s[i] ELSE b[i - Len(s)]
  <2>1. Len(s) \in Nat /\ s \o b \in Seq(Nat)
    OBVIOUS
  <2>2. Len(s \o b) = Len(s) + Len(b)
    BY ConcatProperties, Zenon
  <2>3. \A i \in 1..(Len(s) + Len(b)) : (s \o b)[i] = IF i <= Len(s) THEN s[i] ELSE b[i - Len(s)]
    BY ConcatProperties, Zenon
  <2> QED
    BY <2>1, <2>2, <2>3
<1>2. ASSUME NEW i \in 1..(Len(s) + 1) PROVE t[i] = (s \o b)[i]
  <2>0. i \in Nat /\ i >= 1 /\ i <= Len(s) + 1
    BY <1>1
  <2>1. CASE i <= Len(s)
    BY <1>1, <2>0, <2>1
  <2>2. CASE i = Len(s) + 1
    <3>1. ~(i <= Len(s)) /\ i - Len(s) = 1
      BY <1>1, <2>2
    <3>2. (s \o b)[i] = b[i - Len(s)]
      BY <1>1, <3>1
    <3> QED
      BY <2>2, <3>1, <3>2
  <2> QED
    BY <1>1, <2>0, <2>1, <2>2
<1> QED
  BY <1>1, <1>2, SeqEqual

\* Receiving hands a byte to the stream, copying one takes it out.
LEMMA StreamStep ==
  ASSUME IInv, [Next]_vars
  PROVE  [Stream!Next]_Stream!vars
<1>1. received \in Nat /\ out \in Seq(Nat) /\ Len(out) \in Nat
  BY DEF IInv, TypeOK
<1>2. CASE Receive
  <2>1. received' = received + 1 /\ received + 1 \in 1..MaxReceived /\ out' = out
    BY <1>1, <1>2, CircularAssumption DEF Receive
  <2>2. Line' = Line \o Stream!Bytes(received + 1, 1)
    <3> DEFINE b == Stream!Bytes(received + 1, 1)
    <3>1. b \in Seq(Nat) /\ Len(b) = 1 /\ b[1] = received + 1
      BY <1>1 DEF Stream!Bytes
    <3>2. /\ Line' \in Seq(Nat) /\ Len(Line') = received + 1
          /\ \A i \in 1..(received + 1) : Line'[i] = i
      BY <1>1, <2>1 DEF Line
    <3> HIDE DEF b
    <3>3. Line \in Seq(Nat) /\ Len(Line) = received /\ \A i \in 1..received : Line[i] = i
      BY <1>1, LineFacts
    <3>4. \A i \in 1..Len(Line) : Line'[i] = Line[i]
      BY <1>1, <3>2, <3>3
    <3>5. Len(Line') = Len(Line) + 1 /\ Line'[Len(Line) + 1] = b[1]
      BY <1>1, <3>1, <3>2, <3>3
    <3>6. Line' = Line \o b
      BY <3>1, <3>2, <3>3, <3>4, <3>5, OneMore
    <3> QED
      BY <3>6 DEF b
  <2>3. \E a \in 1..MaxReceived, n \in 1..1 : Line' = Line \o Stream!Bytes(a, n)
    BY <2>1, <2>2
  <2> QED
    BY <2>1, <2>3 DEF Stream!Next, Stream!Accept, Line
<1>3. CASE CopyByte
  <2>1. Len(out) < received /\ out' = Append(out, Len(out) + 1) /\ received' = received
    BY <1>1, <1>3, CopyByteIsNext DEF Backlog, CopyByte
  <2>2. Len(Line) = received /\ Line[Len(out) + 1] = Len(out) + 1 /\ Line' = Line
    BY <1>1, <2>1, LineFacts DEF Line
  <2> QED
    BY <2>1, <2>2 DEF Stream!Next, Stream!Touch, Line
<1>4. CASE UNCHANGED <<received, out>>
  BY <1>4 DEF Stream!vars
<1>5. CASE ~Receive /\ ~CopyByte
  <2>1. UNCHANGED <<received, out>>
    BY <1>5 DEF Next, Continue, vars, CallGetWritePointer, CallWait, WaitTimeout, Sample,
      StartTail, StartHead, CopyHead, Commit, WaitDone
  <2> QED
    BY <1>4, <2>1
<1> QED
  BY <1>2, <1>3, <1>5

\* The circular receiver implements BufferStream: as long as the caller keeps
\* up, it hands over every byte received, once and in order.
THEOREM CircularRefinesStream == Spec => RefinesStream
<1>1. Init => Stream!Init
  BY DEF Init, Stream!Init
<1>2. IInv /\ [Next]_vars => [Stream!Next]_Stream!vars
  BY StreamStep
<1> QED
  BY <1>1, <1>2, CircularInvariant, PTL DEF Spec, RefinesStream, Stream!Spec
=============================================================================
