---------------------------- MODULE DMALinkProofs ----------------------------
(* DMALink for any buffers and any counter width: for any timing of the       *)
(* completion interrupt as long as nobody calls Unlink, and for all calls as   *)
(* long as the interrupt is not late.                                         *)
EXTENDS DMALink, TLAPS

\* Steps of GetStatus at which the channel may be disabled by it.
Disabling == {"cmar", "cndtr", "cndtr0", "restore"}

\* The bytes of the linked transfer, none when nothing is linked.
Linked == IF link.CCR = {} THEN 0 ELSE link.CNDTR

\* Only TryLinkBuffer masks the interrupt, only it offers buffers, and a
\* software interrupt is taken before the thread goes on.
ThreadInv ==
  /\ masked <=> pc \in {"test", "fill", "extend", "unmask"}
  /\ pc \notin {"stop", "clear"}
  /\ pc \in {"mask", "test", "fill", "extend"} => arg \in Spans
  /\ pc = "fill" => link.CCR = {}
  /\ pc = "extend" => link.CCR # {} /\ Adjacent
  /\ pend => pc = "idle"

\* A channel with bytes left is enabled, or GetStatus is about to enable it;
\* the completion flag and the software interrupt mean that none are left.  A
\* linked transfer will enable the channel.
ChannelInv ==
  /\ link.CCR # {} => "EN" \in link.CCR
  /\ tcif \/ pend => CNDTR = 0
  /\ ~IsEnabled /\ (CNDTR > 0 \/ tcif) => pc \in Disabling /\ status.was
  /\ pc \in {"disable"} \cup Disabling /\ ~status.was
       => ~IsEnabled /\ CNDTR = 0 /\ ~tcif
  /\ pc = "trigger" => ~IsEnabled /\ CNDTR = 0 /\ ~tcif

\* The address that GetStatus computes is the engine's, running or not.
AddressInv == cur = CMAR + link.CNDTR0 - CNDTR

\* What is accepted but not moved is the rest of the current transfer, followed
\* by the linked one.
StreamInv ==
  /\ Len(accepted) = Len(touched) + CNDTR + Linked
  /\ \A i \in 1..CNDTR : accepted[Len(touched) + i] = cur + (i - 1)
  /\ \A i \in 1..Linked : accepted[Len(touched) + CNDTR + i] = link.CMAR + (i - 1)

IInv == TypeOK /\ ThreadInv /\ ChannelInv /\ AddressInv /\ StreamInv
-----------------------------------------------------------------------------
\* The addresses of a run are a sequence of its length.
LEMMA BytesFacts ==
  ASSUME NEW a \in Nat, NEW n \in Nat
  PROVE  /\ Stream!Bytes(a, n) \in Seq(Nat)
         /\ Len(Stream!Bytes(a, n)) = n
         /\ \A i \in 1..n : Stream!Bytes(a, n)[i] = a + (i - 1)
  BY DEF Stream!Bytes

LEMMA ConcatFacts ==
  ASSUME NEW s \in Seq(Nat), NEW t \in Seq(Nat)
  PROVE  /\ Len(s \o t) = Len(s) + Len(t)
         /\ \A i \in 1..Len(s) : (s \o t)[i] = s[i]
         /\ \A i \in 1..Len(t) : (s \o t)[Len(s) + i] = t[i]
  OBVIOUS

\* How many bytes FillLink and ExtendLink take is within what the counter holds.
LEMMA FillFacts ==
  ASSUME TypeOK
  PROVE  Smaller(arg.len, MaxTransfer) \in 1..MaxTransfer
  BY DMALinkAssumption DEF TypeOK, ThreadTypes, Span, Smaller

LEMMA ExtendFacts ==
  ASSUME TypeOK
  PROVE  /\ Smaller(arg.len, Room) \in 0..MaxTransfer
         /\ link.CNDTR + Smaller(arg.len, Room) \in 0..MaxTransfer
  BY DMALinkAssumption DEF TypeOK, RegisterTypes, ThreadTypes, Span, Smaller, Room

LEMMA SawFacts ==
  ASSUME seen \subseteq Nat, NEW a \in Nat
  PROVE  Saw(a) \subseteq Nat
  BY DEF Saw

\* In the initial state nothing is linked and nothing is moved.
LEMMA InitInv == Init => IInv
  <1> SUFFICES ASSUME Init PROVE IInv
    OBVIOUS
  <1> USE DMALinkAssumption DEF Init, NoLink, NoSpan, NoStatus
  <1>1. RegisterTypes
    BY DEF RegisterTypes, Flags
  <1>2. FlagTypes
    BY DEF FlagTypes
  <1>3. ThreadTypes
    BY DEF ThreadTypes, AllOps, Span
  <1>4. HistoryTypes
    BY DEF HistoryTypes
  <1>5. ThreadInv
    BY DEF ThreadInv
  <1>6. ChannelInv
    BY DEF ChannelInv, Disabling, IsEnabled
  <1>7. AddressInv /\ StreamInv
    BY DEF AddressInv, StreamInv, Linked
  <1> QED
    BY <1>1, <1>2, <1>3, <1>4, <1>5, <1>6, <1>7 DEF IInv, TypeOK
-----------------------------------------------------------------------------
LEMMA TransferInv == IInv /\ Transfer => IInv'
  <1> SUFFICES ASSUME IInv, Transfer PROVE IInv'
    OBVIOUS
  <1> USE DMALinkAssumption DEF IInv, TypeOK, Transfer, irq, thread
  <1>1. RegisterTypes'
    BY DEF RegisterTypes
  <1>2. FlagTypes' /\ ThreadTypes'
    BY DEF FlagTypes, ThreadTypes
  <1>3. HistoryTypes'
    <2>1. seen' \subseteq Nat
      BY SawFacts DEF HistoryTypes, RegisterTypes
    <2> QED
      BY <2>1 DEF HistoryTypes, RegisterTypes
  <1>4. ThreadInv'
    BY DEF ThreadInv, Adjacent
  <1>5. ~tcif /\ ~pend /\ CNDTR \in Nat /\ CNDTR > 0 /\ CNDTR' = CNDTR - 1
    BY DEF ChannelInv, RegisterTypes
  <1>6. ChannelInv'
    <2>1. (tcif \/ pend => CNDTR = 0)'
      <3>1. CASE CNDTR = 1
        BY <1>5, <3>1
      <3>2. CASE CNDTR # 1
        BY <1>5, <3>2
      <3> QED
        BY <3>1, <3>2
    <2> QED
      BY <1>5, <2>1 DEF ChannelInv, Disabling, IsEnabled
  <1>7. AddressInv'
    BY DEF AddressInv, RegisterTypes
  <1>8. StreamInv'
    <2> USE DEF RegisterTypes, HistoryTypes, StreamInv
    <2>1. /\ Len(touched) \in Nat /\ Len(touched') = Len(touched) + 1
          /\ Linked \in Nat /\ Linked' = Linked
      BY DEF Linked
    <2>2. Len(accepted') = Len(touched') + CNDTR' + Linked'
      <3>1. Len(accepted) = Len(touched) + CNDTR + Linked /\ accepted' = accepted
        OBVIOUS
      <3> HIDE DEF RegisterTypes, HistoryTypes, StreamInv, Transfer, IInv, TypeOK
      <3> QED
        BY <1>5, <2>1, <3>1
    <2>3. ASSUME NEW i \in 1..CNDTR'
          PROVE  accepted'[Len(touched') + i] = cur' + (i - 1)
      <3>1. i + 1 \in 1..CNDTR /\ Len(touched') + i = Len(touched) + (i + 1)
        BY <1>5, <2>1
      <3>2. accepted[Len(touched) + (i + 1)] = cur + ((i + 1) - 1)
        BY <3>1
      <3> QED
        BY <3>1, <3>2
    <2>4. ASSUME NEW i \in 1..Linked'
          PROVE  accepted'[Len(touched') + CNDTR' + i] = link'.CMAR + (i - 1)
      <3>1. Len(touched') + CNDTR' + i = Len(touched) + CNDTR + i
        BY <1>5, <2>1
      <3> QED
        BY <2>1, <3>1
    <2> QED
      BY <2>2, <2>3, <2>4
  <1> QED
    BY <1>1, <1>2, <1>3, <1>4, <1>6, <1>7, <1>8

LEMMA LinkHandlerInv == IInv /\ LinkHandler => IInv'
  <1> SUFFICES ASSUME IInv, LinkHandler PROVE IInv'
    OBVIOUS
  <1> USE DEF IInv, TypeOK, LinkHandler, thread, stream
  <1>1. CNDTR = 0
    BY DEF Interrupt, ChannelInv
  <1>2. FlagTypes' /\ ThreadTypes'
    BY DEF FlagTypes, ThreadTypes
  <1>3. CASE StartLinked
    <2> USE <1>1, <1>3 DEF StartLinked
    <2>1. RegisterTypes'
      BY DEF RegisterTypes
    <2>2. HistoryTypes'
      <3>1. seen' \subseteq Nat
        BY SawFacts DEF HistoryTypes, RegisterTypes
      <3> QED
        BY <3>1 DEF HistoryTypes
    <2>3. ThreadInv'
      BY DEF ThreadInv
    <2>4. ChannelInv'
      BY DEF ChannelInv, ThreadInv, Disabling, IsEnabled, Interrupt
    <2>5. AddressInv'
      BY DEF AddressInv, RegisterTypes
    <2>6. StreamInv'
      BY DEF StreamInv, Linked, RegisterTypes, HistoryTypes
    <2> QED
      BY <1>2, <2>1, <2>2, <2>3, <2>4, <2>5, <2>6
  <1>4. CASE StopChannel
    <2> USE <1>1, <1>4 DEF StopChannel
    <2>1. RegisterTypes' /\ HistoryTypes'
      BY DEF RegisterTypes, HistoryTypes
    <2>2. ThreadInv'
      BY DEF ThreadInv, Adjacent
    <2>3. ChannelInv'
      BY DEF ChannelInv, ThreadInv, Disabling, IsEnabled, Interrupt
    <2>4. AddressInv' /\ StreamInv'
      BY DEF AddressInv, StreamInv, Linked
    <2> QED
      BY <1>2, <2>1, <2>2, <2>3, <2>4
  <1> QED
    BY <1>3, <1>4
-----------------------------------------------------------------------------
(* A step of the thread that touches neither the link nor the histories nor   *)
(* the position of the engine leaves the stream and the address alone.        *)

LEMMA QuietStream ==
  ASSUME IInv, UNCHANGED <<CMAR, CNDTR, cur, link, stream>>
  PROVE  AddressInv' /\ StreamInv'
  BY DEF IInv, AddressInv, StreamInv, Linked, stream

LEMMA CallTryLinkBufferInv == IInv /\ CallTryLinkBuffer => IInv'
  <1> SUFFICES ASSUME IInv, CallTryLinkBuffer PROVE IInv'
    OBVIOUS
  <1> USE DEF IInv, TypeOK, CallTryLinkBuffer, Call, Goto, hw, irq, stream
  <1>1. RegisterTypes' /\ FlagTypes' /\ HistoryTypes'
    BY DEF RegisterTypes, FlagTypes, HistoryTypes
  <1>2. ThreadTypes'
    BY DMALinkAssumption DEF ThreadTypes, AllOps
  <1>3. ThreadInv'
    BY DEF ThreadInv, ThreadRuns, Interrupt
  <1>4. ChannelInv'
    BY DEF ChannelInv, Disabling, IsEnabled
  <1> QED
    BY <1>1, <1>2, <1>3, <1>4, QuietStream

LEMMA MaskIrqInv == IInv /\ MaskIrq => IInv'
  <1> SUFFICES ASSUME IInv, MaskIrq PROVE IInv'
    OBVIOUS
  <1> USE DEF IInv, TypeOK, MaskIrq, Goto, hw, stream
  <1>1. RegisterTypes' /\ FlagTypes' /\ HistoryTypes' /\ ThreadTypes'
    BY DEF RegisterTypes, FlagTypes, HistoryTypes, ThreadTypes
  <1>2. ThreadInv' /\ ChannelInv'
    BY DEF ThreadInv, ChannelInv, Disabling, IsEnabled
  <1> QED
    BY <1>1, <1>2, QuietStream

LEMMA TestLinkInv == IInv /\ TestLink => IInv'
  <1> SUFFICES ASSUME IInv, TestLink PROVE IInv'
    OBVIOUS
  <1> USE DEF IInv, TypeOK, TestLink, Goto, hw, irq, stream
  <1>1. RegisterTypes' /\ FlagTypes' /\ HistoryTypes' /\ ThreadTypes'
    BY DEF RegisterTypes, FlagTypes, HistoryTypes, ThreadTypes
  <1>2. ThreadInv' /\ ChannelInv'
    BY DEF ThreadInv, ChannelInv, Disabling, IsEnabled, Adjacent
  <1> QED
    BY <1>1, <1>2, QuietStream

\* The new link follows the transfer under way, and so do the bytes accepted.
LEMMA FillLinkInv == IInv /\ FillLink => IInv'
  <1> SUFFICES ASSUME IInv, FillLink PROVE IInv'
    OBVIOUS
  <1> DEFINE n == Smaller(arg.len, MaxTransfer)
             b == Stream!Bytes(arg.start, n)
  <1>1. n \in 1..MaxTransfer /\ MaxTransfer \in Nat /\ n \in Nat
    BY FillFacts, DMALinkAssumption DEF IInv
  <1>2. arg.start \in Nat
    BY DEF IInv, TypeOK, ThreadTypes, Span
  <1>3. /\ b \in Seq(Nat) /\ Len(b) = n
        /\ \A i \in 1..n : b[i] = arg.start + (i - 1)
    BY <1>1, <1>2, BytesFacts
  <1>4. /\ link' = [CCR |-> LinkFlags, CMAR |-> arg.start, CNDTR |-> n, CNDTR0 |-> link.CNDTR0]
        /\ accepted' = accepted \o b
        /\ pc = "fill" /\ pc' = "unmask"
        /\ UNCHANGED <<hw, irq, op, arg, status, ptr, seen, touched>>
    BY DEF FillLink, Goto
  <1>5. link.CCR = {} /\ ~pend
    BY <1>4 DEF IInv, ThreadInv
  <1>6. LinkFlags \in SUBSET Flags /\ "EN" \in LinkFlags
    BY DEF LinkFlags, Flags, IInv, TypeOK, RegisterTypes
  <1>7. accepted \o b \in Seq(Nat)
    BY <1>3 DEF IInv, TypeOK, HistoryTypes
  <1> HIDE DEF n, b
  <1> USE DEF IInv, TypeOK, hw, irq
  <1>8. RegisterTypes'
    BY <1>1, <1>2, <1>4, <1>6 DEF RegisterTypes
  <1>9. FlagTypes' /\ ThreadTypes' /\ HistoryTypes'
    BY <1>4, <1>7 DEF FlagTypes, ThreadTypes, HistoryTypes
  <1>10. ThreadInv' /\ ChannelInv'
    BY <1>4, <1>5, <1>6 DEF ThreadInv, ChannelInv, Disabling, IsEnabled
  <1>11. AddressInv'
    BY <1>4 DEF AddressInv
  <1>12. StreamInv'
    <2>1. /\ Len(accepted) \in Nat /\ Len(touched) \in Nat /\ CNDTR \in Nat
          /\ Len(accepted) = Len(touched) + CNDTR
          /\ \A i \in 1..CNDTR : accepted[Len(touched) + i] = cur + (i - 1)
      BY <1>1, <1>5 DEF RegisterTypes, HistoryTypes, StreamInv, Linked
    <2>2. CNDTR' = CNDTR /\ cur' = cur /\ touched' = touched
      BY <1>4
    <2>3. Linked' = n /\ link'.CMAR = arg.start
      BY <1>4, <1>6 DEF Linked
    <2>4. /\ Len(accepted') = Len(accepted) + n
          /\ \A i \in 1..Len(accepted) : accepted'[i] = accepted[i]
          /\ \A i \in 1..n : accepted'[Len(accepted) + i] = b[i]
      BY <1>3, <1>4, ConcatFacts DEF HistoryTypes
    <2> HIDE DEF IInv, TypeOK
    <2>5. ASSUME NEW i \in 1..CNDTR PROVE accepted'[Len(touched) + i] = cur + (i - 1)
      <3>1. Len(touched) + i \in 1..Len(accepted)
        BY <2>1
      <3> QED
        BY <2>1, <2>4, <3>1
    <2>6. ASSUME NEW i \in 1..n
          PROVE  accepted'[Len(touched) + CNDTR + i] = arg.start + (i - 1)
      BY <1>3, <2>1, <2>4
    <2> QED
      BY <2>1, <2>2, <2>3, <2>4, <2>5, <2>6 DEF StreamInv
  <1> QED
    BY <1>8, <1>9, <1>10, <1>11, <1>12

\* The bytes accepted follow the linked ones, because the buffers are adjacent.
LEMMA ExtendLinkInv == IInv /\ ExtendLink => IInv'
  <1> SUFFICES ASSUME IInv, ExtendLink PROVE IInv'
    OBVIOUS
  <1> DEFINE n == Smaller(arg.len, Room)
             b == Stream!Bytes(arg.start, n)
  <1>1. n \in Nat /\ link.CNDTR + n \in 0..MaxTransfer
    BY ExtendFacts, DMALinkAssumption DEF IInv
  <1>2. arg.start \in Nat
    BY DEF IInv, TypeOK, ThreadTypes, Span
  <1>3. /\ b \in Seq(Nat) /\ Len(b) = n
        /\ \A i \in 1..n : b[i] = arg.start + (i - 1)
    BY <1>1, <1>2, BytesFacts
  <1>4. /\ link' = [link EXCEPT !.CNDTR = link.CNDTR + n]
        /\ accepted' = accepted \o b
        /\ pc = "extend" /\ pc' = "unmask"
        /\ UNCHANGED <<hw, irq, op, arg, status, ptr, seen, touched>>
    BY DEF ExtendLink, Goto
  <1>5. link.CCR # {} /\ link.CMAR + link.CNDTR = arg.start /\ ~pend
    BY <1>4 DEF IInv, ThreadInv, Adjacent
  <1>6. accepted \o b \in Seq(Nat)
    BY <1>3 DEF IInv, TypeOK, HistoryTypes
  <1> HIDE DEF n, b
  <1> USE DEF IInv, TypeOK, hw, irq
  <1>7. RegisterTypes'
    BY <1>1, <1>4 DEF RegisterTypes
  <1>8. FlagTypes' /\ ThreadTypes' /\ HistoryTypes'
    BY <1>4, <1>6 DEF FlagTypes, ThreadTypes, HistoryTypes
  <1>9. ThreadInv'
    BY <1>4, <1>5 DEF ThreadInv, RegisterTypes
  <1>10. ChannelInv'
    BY <1>4, <1>5 DEF ChannelInv, Disabling, IsEnabled, RegisterTypes
  <1>11. AddressInv'
    BY <1>4 DEF AddressInv, RegisterTypes
  <1>12. StreamInv'
    <2> DEFINE m == link.CNDTR
    <2>1. /\ Len(accepted) \in Nat /\ Len(touched) \in Nat /\ CNDTR \in Nat /\ m \in Nat
          /\ link.CMAR \in Nat
          /\ Len(accepted) = Len(touched) + CNDTR + m
          /\ \A i \in 1..CNDTR : accepted[Len(touched) + i] = cur + (i - 1)
          /\ \A i \in 1..m : accepted[Len(touched) + CNDTR + i] = link.CMAR + (i - 1)
      BY <1>5 DEF RegisterTypes, HistoryTypes, StreamInv, Linked
    <2>2. CNDTR' = CNDTR /\ cur' = cur /\ touched' = touched
      BY <1>4
    <2>3. Linked' = m + n /\ link'.CMAR = link.CMAR
      BY <1>4, <1>5 DEF Linked, RegisterTypes
    <2>4. /\ Len(accepted') = Len(accepted) + n
          /\ \A i \in 1..Len(accepted) : accepted'[i] = accepted[i]
          /\ \A i \in 1..n : accepted'[Len(accepted) + i] = b[i]
      BY <1>3, <1>4, ConcatFacts DEF HistoryTypes
    <2>5. arg.start = link.CMAR + m
      BY <1>5
    <2> HIDE DEF IInv, TypeOK, m
    <2>6. ASSUME NEW i \in 1..CNDTR PROVE accepted'[Len(touched) + i] = cur + (i - 1)
      <3>1. Len(touched) + i \in 1..Len(accepted)
        BY <2>1
      <3> QED
        BY <2>1, <2>4, <3>1
    <2>7. ASSUME NEW i \in 1..(m + n)
          PROVE  accepted'[Len(touched) + CNDTR + i] = link.CMAR + (i - 1)
      <3>1. CASE i <= m
        <4>1. i \in 1..m /\ Len(touched) + CNDTR + i \in 1..Len(accepted)
          BY <1>1, <2>1, <3>1
        <4> QED
          BY <2>1, <2>4, <4>1
      <3>2. CASE i > m
        <4>1. i - m \in 1..n /\ Len(touched) + CNDTR + i = Len(accepted) + (i - m)
          BY <1>1, <2>1, <3>2
        <4>2. accepted'[Len(accepted) + (i - m)] = arg.start + ((i - m) - 1)
          BY <1>3, <2>4, <4>1
        <4> QED
          BY <1>1, <2>1, <2>5, <4>1, <4>2
      <3> QED
        BY <1>1, <2>1, <3>1, <3>2
    <2> QED
      BY <1>1, <2>1, <2>2, <2>3, <2>4, <2>6, <2>7 DEF StreamInv
  <1> QED
    BY <1>7, <1>8, <1>9, <1>10, <1>11, <1>12

LEMMA UnmaskIrqInv == IInv /\ UnmaskIrq => IInv'
  <1> SUFFICES ASSUME IInv, UnmaskIrq PROVE IInv'
    OBVIOUS
  <1> USE DEF IInv, TypeOK, UnmaskIrq, Goto, hw, stream
  <1>1. RegisterTypes' /\ FlagTypes' /\ HistoryTypes' /\ ThreadTypes'
    BY DEF RegisterTypes, FlagTypes, HistoryTypes, ThreadTypes
  <1>2. ThreadInv' /\ ChannelInv'
    BY DEF ThreadInv, ChannelInv, Disabling, IsEnabled
  <1> QED
    BY <1>1, <1>2, QuietStream

LEMMA CheckEnabledInv == IInv /\ CheckEnabled => IInv'
  <1> SUFFICES ASSUME IInv, CheckEnabled PROVE IInv'
    OBVIOUS
  <1> USE DEF IInv, TypeOK, CheckEnabled, Goto, hw, irq, stream
  <1>1. RegisterTypes' /\ FlagTypes' /\ HistoryTypes' /\ ThreadTypes'
    BY DEF RegisterTypes, FlagTypes, HistoryTypes, ThreadTypes
  <1>2. ThreadInv'
    BY DEF ThreadInv
  <1>3. ChannelInv'
    BY DEF ChannelInv, Disabling, IsEnabled, RegisterTypes
  <1> QED
    BY <1>1, <1>2, <1>3, QuietStream

LEMMA TriggerInv == IInv /\ Trigger => IInv'
  <1> SUFFICES ASSUME IInv, Trigger PROVE IInv'
    OBVIOUS
  <1> USE DEF IInv, TypeOK, Trigger, Goto, hw, stream
  <1>1. RegisterTypes' /\ FlagTypes' /\ HistoryTypes' /\ ThreadTypes'
    BY DEF RegisterTypes, FlagTypes, HistoryTypes, ThreadTypes
  <1>2. ThreadInv' /\ ChannelInv'
    BY DEF ThreadInv, ChannelInv, Disabling, IsEnabled
  <1> QED
    BY <1>1, <1>2, QuietStream
-----------------------------------------------------------------------------
(* The steps of GetStatus, LinkPointer and LinkPointerNot.                    *)

LEMMA CallGetStatusInv == IInv /\ CallGetStatus => IInv'
  <1> SUFFICES ASSUME IInv, CallGetStatus PROVE IInv'
    OBVIOUS
  <1> USE DEF IInv, TypeOK, CallGetStatus, Call, Goto, hw, irq, stream
  <1>1. RegisterTypes' /\ FlagTypes' /\ HistoryTypes'
    BY DEF RegisterTypes, FlagTypes, HistoryTypes
  <1>2. ThreadTypes'
    BY DEF ThreadTypes, AllOps
  <1>3. ThreadInv'
    BY DEF ThreadInv, ThreadRuns, Interrupt
  <1>4. ChannelInv'
    BY DEF ChannelInv, Disabling, IsEnabled
  <1> QED
    BY <1>1, <1>2, <1>3, <1>4, QuietStream

LEMMA WasEnabledInv == IInv /\ WasEnabled => IInv'
  <1> SUFFICES ASSUME IInv, WasEnabled PROVE IInv'
    OBVIOUS
  <1> USE DEF IInv, TypeOK, WasEnabled, Goto, hw, irq, stream
  <1>1. RegisterTypes' /\ FlagTypes' /\ HistoryTypes'
    BY DEF RegisterTypes, FlagTypes, HistoryTypes
  <1>2. IsEnabled \in BOOLEAN /\ IsEnabled' = IsEnabled
    BY DEF IsEnabled
  <1>3. ThreadTypes'
    BY <1>2 DEF ThreadTypes
  <1>4. ThreadInv'
    BY DEF ThreadInv, Adjacent
  <1>5. status'.was = IsEnabled
    BY DEF ThreadTypes
  <1>6. ChannelInv'
    BY <1>2, <1>5, DMALinkAssumption DEF ChannelInv, ThreadInv, Disabling, RegisterTypes
  <1> QED
    BY <1>1, <1>3, <1>4, <1>6, QuietStream

LEMMA DisableForStatusInv == IInv /\ DisableForStatus => IInv'
  <1> SUFFICES ASSUME IInv, DisableForStatus PROVE IInv'
    OBVIOUS
  <1> USE DEF IInv, TypeOK, DisableForStatus, Goto, hw, irq, stream
  <1>1. RegisterTypes' /\ FlagTypes' /\ HistoryTypes'
    BY DEF RegisterTypes, FlagTypes, HistoryTypes
  <1>2. ThreadTypes'
    BY DEF ThreadTypes, RegisterTypes
  <1>3. ThreadInv'
    BY DEF ThreadInv, Adjacent
  <1>4. ChannelInv'
    BY DEF ChannelInv, ThreadInv, Disabling, IsEnabled
  <1> QED
    BY <1>1, <1>2, <1>3, <1>4, QuietStream

LEMMA ReadCMARInv == IInv /\ ReadCMAR => IInv'
  <1> SUFFICES ASSUME IInv, ReadCMAR PROVE IInv'
    OBVIOUS
  <1> USE DEF IInv, TypeOK, ReadCMAR, Goto, hw, irq, stream
  <1>1. RegisterTypes' /\ FlagTypes' /\ HistoryTypes'
    BY DEF RegisterTypes, FlagTypes, HistoryTypes
  <1>2. ThreadTypes'
    BY DEF ThreadTypes, RegisterTypes
  <1>3. ThreadInv'
    BY DEF ThreadInv, Adjacent
  <1>4. ChannelInv'
    BY DEF ChannelInv, ThreadInv, Disabling, IsEnabled
  <1> QED
    BY <1>1, <1>2, <1>3, <1>4, QuietStream

LEMMA ReadCNDTRInv == IInv /\ ReadCNDTR => IInv'
  <1> SUFFICES ASSUME IInv, ReadCNDTR PROVE IInv'
    OBVIOUS
  <1> USE DEF IInv, TypeOK, ReadCNDTR, Goto, hw, irq, stream
  <1>1. RegisterTypes' /\ FlagTypes' /\ HistoryTypes'
    BY DEF RegisterTypes, FlagTypes, HistoryTypes
  <1>2. ThreadTypes'
    BY DEF ThreadTypes, RegisterTypes
  <1>3. ThreadInv'
    BY DEF ThreadInv, Adjacent
  <1>4. ChannelInv'
    BY DEF ChannelInv, ThreadInv, Disabling, IsEnabled
  <1> QED
    BY <1>1, <1>2, <1>3, <1>4, QuietStream

LEMMA ReadCNDTR0Inv == IInv /\ ReadCNDTR0 => IInv'
  <1> SUFFICES ASSUME IInv, ReadCNDTR0 PROVE IInv'
    OBVIOUS
  <1> USE DEF IInv, TypeOK, ReadCNDTR0, Goto, hw, irq, stream
  <1>1. RegisterTypes' /\ FlagTypes' /\ HistoryTypes'
    BY DEF RegisterTypes, FlagTypes, HistoryTypes
  <1>2. ThreadTypes'
    BY DEF ThreadTypes, RegisterTypes
  <1>3. ThreadInv'
    BY DEF ThreadInv, Adjacent
  <1>4. ChannelInv'
    BY DEF ChannelInv, ThreadInv, Disabling, IsEnabled
  <1> QED
    BY <1>1, <1>2, <1>3, <1>4, QuietStream

LEMMA RestoreEnabledInv == IInv /\ RestoreEnabled => IInv'
  <1> SUFFICES ASSUME IInv, RestoreEnabled PROVE IInv'
    OBVIOUS
  <1> USE DEF IInv, TypeOK, RestoreEnabled, Goto, hw, irq, stream
  <1>1. RegisterTypes' /\ FlagTypes' /\ HistoryTypes'
    BY DEF RegisterTypes, FlagTypes, HistoryTypes, Flags
  <1>2. ThreadTypes'
    BY DEF ThreadTypes, RegisterTypes
  <1>3. ThreadInv'
    BY DEF ThreadInv, Adjacent
  <1>4. ChannelInv'
    BY DEF ChannelInv, ThreadInv, Disabling, IsEnabled
  <1> QED
    BY <1>1, <1>2, <1>3, <1>4, QuietStream

LEMMA ReturnPointerInv == IInv /\ ReturnPointer => IInv'
  <1> SUFFICES ASSUME IInv, ReturnPointer PROVE IInv'
    OBVIOUS
  <1> USE DEF IInv, TypeOK, ReturnPointer, Goto, hw, irq, stream
  <1>1. RegisterTypes' /\ FlagTypes' /\ HistoryTypes'
    BY DEF RegisterTypes, FlagTypes, HistoryTypes
  <1>2. ThreadTypes'
    BY DEF ThreadTypes, RegisterTypes, Position
  <1>3. ThreadInv'
    BY DEF ThreadInv, Adjacent
  <1>4. ChannelInv'
    BY DEF ChannelInv, ThreadInv, Disabling, IsEnabled
  <1> QED
    BY <1>1, <1>2, <1>3, <1>4, QuietStream

LEMMA ComparePointerInv == IInv /\ ComparePointer => IInv'
  <1> SUFFICES ASSUME IInv, ComparePointer PROVE IInv'
    OBVIOUS
  <1> USE DEF IInv, TypeOK, ComparePointer, Goto, hw, irq, stream
  <1>1. RegisterTypes' /\ FlagTypes' /\ HistoryTypes'
    BY DEF RegisterTypes, FlagTypes, HistoryTypes
  <1>2. ThreadTypes'
    BY DEF ThreadTypes
  <1>3. ThreadInv'
    BY DEF ThreadInv
  <1>4. ChannelInv'
    BY DEF ChannelInv, Disabling, IsEnabled
  <1> QED
    BY <1>1, <1>2, <1>3, <1>4, QuietStream

LEMMA WaitInv == IInv /\ (WaitDone \/ WaitTimeout) => IInv'
  <1> SUFFICES ASSUME IInv, WaitDone \/ WaitTimeout PROVE IInv'
    OBVIOUS
  <1> USE DEF IInv, TypeOK, WaitDone, WaitTimeout, Goto, hw, irq, stream
  <1>1. RegisterTypes' /\ FlagTypes' /\ HistoryTypes' /\ ThreadTypes'
    BY DEF RegisterTypes, FlagTypes, HistoryTypes, ThreadTypes
  <1>2. ThreadInv'
    BY DEF ThreadInv
  <1>3. ChannelInv'
    BY DEF ChannelInv, Disabling, IsEnabled
  <1> QED
    BY <1>1, <1>2, <1>3, QuietStream
-----------------------------------------------------------------------------
\* Every step keeps the invariant, one action at a time.
LEMMA NextInv ==
  ASSUME "Unlink" \notin Ops
  PROVE  IInv /\ [Next]_vars => IInv'
<1> SUFFICES ASSUME IInv, [Next]_vars PROVE IInv'
  OBVIOUS
<1>1. CASE UNCHANGED vars
  <2> USE <1>1 DEF IInv, TypeOK, vars, hw, irq, thread, stream
  <2>1. RegisterTypes' /\ FlagTypes' /\ HistoryTypes' /\ ThreadTypes'
    BY DEF RegisterTypes, FlagTypes, HistoryTypes, ThreadTypes
  <2>2. ThreadInv' /\ ChannelInv'
    BY DEF ThreadInv, ChannelInv, Disabling, IsEnabled, Adjacent
  <2> QED
    BY <2>1, <2>2, QuietStream
<1>2. ~CallUnlink /\ ~UnlinkDisable /\ ~UnlinkClear
  BY DEF IInv, ThreadInv, CallUnlink, Call, UnlinkDisable, UnlinkClear, Goto
<1> QED
  BY <1>1, <1>2, TransferInv, LinkHandlerInv, CallTryLinkBufferInv, MaskIrqInv, TestLinkInv,
     FillLinkInv, ExtendLinkInv, UnmaskIrqInv, CheckEnabledInv, TriggerInv,
     CallGetStatusInv, WasEnabledInv, DisableForStatusInv, ReadCMARInv, ReadCNDTRInv,
     ReadCNDTR0Inv, RestoreEnabledInv, ReturnPointerInv, ComparePointerInv, WaitInv
  DEF Next, Continue

\* The strengthened invariant of the linking protocol: thread, interrupt and
\* transfer engine agree on what is linked, moved and left.
THEOREM DMALinkInvariant ==
  ASSUME "Unlink" \notin Ops
  PROVE  Spec => []IInv
  BY InitInv, NextInv, PTL DEF Spec

\* ASSERT(CNDTR == 0) in LinkHandler holds whenever the handler can run, for any
\* delay of the interrupt and any calls but Unlink.
THEOREM HandlerAfterCompletion ==
  ASSUME "Unlink" \notin Ops
  PROVE  Spec => []CompletedAtHandler
<1>1. IInv => CompletedAtHandler
  BY DEF IInv, ChannelInv, CompletedAtHandler, Interrupt
<1> QED
  BY <1>1, DMALinkInvariant, PTL

\* CMAR, CNDTR0 and CNDTR together always tell where the engine stands: what
\* GetStatus computes is right whenever it reads the three undisturbed.
THEOREM StatusIsExact ==
  ASSUME "Unlink" \notin Ops
  PROVE  Spec => []StatusExact
<1>1. IInv => StatusExact
  BY DEF IInv, AddressInv, StatusExact
<1> QED
  BY <1>1, DMALinkInvariant, PTL
-----------------------------------------------------------------------------
\* Handing over a buffer, whole or in part, adds its bytes to the stream; a part may be empty.
LEMMA AcceptStep ==
  ASSUME TypeOK, arg \in Spans, FillLink \/ ExtendLink
  PROVE  [Stream!Next]_Stream!vars
<1> USE DEF Stream!Next, Stream!vars
<1>1. CASE FillLink
  <2>1. Smaller(arg.len, MaxTransfer) \in 1..MaxTransfer
    BY FillFacts
  <2> QED
    BY <1>1, <2>1 DEF FillLink, Stream!Accept
<1>2. CASE ExtendLink
  <2> DEFINE n == Smaller(arg.len, Room)
  <2>1. arg.start \in Nat
    BY DEF TypeOK, ThreadTypes, Span
  <2>2. n \in 0..MaxTransfer /\ MaxTransfer \in Nat /\ accepted \in Seq(Nat)
    BY ExtendFacts, DMALinkAssumption DEF TypeOK, HistoryTypes
  <2>3. accepted' = accepted \o Stream!Bytes(arg.start, n) /\ touched' = touched
    BY <1>2 DEF ExtendLink
  <2> HIDE DEF n
  <2>4. CASE n = 0
    <3>1. Stream!Bytes(arg.start, n) \in Seq(Nat) /\ Len(Stream!Bytes(arg.start, n)) = 0
      BY <2>1, <2>4, BytesFacts
    <3>2. accepted' = accepted
      BY <2>2, <2>3, <3>1
    <3> QED
      BY <2>3, <3>2
  <2>5. CASE n \in 1..MaxTransfer
    BY <2>1, <2>3, <2>5 DEF Stream!Accept
  <2> QED
    BY <2>2, <2>4, <2>5
<1> QED
  BY <1>1, <1>2

\* A step of the channel is a step of the stream: a byte linked, a byte moved.
LEMMA StreamStep ==
  ASSUME "Unlink" \notin Ops, IInv, [Next]_vars
  PROVE  [Stream!Next]_Stream!vars
<1> USE DEF Stream!Next, Stream!vars
<1>1. CASE Transfer
  <2>1. /\ CNDTR \in Nat /\ CNDTR > 0 /\ Linked \in Nat
        /\ Len(touched) \in Nat
        /\ Len(accepted) = Len(touched) + CNDTR + Linked
    BY <1>1 DEF Transfer, IInv, TypeOK, RegisterTypes, HistoryTypes, StreamInv, Linked
  <2>2. accepted[Len(touched) + 1] = cur
    <3>1. 1 \in 1..CNDTR /\ cur \in Nat
      BY <2>1 DEF IInv, TypeOK, RegisterTypes
    <3>2. accepted[Len(touched) + 1] = cur + (1 - 1)
      BY <3>1 DEF IInv, StreamInv
    <3> QED
      BY <3>1, <3>2
  <2> QED
    BY <1>1, <2>1, <2>2 DEF Transfer, Stream!Touch
<1>2. CASE FillLink \/ ExtendLink
  <2>1. arg \in Spans /\ TypeOK
    BY <1>2 DEF FillLink, ExtendLink, Goto, IInv, ThreadInv
  <2> QED
    BY <1>2, <2>1, AcceptStep
<1>3. ~UnlinkClear
  BY DEF IInv, ThreadInv, UnlinkClear, Goto
<1>4. CASE UNCHANGED stream
  BY <1>4 DEF stream
<1>5. CASE /\ ~Transfer /\ ~FillLink /\ ~ExtendLink /\ ~UnlinkClear
  <2>1. UNCHANGED stream
    BY <1>5 DEF Next, Continue, vars, stream, LinkHandler, CallTryLinkBuffer, MaskIrq,
      TestLink, UnmaskIrq, CheckEnabled, Trigger, CallGetStatus, WasEnabled,
      DisableForStatus, ReadCMAR, ReadCNDTR, ReadCNDTR0, RestoreEnabled, ReturnPointer,
      ComparePointer, WaitDone, WaitTimeout, CallUnlink, UnlinkDisable
  <2> QED
    BY <1>4, <2>1
<1> QED
  BY <1>1, <1>2, <1>3, <1>5

\* DMALink implements BufferStream: the bytes are moved in the order in which
\* TryLinkBuffer accepted them, each once, whatever the interleaving.
THEOREM DMALinkRefinesStream ==
  ASSUME "Unlink" \notin Ops
  PROVE  Spec => RefinesStream
<1>1. Init => Stream!Init
  BY DEF Init, Stream!Init
<1>2. IInv /\ [Next]_vars => [Stream!Next]_Stream!vars
  BY StreamStep
<1> QED
  BY <1>1, <1>2, DMALinkInvariant, PTL DEF Spec, RefinesStream, Stream!Spec
-----------------------------------------------------------------------------
(* The types need nothing else: whatever is called, and whenever.             *)
LEMMA ChipTypes == TypeOK /\ (Transfer \/ LinkHandler) => TypeOK'
<1> SUFFICES ASSUME TypeOK PROVE Transfer \/ LinkHandler => TypeOK'
  OBVIOUS
<1> USE DEF TypeOK, thread, irq, stream
<1>1. CASE Transfer
  <2>1. seen' \subseteq Nat
    BY <1>1, SawFacts DEF Transfer, HistoryTypes, RegisterTypes
  <2> QED
    BY <1>1, <2>1, DMALinkAssumption DEF Transfer, RegisterTypes, FlagTypes, ThreadTypes, HistoryTypes
<1>2. CASE LinkHandler
  <2>1. FlagTypes' /\ ThreadTypes'
    BY <1>2 DEF LinkHandler, FlagTypes, ThreadTypes
  <2>2. RegisterTypes'
    BY <1>2 DEF LinkHandler, StartLinked, StopChannel, RegisterTypes
  <2>3. seen' \subseteq Nat
    BY <1>2, SawFacts DEF LinkHandler, StartLinked, StopChannel, HistoryTypes, RegisterTypes
  <2> QED
    BY <1>2, <2>1, <2>2, <2>3 DEF LinkHandler, HistoryTypes
<1> QED
  BY <1>1, <1>2

LEMMA TryLinkBufferTypes ==
  ASSUME TypeOK, CallTryLinkBuffer \/ MaskIrq \/ TestLink \/ FillLink \/ ExtendLink \/ UnmaskIrq
                 \/ CheckEnabled \/ Trigger
  PROVE  TypeOK'
<1> USE DEF TypeOK, hw, irq, stream, Goto
<1>1. CASE CallTryLinkBuffer
  BY <1>1, DMALinkAssumption DEF CallTryLinkBuffer, Call, RegisterTypes, FlagTypes, ThreadTypes, HistoryTypes, AllOps
<1>2. CASE MaskIrq \/ TestLink \/ UnmaskIrq \/ CheckEnabled \/ Trigger
  BY <1>2 DEF MaskIrq, TestLink, UnmaskIrq, CheckEnabled, Trigger, RegisterTypes, FlagTypes, ThreadTypes, HistoryTypes
<1>3. arg.start \in Nat
  BY DEF ThreadTypes, Span
<1>4. CASE FillLink
  <2> DEFINE n == Smaller(arg.len, MaxTransfer)
  <2>1. n \in 0..MaxTransfer /\ n \in Nat
    BY FillFacts, DMALinkAssumption
  <2>2. Stream!Bytes(arg.start, n) \in Seq(Nat)
    BY <1>3, <2>1, BytesFacts
  <2>3. LinkFlags \in SUBSET Flags
    BY DEF LinkFlags, Flags, RegisterTypes
  <2> HIDE DEF n
  <2> QED
    BY <1>3, <1>4, <2>1, <2>2, <2>3 DEF FillLink, n, RegisterTypes, FlagTypes, ThreadTypes, HistoryTypes
<1>5. CASE ExtendLink
  <2> DEFINE n == Smaller(arg.len, Room)
  <2>1. link.CNDTR + n \in 0..MaxTransfer /\ n \in Nat
    BY ExtendFacts, DMALinkAssumption
  <2>2. Stream!Bytes(arg.start, n) \in Seq(Nat)
    BY <1>3, <2>1, BytesFacts
  <2>3. link' = [link EXCEPT !.CNDTR = link.CNDTR + n] /\ accepted' = accepted \o Stream!Bytes(arg.start, n)
    BY <1>5 DEF ExtendLink
  <2> HIDE DEF n
  <2>4. RegisterTypes'
    BY <1>5, <2>1, <2>3 DEF ExtendLink, RegisterTypes
  <2> QED
    BY <1>5, <2>2, <2>3, <2>4 DEF ExtendLink, FlagTypes, ThreadTypes, HistoryTypes
<1> QED
  BY <1>1, <1>2, <1>4, <1>5

LEMMA OtherCallTypes ==
  ASSUME TypeOK, \/ CallGetStatus \/ WasEnabled \/ DisableForStatus \/ ReadCMAR \/ ReadCNDTR \/ ReadCNDTR0
                 \/ RestoreEnabled \/ ReturnPointer \/ ComparePointer \/ WaitDone \/ WaitTimeout
                 \/ CallUnlink \/ UnlinkDisable \/ UnlinkClear
  PROVE  TypeOK'
<1> USE DEF TypeOK, hw, irq, stream, Goto, RegisterTypes, FlagTypes, HistoryTypes
<1>1. CASE CallGetStatus \/ CallUnlink
  BY <1>1 DEF CallGetStatus, CallUnlink, Call, ThreadTypes, AllOps
<1>2. CASE WasEnabled
  <2> DEFINE b == IsEnabled
  <2>1. b \in BOOLEAN
    BY DEF IsEnabled
  <2>2. status' = [status EXCEPT !.was = b]
    BY <1>2 DEF WasEnabled
  <2> HIDE DEF b
  <2> QED
    BY <1>2, <2>1, <2>2 DEF WasEnabled, ThreadTypes
<1>3. CASE DisableForStatus \/ UnlinkDisable
  BY <1>3 DEF DisableForStatus, UnlinkDisable, ThreadTypes
<1>4. CASE ReadCMAR \/ ReadCNDTR \/ ReadCNDTR0
  <2>1. CASE ReadCMAR
    BY <2>1 DEF ReadCMAR, ThreadTypes
  <2>2. CASE ReadCNDTR
    BY <2>2 DEF ReadCNDTR, ThreadTypes
  <2>3. CASE ReadCNDTR0
    <3> DEFINE b == status.buf + link.CNDTR0
    <3>1. b \in Nat
      BY DMALinkAssumption DEF ThreadTypes
    <3>2. status' = [status EXCEPT !.buf = b]
      BY <2>3 DEF ReadCNDTR0
    <3> HIDE DEF b
    <3> QED
      BY <2>3, <3>1, <3>2 DEF ReadCNDTR0, ThreadTypes
  <2> QED
    BY <1>4, <2>1, <2>2, <2>3
<1>5. CASE RestoreEnabled
  BY <1>5 DEF RestoreEnabled, ThreadTypes, Flags
<1>6. CASE ReturnPointer
  BY <1>6 DEF ReturnPointer, Position, ThreadTypes
<1>7. CASE ComparePointer \/ WaitDone \/ WaitTimeout
  BY <1>7 DEF ComparePointer, WaitDone, WaitTimeout, ThreadTypes
<1>8. CASE UnlinkClear
  BY <1>8, DMALinkAssumption DEF UnlinkClear, ThreadTypes, NoLink
<1> QED
  BY <1>1, <1>2, <1>3, <1>4, <1>5, <1>6, <1>7, <1>8

LEMMA TypesNext == TypeOK /\ [Next]_vars => TypeOK'
<1> SUFFICES ASSUME TypeOK, [Next]_vars PROVE TypeOK'
  OBVIOUS
<1>1. CASE UNCHANGED vars
  BY <1>1 DEF TypeOK, RegisterTypes, FlagTypes, ThreadTypes, HistoryTypes, vars, hw, irq, thread, stream
<1> QED
  BY <1>1, ChipTypes, TryLinkBufferTypes, OtherCallTypes DEF Next, Continue

\* The registers keep to their types, whatever is called: in particular a link that
\* TryLinkBuffer extends never outgrows the transfer counter.
THEOREM DMALinkTypes == Spec => []TypeOK
<1>1. Init => TypeOK
  BY InitInv DEF IInv
<1> QED
  BY <1>1, TypesNext, PTL DEF Spec
-----------------------------------------------------------------------------
(* TryLinkBuffer alone: a channel that is idle owes an interrupt to what is    *)
(* linked, or TryLinkBuffer is about to raise it.                              *)
StrandInv ==
  /\ link.CCR # {} => {"TCIE", "EN"} \subseteq link.CCR /\ link.CNDTR > 0
  /\ IsEnabled => "TCIE" \in CCR
  /\ IsEnabled <=> CNDTR > 0 \/ tcif
  /\ link.CCR # {} /\ ~IsEnabled => pend \/ pc \in {"unmask", "check", "trigger"}
  /\ pc \in {"idle", "mask", "test", "fill", "extend", "unmask", "check", "trigger"}

LEMMA StrandChip ==
  ASSUME IInv, StrandInv, Transfer \/ LinkHandler
  PROVE  StrandInv'
<1> USE DEF StrandInv, IsEnabled
<1>1. CNDTR \in Nat
  BY DMALinkAssumption DEF IInv, TypeOK, RegisterTypes
<1>2. CASE Transfer
  <2>1. /\ CNDTR > 0 /\ CNDTR' = CNDTR - 1 /\ tcif' = (tcif \/ CNDTR = 1)
        /\ "EN" \in CCR /\ CCR' = CCR /\ link' = link /\ pend' = pend /\ pc' = pc
    BY <1>2 DEF Transfer, irq, thread
  <2>2. CASE CNDTR = 1
    <3>1. tcif'
      BY <2>1, <2>2
    <3> QED
      BY <2>1, <3>1
  <2>3. CASE CNDTR # 1
    <3>1. CNDTR' > 0
      BY <1>1, <2>1, <2>3
    <3> QED
      BY <2>1, <3>1
  <2> QED
    BY <2>2, <2>3
<1>3. CASE LinkHandler /\ StartLinked
  BY <1>3 DEF LinkHandler, StartLinked, thread
<1>4. CASE LinkHandler /\ StopChannel
  <2>1. CNDTR = 0
    BY <1>4 DEF LinkHandler, IInv, ChannelInv, Interrupt
  <2> QED
    BY <1>4, <2>1 DEF LinkHandler, StopChannel, thread
<1> QED
  BY <1>2, <1>3, <1>4 DEF LinkHandler

LEMMA StrandNext ==
  ASSUME IInv, StrandInv, Ops = {"TryLinkBuffer"}, [Next]_vars
  PROVE  StrandInv'
<1> USE DEF StrandInv, IsEnabled, Goto, hw, irq, stream
<1>1. CASE UNCHANGED vars
  BY <1>1 DEF vars, thread
<1>2. CASE CallTryLinkBuffer
  BY <1>2 DEF CallTryLinkBuffer, Call, ThreadRuns, Interrupt, IInv, ThreadInv
<1>3. CASE MaskIrq \/ TestLink \/ UnmaskIrq \/ CheckEnabled \/ Trigger
  BY <1>3 DEF MaskIrq, TestLink, UnmaskIrq, CheckEnabled, Trigger
<1>4. CASE FillLink
  <2> DEFINE n == Smaller(arg.len, MaxTransfer)
  <2>1. n \in 1..MaxTransfer /\ MaxTransfer \in Nat
    BY FillFacts, DMALinkAssumption DEF IInv
  <2> HIDE DEF n
  <2>2. link' = [CCR |-> LinkFlags, CMAR |-> arg.start, CNDTR |-> n, CNDTR0 |-> link.CNDTR0]
    BY <1>4 DEF FillLink, n
  <2>3. {"TCIE", "EN"} \subseteq link'.CCR /\ link'.CNDTR > 0
    BY <2>1, <2>2 DEF LinkFlags
  <2> QED
    BY <1>4, <2>3 DEF FillLink
<1>5. CASE ExtendLink
  <2> DEFINE n == Smaller(arg.len, Room)
  <2>1. n \in Nat
    BY ExtendFacts, DMALinkAssumption DEF IInv
  <2>2. link' = [link EXCEPT !.CNDTR = link.CNDTR + n] /\ link.CNDTR \in Nat
    BY <1>5, DMALinkAssumption DEF ExtendLink, IInv, TypeOK, RegisterTypes
  <2> HIDE DEF n
  <2>3. link'.CCR = link.CCR /\ (link.CNDTR > 0 => link'.CNDTR > 0)
    BY <2>1, <2>2 DEF IInv, TypeOK, RegisterTypes
  <2> QED
    BY <1>5, <2>3 DEF ExtendLink, IInv, ThreadInv
<1>6. CASE CallGetStatus \/ CallUnlink
  BY <1>6 DEF CallGetStatus, CallUnlink, Call
<1>7. CASE WasEnabled \/ DisableForStatus \/ ReadCMAR \/ ReadCNDTR \/ ReadCNDTR0 \/ RestoreEnabled
           \/ ReturnPointer \/ ComparePointer \/ WaitDone \/ WaitTimeout \/ UnlinkDisable \/ UnlinkClear
  BY <1>7 DEF WasEnabled, DisableForStatus, ReadCMAR, ReadCNDTR, ReadCNDTR0, RestoreEnabled,
     ReturnPointer, ComparePointer, WaitDone, WaitTimeout, UnlinkDisable, UnlinkClear
<1> QED
  BY <1>1, <1>2, <1>3, <1>4, <1>5, <1>6, <1>7, StrandChip DEF Next, Continue

\* Bytes that TryLinkBuffer reported as linked are not forgotten (DMA.cpp:92-148), however
\* late the interrupt is, as long as TryLinkBuffer is all that is called: GetStatus makes
\* a channel look idle that is not.
THEOREM NothingStranded ==
  ASSUME Ops = {"TryLinkBuffer"}
  PROVE  Spec => []NotStranded
<1>1. Init => StrandInv
  BY DEF Init, StrandInv, IsEnabled, NoLink
<1>2. IInv /\ StrandInv /\ [Next]_vars => StrandInv'
  BY StrandNext
<1>3. IInv /\ StrandInv => NotStranded
  <2> SUFFICES ASSUME IInv, StrandInv, pc = "idle", Len(touched) < Len(accepted)
               PROVE  Interrupt \/ (IsEnabled /\ CNDTR > 0)
    BY DEF NotStranded
  <2>1. Linked \in Nat /\ CNDTR \in Nat /\ Len(touched) \in Nat /\ Len(accepted) = Len(touched) + CNDTR + Linked
    BY DMALinkAssumption DEF IInv, TypeOK, RegisterTypes, HistoryTypes, StreamInv, Linked
  <2>2. CNDTR > 0 \/ Linked > 0
    BY <2>1
  <2>3. Linked > 0 => link.CCR # {}
    BY DEF Linked
  <2>4. CASE CNDTR > 0
    BY <2>4 DEF StrandInv
  <2>5. CASE ~(CNDTR > 0)
    BY <2>2, <2>3, <2>5 DEF StrandInv, Interrupt
  <2> QED
    BY <2>4, <2>5
<1>4. "Unlink" \notin Ops
  OBVIOUS
<1> QED
  BY <1>1, <1>2, <1>3, <1>4, DMALinkInvariant, PTL DEF Spec
-----------------------------------------------------------------------------
(* All calls, with an interrupt that is taken before the next step of the      *)
(* thread.  Once EN is clear nothing moves, and no interrupt is left to come;  *)
(* a channel on which a transfer was started since Unlink knows its length.    *)
LinkedInv ==
  /\ link.CCR # {} => {"TCIE", "EN"} \subseteq link.CCR /\ link.CNDTR > 0
  /\ link.CNDTR0 # 0 => "TCIE" \in CCR /\ cur = CMAR + link.CNDTR0 - CNDTR
  /\ IsEnabled \/ tcif => link.CNDTR0 # 0

CallInv ==
  /\ masked <=> pc \in {"test", "fill", "extend", "unmask"}
  /\ pend => pc = "idle"
  /\ pc \in Disabling \cup {"clear"} => ~IsEnabled /\ ~tcif
  /\ op = "Unlink" => pc \in {"idle", "stop", "clear"}
  /\ op = "Unlink" /\ pc = "idle" => ~IsEnabled /\ link.CCR = {}

\* What GetStatus has read so far is what there is.
StatusInv ==
  /\ pc \in {"disable"} \cup Disabling /\ status.was => link.CNDTR0 # 0
  /\ pc \in {"was", "disable", "return"} \cup Disabling => cur \in seen
  /\ pc \in {"cndtr", "cndtr0"} => status.buf = CMAR
  /\ pc \in {"cndtr0", "restore"} => status.cndtr = CNDTR
  /\ pc = "restore" => status.buf = CMAR + link.CNDTR0
  /\ pc = "return" /\ link.CNDTR0 # 0 => Position \in seen

PromptInv == TypeOK /\ LinkedInv /\ CallInv /\ StatusInv

LEMMA PromptInit == Init => PromptInv
<1> SUFFICES ASSUME Init PROVE PromptInv
  OBVIOUS
<1>1. TypeOK
  BY InitInv DEF IInv
<1> QED
  BY <1>1 DEF Init, PromptInv, LinkedInv, CallInv, StatusInv, IsEnabled, Disabling, NoLink

LEMMA PromptTransfer == PromptInv /\ Transfer => PromptInv'
<1> SUFFICES ASSUME PromptInv, Transfer PROVE PromptInv'
  OBVIOUS
<1>1. /\ "EN" \in CCR /\ cur' = cur + 1 /\ CNDTR' = CNDTR - 1
      /\ seen' = Saw(cur + 1) /\ CCR' = CCR /\ CMAR' = CMAR /\ link' = link /\ pend' = pend
      /\ masked' = masked /\ pc' = pc /\ op' = op /\ status' = status
  BY DEF Transfer, irq, thread, IsEnabled
<1>2. TypeOK'
  BY TypesNext DEF PromptInv, Next
<1>3. pc \notin Disabling \cup {"clear"}
  BY <1>1 DEF PromptInv, CallInv, IsEnabled
<1>4. LinkedInv'
  <2>1. CMAR \in Nat /\ CNDTR \in Nat /\ cur \in Nat /\ link.CNDTR0 \in Nat
    BY DMALinkAssumption DEF PromptInv, TypeOK, RegisterTypes
  <2>2. cur = CMAR + link.CNDTR0 - CNDTR => cur' = CMAR' + link'.CNDTR0 - CNDTR'
    BY <1>1, <2>1
  <2> QED
    BY <1>1, <2>2 DEF PromptInv, LinkedInv, IsEnabled
<1>5. CallInv'
  BY <1>1, <1>3 DEF PromptInv, CallInv, IsEnabled, Disabling, TypeOK, FlagTypes
<1>6. StatusInv'
  <2>1. seen # {} => cur' \in seen' /\ seen \subseteq seen'
    BY <1>1 DEF Saw
  <2> QED
    BY <1>1, <1>3, <2>1 DEF PromptInv, StatusInv, Disabling, Position
<1> QED
  BY <1>2, <1>4, <1>5, <1>6 DEF PromptInv

LEMMA PromptHandler == PromptInv /\ LinkHandler => PromptInv'
<1> SUFFICES ASSUME PromptInv, LinkHandler PROVE PromptInv'
  OBVIOUS
<1>1. /\ Interrupt /\ ~masked /\ pend' = FALSE /\ tcif' = FALSE
      /\ StartLinked \/ StopChannel
      /\ masked' = masked /\ pc' = pc /\ op' = op /\ status' = status
  BY DEF LinkHandler, thread
<1>2. TypeOK'
  BY TypesNext DEF PromptInv, Next
<1>3. pc = "idle" \/ tcif
  BY <1>1 DEF PromptInv, CallInv, Interrupt, TypeOK, FlagTypes
<1>4. pc \notin Disabling \cup {"clear"}
  BY <1>3 DEF PromptInv, CallInv, Disabling
<1>5. CASE StartLinked
  <2>1. /\ link.CCR # {} /\ CNDTR' = link.CNDTR /\ CMAR' = link.CMAR /\ cur' = link.CMAR /\ CCR' = link.CCR
        /\ link' = [CCR |-> {}, CMAR |-> link.CMAR, CNDTR |-> link.CNDTR, CNDTR0 |-> link.CNDTR]
        /\ seen' = Saw(link.CMAR)
    BY <1>5 DEF StartLinked
  <2>2. link.CNDTR \in Nat /\ link.CMAR \in Nat /\ link.CNDTR > 0 /\ {"TCIE", "EN"} \subseteq link.CCR
    BY <2>1, DMALinkAssumption DEF PromptInv, LinkedInv, TypeOK, RegisterTypes
  <2>3. LinkedInv'
    BY <1>1, <2>1, <2>2 DEF LinkedInv
  <2>4. CallInv'
    BY <1>1, <1>4, <2>1 DEF PromptInv, CallInv, TypeOK, FlagTypes
  <2>5. pc # "idle" => link.CNDTR0 # 0
    BY <1>3 DEF PromptInv, LinkedInv
  <2>6. seen # {} => cur' \in seen' /\ seen \subseteq seen'
    BY <2>1 DEF Saw
  <2>7. StatusInv'
    BY <1>1, <1>4, <2>1, <2>2, <2>5, <2>6 DEF PromptInv, StatusInv, Disabling, Position
  <2> QED
    BY <1>2, <2>3, <2>4, <2>7 DEF PromptInv
<1>6. CASE StopChannel
  <2>1. CCR' = CCR \ {"EN"} /\ UNCHANGED <<CMAR, CNDTR, cur, link, seen>>
    BY <1>6 DEF StopChannel
  <2>2. LinkedInv' /\ CallInv'
    BY <1>1, <1>4, <2>1 DEF PromptInv, LinkedInv, CallInv, IsEnabled, TypeOK, FlagTypes
  <2>3. StatusInv'
    BY <1>1, <2>1 DEF PromptInv, StatusInv, Position
  <2> QED
    BY <1>2, <2>2, <2>3 DEF PromptInv
<1> QED
  BY <1>1, <1>5, <1>6

\* TryLinkBuffer touches the link and the interrupt only.
LEMMA PromptTryLinkBuffer ==
  ASSUME PromptInv, CallTryLinkBuffer \/ MaskIrq \/ TestLink \/ FillLink \/ ExtendLink \/ UnmaskIrq
                    \/ CheckEnabled \/ Trigger
  PROVE  PromptInv'
<1>1. TypeOK'
  BY TypesNext DEF PromptInv, Next, Continue
<1>2. FlagTypes /\ CallInv /\ LinkedInv
  BY DEF PromptInv, TypeOK
<1> USE DEF Goto, hw, irq, stream, IsEnabled, Disabling
<1>3. CASE CallTryLinkBuffer \/ MaskIrq \/ TestLink \/ UnmaskIrq \/ CheckEnabled \/ Trigger
  <2> USE <1>3 DEF CallTryLinkBuffer, Call, MaskIrq, TestLink, UnmaskIrq, CheckEnabled, Trigger
  <2>1. LinkedInv'
    BY <1>2 DEF LinkedInv
  <2>2. CallInv'
    BY <1>2 DEF CallInv, FlagTypes, ThreadRuns, Interrupt
  <2>3. StatusInv'
    BY DEF StatusInv
  <2> QED
    BY <1>1, <2>1, <2>2, <2>3 DEF PromptInv
<1>4. CASE FillLink
  <2> DEFINE n == Smaller(arg.len, MaxTransfer)
  <2>1. n \in 1..MaxTransfer /\ MaxTransfer \in Nat
    BY FillFacts, DMALinkAssumption DEF PromptInv
  <2> HIDE DEF n
  <2>2. link' = [CCR |-> LinkFlags, CMAR |-> arg.start, CNDTR |-> n, CNDTR0 |-> link.CNDTR0]
    BY <1>4 DEF FillLink, n
  <2>3. {"TCIE", "EN"} \subseteq link'.CCR /\ link'.CNDTR > 0 /\ link'.CNDTR0 = link.CNDTR0
    BY <2>1, <2>2 DEF LinkFlags
  <2>4. LinkedInv'
    BY <1>2, <1>4, <2>3 DEF FillLink, LinkedInv
  <2>5. CallInv' /\ StatusInv'
    BY <1>2, <1>4 DEF FillLink, CallInv, StatusInv, FlagTypes
  <2> QED
    BY <1>1, <2>4, <2>5 DEF PromptInv
<1>5. CASE ExtendLink
  <2> DEFINE n == Smaller(arg.len, Room)
  <2>1. n \in Nat /\ link.CNDTR \in Nat
    BY ExtendFacts, DMALinkAssumption DEF PromptInv, TypeOK, RegisterTypes
  <2>2. link' = [link EXCEPT !.CNDTR = link.CNDTR + n]
    BY <1>5 DEF ExtendLink
  <2> HIDE DEF n
  <2>3. link'.CCR = link.CCR /\ link'.CNDTR = link.CNDTR + n /\ link'.CNDTR0 = link.CNDTR0
    BY <2>2 DEF PromptInv, TypeOK, RegisterTypes
  <2>4. LinkedInv'
    BY <1>2, <1>5, <2>1, <2>3 DEF ExtendLink, LinkedInv
  <2>5. CallInv' /\ StatusInv'
    BY <1>2, <1>5 DEF ExtendLink, CallInv, StatusInv, FlagTypes
  <2> QED
    BY <1>1, <2>4, <2>5 DEF PromptInv
<1> QED
  BY <1>3, <1>4, <1>5

\* GetStatus: what it reads does not change under it.
LEMMA PromptStatus ==
  ASSUME PromptInv, ~Latency, \/ CallGetStatus \/ WasEnabled \/ DisableForStatus \/ ReadCMAR \/ ReadCNDTR
                              \/ ReadCNDTR0 \/ RestoreEnabled
  PROVE  PromptInv'
<1>1. TypeOK'
  BY TypesNext DEF PromptInv, Next, Continue
<1>2. FlagTypes /\ ThreadTypes /\ RegisterTypes /\ CallInv /\ LinkedInv /\ StatusInv
  BY DEF PromptInv, TypeOK
<1> USE DEF Goto, hw, irq, stream, Disabling
<1>3. CASE CallGetStatus
  BY <1>1, <1>2, <1>3 DEF CallGetStatus, Call, PromptInv, LinkedInv, CallInv, StatusInv, FlagTypes,
     ThreadRuns, Interrupt, IsEnabled
<1>4. CASE WasEnabled
  <2> DEFINE b == IsEnabled
  <2>1. status' = [status EXCEPT !.was = b] /\ pc = "was" /\ pc' = "disable"
    BY <1>4 DEF WasEnabled
  <2>2. status'.was = b /\ b = IsEnabled
    BY <1>2, <2>1 DEF ThreadTypes
  <2> HIDE DEF b
  <2>3. StatusInv'
    BY <1>2, <1>4, <2>1, <2>2 DEF WasEnabled, StatusInv, LinkedInv
  <2>4. LinkedInv' /\ CallInv'
    BY <1>2, <1>4 DEF WasEnabled, LinkedInv, CallInv, FlagTypes, IsEnabled
  <2> QED
    BY <1>1, <2>3, <2>4 DEF PromptInv
<1>5. CASE DisableForStatus
  <2>1. pc = "disable" /\ pc' = "cmar" /\ CCR' = CCR \ {"EN"}
        /\ UNCHANGED <<CMAR, CNDTR, cur, tcif, irq, link, op, arg, status, ptr, seen, stream>>
    BY <1>5 DEF DisableForStatus
  <2>2. ~Interrupt
    BY <1>2, <1>5 DEF DisableForStatus, ThreadRuns, CallInv
  <2>3. ~tcif
    BY <1>2, <2>2 DEF LinkedInv, Interrupt
  <2>4. CallInv'
    BY <1>2, <2>1, <2>3 DEF CallInv, FlagTypes, IsEnabled
  <2>5. LinkedInv' /\ StatusInv'
    BY <1>2, <2>1 DEF LinkedInv, StatusInv, IsEnabled
  <2> QED
    BY <1>1, <2>4, <2>5 DEF PromptInv
<1>6. CASE ReadCMAR
  <2>1. status'.was = status.was /\ status'.buf = CMAR
    BY <1>2, <1>6 DEF ReadCMAR, ThreadTypes
  <2> QED
    BY <1>1, <1>2, <1>6, <2>1 DEF ReadCMAR, PromptInv, LinkedInv, CallInv, StatusInv, FlagTypes, IsEnabled
<1>7. CASE ReadCNDTR
  <2>1. status'.was = status.was /\ status'.buf = status.buf /\ status'.cndtr = CNDTR
    BY <1>2, <1>7 DEF ReadCNDTR, ThreadTypes
  <2> QED
    BY <1>1, <1>2, <1>7, <2>1 DEF ReadCNDTR, PromptInv, LinkedInv, CallInv, StatusInv, FlagTypes, IsEnabled
<1>8. CASE ReadCNDTR0
  <2> DEFINE b == status.buf + link.CNDTR0
  <2>1. b = CMAR + link.CNDTR0
    BY <1>2, <1>8 DEF ReadCNDTR0, StatusInv
  <2>2. status' = [status EXCEPT !.buf = b]
    BY <1>8 DEF ReadCNDTR0
  <2> HIDE DEF b
  <2>3. status'.was = status.was /\ status'.buf = b /\ status'.cndtr = status.cndtr
    BY <1>2, <2>2 DEF ThreadTypes
  <2> QED
    BY <1>1, <1>2, <1>8, <2>1, <2>3 DEF ReadCNDTR0, PromptInv, LinkedInv, CallInv, StatusInv, FlagTypes, IsEnabled
<1>9. CASE RestoreEnabled
  <2>1. /\ pc = "restore" /\ pc' \in {"return", "compare"}
        /\ CCR' = IF status.was THEN CCR \cup {"EN"} ELSE CCR
        /\ UNCHANGED <<CMAR, CNDTR, cur, tcif, irq, link, op, arg, status, ptr, seen, stream>>
    BY <1>9 DEF RestoreEnabled
  <2>2. LinkedInv' /\ CallInv'
    BY <1>2, <2>1 DEF LinkedInv, CallInv, StatusInv, FlagTypes, IsEnabled
  <2>3. link.CNDTR0 # 0 => Position = cur
    <3>1. status.buf = CMAR + link.CNDTR0 /\ status.cndtr = CNDTR
      BY <1>2, <2>1 DEF StatusInv
    <3>2. CMAR \in Nat /\ CNDTR \in Nat /\ cur \in Nat /\ link.CNDTR0 \in Nat
      BY <1>2, DMALinkAssumption DEF RegisterTypes
    <3>3. Position = CMAR + link.CNDTR0 - CNDTR
      BY <3>1, <3>2 DEF Position
    <3>4. link.CNDTR0 # 0 => cur = CMAR + link.CNDTR0 - CNDTR
      BY <1>2, <3>2 DEF LinkedInv
    <3> QED
      BY <3>2, <3>3, <3>4
  <2>4. StatusInv'
    BY <1>2, <2>1, <2>3 DEF StatusInv, Position
  <2> QED
    BY <1>1, <2>2, <2>4 DEF PromptInv
<1> QED
  BY <1>3, <1>4, <1>5, <1>6, <1>7, <1>8, <1>9

\* The rest of the calls.
LEMMA PromptReturn ==
  ASSUME PromptInv, ReturnPointer \/ ComparePointer \/ WaitDone \/ WaitTimeout
  PROVE  PromptInv'
<1>1. TypeOK'
  BY TypesNext DEF PromptInv, Next, Continue
<1>2. FlagTypes /\ ThreadTypes /\ CallInv /\ LinkedInv
  BY DEF PromptInv, TypeOK
<1> USE DEF Goto, hw, irq, stream, IsEnabled
<1>3. ~pend /\ pc \in {"return", "compare", "wait"}
  BY <1>2 DEF CallInv, ReturnPointer, ComparePointer, WaitDone, WaitTimeout
<1>4. op # "Unlink"
  BY <1>2, <1>3 DEF CallInv
<1>5. LinkedInv'
  BY <1>2 DEF LinkedInv, ReturnPointer, ComparePointer, WaitDone, WaitTimeout
<1>6. CallInv'
  BY <1>2, <1>3, <1>4 DEF CallInv, FlagTypes, Disabling, ReturnPointer, ComparePointer, WaitDone, WaitTimeout
<1>7. StatusInv'
  BY <1>3 DEF StatusInv, Disabling, ReturnPointer, ComparePointer, WaitDone, WaitTimeout
<1> QED
  BY <1>1, <1>5, <1>6, <1>7 DEF PromptInv

LEMMA PromptUnlink ==
  ASSUME PromptInv, ~Latency, CallUnlink \/ UnlinkDisable \/ UnlinkClear
  PROVE  PromptInv'
<1>1. TypeOK'
  BY TypesNext DEF PromptInv, Next, Continue
<1>2. FlagTypes /\ RegisterTypes /\ CallInv /\ LinkedInv
  BY DEF PromptInv, TypeOK
<1> USE DEF Goto, hw, irq, stream, IsEnabled, Disabling
<1>3. CASE CallUnlink
  BY <1>1, <1>2, <1>3 DEF CallUnlink, Call, PromptInv, LinkedInv, CallInv, StatusInv, FlagTypes,
     ThreadRuns, Interrupt
<1>4. CASE UnlinkDisable
  <2>1. ~Interrupt
    BY <1>2, <1>4 DEF UnlinkDisable, ThreadRuns, CallInv
  <2>2. ~tcif
    BY <1>2, <2>1 DEF LinkedInv, Interrupt
  <2>3. LinkedInv'
    BY <1>2, <1>4 DEF UnlinkDisable, LinkedInv
  <2>4. CallInv' /\ StatusInv'
    BY <1>2, <1>4, <2>2 DEF UnlinkDisable, CallInv, StatusInv, FlagTypes
  <2> QED
    BY <1>1, <2>3, <2>4 DEF PromptInv
<1>5. CASE UnlinkClear
  <2>1. link'.CCR = {} /\ link'.CNDTR0 = 0
    BY <1>5 DEF UnlinkClear, NoLink
  <2>2. LinkedInv' /\ CallInv' /\ StatusInv'
    BY <1>2, <1>5, <2>1 DEF UnlinkClear, LinkedInv, CallInv, StatusInv, FlagTypes
  <2> QED
    BY <1>1, <2>2 DEF PromptInv
<1> QED
  BY <1>3, <1>4, <1>5

LEMMA PromptNext ==
  ASSUME ~Latency
  PROVE  PromptInv /\ [Next]_vars => PromptInv'
<1> SUFFICES ASSUME PromptInv, [Next]_vars PROVE PromptInv'
  OBVIOUS
<1>1. CASE UNCHANGED vars
  BY <1>1 DEF vars, hw, irq, thread, stream, PromptInv, TypeOK, RegisterTypes, FlagTypes, ThreadTypes,
     HistoryTypes, LinkedInv, CallInv, StatusInv, Position, IsEnabled
<1> QED
  BY <1>1, PromptTransfer, PromptHandler, PromptTryLinkBuffer, PromptStatus, PromptReturn, PromptUnlink
     DEF Next, Continue

\* What LinkPointer returns is a location the engine stood at while it was called
\* (DMA.cpp:156-160), whatever else is called, if the completion interrupt is taken before the
\* next instruction: one that arrives between the reads tears the result.
THEOREM PointersArePlaces ==
  ASSUME ~Latency
  PROVE  Spec => LinkPointerExact
<1>1. PromptInv /\ [Next]_vars => [pc = "return" /\ pc' = "idle" /\ link.CNDTR0 # 0 => ptr' \in seen]_vars
  <2> SUFFICES ASSUME PromptInv, Next, pc = "return", pc' = "idle", link.CNDTR0 # 0
               PROVE  ptr' \in seen
    OBVIOUS
  <2>1. ReturnPointer
    BY DEF Next, Continue, Transfer, LinkHandler, thread, Goto, Call, CallTryLinkBuffer, CallGetStatus,
       CallUnlink, MaskIrq, TestLink, FillLink, ExtendLink, UnmaskIrq, CheckEnabled, Trigger, WasEnabled,
       DisableForStatus, ReadCMAR, ReadCNDTR, ReadCNDTR0, RestoreEnabled, ComparePointer, WaitDone,
       WaitTimeout, UnlinkDisable, UnlinkClear
  <2> QED
    BY <2>1 DEF ReturnPointer, PromptInv, StatusInv
<1> QED
  BY <1>1, PromptInit, PromptNext, PTL DEF Spec, LinkPointerExact
-----------------------------------------------------------------------------
(* The stream with Unlink, under the same condition.  A channel that Unlink      *)
(* stopped keeps its count: what counts as left is what an enabled channel has,  *)
(* or one that GetStatus is about to enable again.                               *)
Left == IF IsEnabled \/ (pc \in Disabling /\ status.was) THEN CNDTR ELSE 0

\* A branch of TryLinkBuffer is still the right one, a transfer that is over has not been
\* followed, and what TryLinkBuffer and GetStatus have seen of EN is still so.
TurnInv ==
  /\ pc \in {"mask", "test", "fill", "extend"} => arg \in Spans
  /\ pc = "fill" => link.CCR = {}
  /\ pc = "extend" => link.CCR # {} /\ Adjacent
  /\ tcif => IsEnabled /\ CNDTR = 0
  /\ pend \/ pc = "trigger" => ~IsEnabled
  /\ pc = "disable" => IF status.was THEN IsEnabled \/ CNDTR = 0 ELSE ~IsEnabled

\* What is accepted but not moved is the rest of the current transfer, followed by the
\* linked one; until Unlink has taken it back.
OrderInv == pc # "clear" =>
  /\ Len(accepted) = Len(touched) + Left + Linked
  /\ \A i \in 1..Left : accepted[Len(touched) + i] = cur + (i - 1)
  /\ \A i \in 1..Linked : accepted[Len(touched) + Left + i] = link.CMAR + (i - 1)

DropInv == PromptInv /\ TurnInv /\ OrderInv

LEMMA DropInit == Init => TurnInv /\ OrderInv
<1> SUFFICES ASSUME Init PROVE TurnInv /\ OrderInv
  OBVIOUS
<1>1. TurnInv
  BY DEF Init, TurnInv, IsEnabled
<1>2. Left = 0 /\ Linked = 0
  BY DEF Init, Left, Linked, IsEnabled, NoLink, Disabling
<1> QED
  BY <1>1, <1>2 DEF Init, OrderInv

\* The thread goes on with no interrupt due, so that no transfer is waiting to be followed.
LEMMA ThreadIsAlone ==
  ASSUME PromptInv, TurnInv, ~Latency, ThreadRuns, ~masked
  PROVE  ~tcif /\ ~pend
BY DEF PromptInv, LinkedInv, TypeOK, FlagTypes, ThreadRuns, Interrupt

LEMMA TurnChip ==
  ASSUME PromptInv, TurnInv, Transfer \/ LinkHandler
  PROVE  TurnInv'
<1>1. FlagTypes /\ RegisterTypes /\ CallInv /\ LinkedInv
  BY DEF PromptInv, TypeOK
<1> USE DEF irq, thread
<1>2. CASE Transfer
  <2>1. CNDTR \in Nat /\ CNDTR > 0 /\ CNDTR' = CNDTR - 1
    BY <1>1, <1>2, DMALinkAssumption DEF Transfer, RegisterTypes
  <2>2. ~tcif
    BY <2>1 DEF TurnInv
  <2>3. tcif' => CNDTR' = 0
    <3> SUFFICES ASSUME tcif' PROVE CNDTR' = 0
      OBVIOUS
    <3>1. tcif' = (tcif \/ CNDTR = 1)
      BY <1>2 DEF Transfer
    <3>2. CNDTR = 1
      BY <2>2, <3>1, Zenon
    <3> QED
      BY <2>1, <3>2
  <2> QED
    BY <1>2, <2>2, <2>3 DEF Transfer, TurnInv, IsEnabled, Adjacent
<1>3. CASE LinkHandler
  <2>1. ~masked /\ pend' = FALSE /\ tcif' = FALSE /\ pc' = pc /\ status' = status /\ arg' = arg
    BY <1>3 DEF LinkHandler
  <2>2. pc \notin {"test", "fill", "extend"}
    BY <1>1, <2>1 DEF CallInv
  <2>3. tcif \/ pc = "idle"
    BY <1>1, <1>3 DEF LinkHandler, Interrupt, CallInv, FlagTypes
  <2>4. pc \in {"trigger", "disable"} => IsEnabled /\ CNDTR = 0
    BY <2>3 DEF TurnInv
  <2>5. pc # "trigger"
    BY <2>4 DEF TurnInv
  <2>6. pc = "disable" => status.was
    BY <2>4 DEF TurnInv
  <2>7. CASE StartLinked
    <3>1. "EN" \in CCR'
      BY <1>1, <2>7 DEF StartLinked, LinkedInv
    <3> QED
      BY <2>1, <2>2, <2>5, <2>6, <3>1 DEF TurnInv, IsEnabled
  <2>8. CASE StopChannel
    BY <2>1, <2>2, <2>4, <2>5, <2>6, <2>8 DEF StopChannel, TurnInv, IsEnabled
  <2> QED
    BY <1>3, <2>7, <2>8 DEF LinkHandler
<1> QED
  BY <1>2, <1>3

LEMMA TurnLink ==
  ASSUME PromptInv, TurnInv, ~Latency,
         \/ CallTryLinkBuffer \/ MaskIrq \/ TestLink \/ FillLink \/ ExtendLink \/ UnmaskIrq
         \/ CheckEnabled \/ Trigger
  PROVE  TurnInv'
<1>1. FlagTypes /\ ThreadTypes /\ CallInv /\ LinkedInv
  BY DEF PromptInv, TypeOK
<1> USE DEF Goto, Call, hw, irq, stream, IsEnabled, TurnInv
<1>2. CASE CallTryLinkBuffer
  BY <1>1, <1>2, ThreadIsAlone DEF CallTryLinkBuffer, CallInv
<1>3. CASE MaskIrq
  BY <1>1, <1>3 DEF MaskIrq, CallInv
<1>4. CASE TestLink
  BY <1>1, <1>4 DEF TestLink, CallInv, Adjacent
<1>5. CASE FillLink
  BY <1>1, <1>5 DEF FillLink, CallInv
<1>6. CASE ExtendLink
  BY <1>1, <1>6 DEF ExtendLink, CallInv
<1>7. CASE UnmaskIrq
  BY <1>1, <1>7 DEF UnmaskIrq, CallInv
<1>8. CASE CheckEnabled
  BY <1>1, <1>8 DEF CheckEnabled, CallInv
<1>9. CASE Trigger
  BY <1>1, <1>9 DEF Trigger, CallInv
<1> QED
  BY <1>2, <1>3, <1>4, <1>5, <1>6, <1>7, <1>8, <1>9

\* The steps of GetStatus and of what comes behind it.
Reading == {"was", "disable", "return", "compare", "wait"} \cup Disabling

LEMMA TurnRest ==
  ASSUME PromptInv, TurnInv, ~Latency,
         \/ CallGetStatus \/ WasEnabled \/ DisableForStatus \/ ReadCMAR \/ ReadCNDTR
         \/ ReadCNDTR0 \/ RestoreEnabled \/ ReturnPointer \/ ComparePointer \/ WaitDone \/ WaitTimeout
         \/ CallUnlink \/ UnlinkDisable \/ UnlinkClear
  PROVE  TurnInv'
<1>1. FlagTypes /\ ThreadTypes /\ CallInv /\ LinkedInv
  BY DEF PromptInv, TypeOK
<1>2. ThreadRuns /\ pc \in Reading \cup {"idle", "stop", "clear"}
  BY DEF CallGetStatus, WasEnabled, DisableForStatus, ReadCMAR, ReadCNDTR, ReadCNDTR0, RestoreEnabled,
     ReturnPointer, ComparePointer, WaitDone, WaitTimeout, CallUnlink, UnlinkDisable, UnlinkClear, Goto, Call,
     Reading, Disabling
<1>3. ~masked /\ ~tcif /\ ~pend
  BY <1>1, <1>2, ThreadIsAlone DEF CallInv, Reading, Disabling
<1> USE DEF Goto, Call, hw, irq, stream, Disabling
<1>4. ~tcif' /\ ~pend' /\ pc' \in Reading \cup {"idle", "stop", "clear"}
  BY <1>3 DEF CallGetStatus, WasEnabled, DisableForStatus, ReadCMAR, ReadCNDTR, ReadCNDTR0, RestoreEnabled,
     ReturnPointer, ComparePointer, WaitDone, WaitTimeout, CallUnlink, UnlinkDisable, UnlinkClear, Reading
<1>5. pc' = "disable" => IF status'.was THEN IsEnabled' \/ CNDTR' = 0 ELSE ~IsEnabled'
  <2> SUFFICES ASSUME pc' = "disable" PROVE (status'.was <=> IsEnabled) /\ CCR' = CCR
    BY DEF IsEnabled
  <2>1. WasEnabled
    BY DEF CallGetStatus, DisableForStatus, ReadCMAR, ReadCNDTR, ReadCNDTR0, RestoreEnabled,
       ReturnPointer, ComparePointer, WaitDone, WaitTimeout, CallUnlink, UnlinkDisable, UnlinkClear
  <2> DEFINE b == IsEnabled
  <2>2. status' = [status EXCEPT !.was = b] /\ CCR' = CCR
    BY <2>1 DEF WasEnabled
  <2> HIDE DEF b
  <2>3. status'.was = b
    BY <1>1, <2>2 DEF ThreadTypes
  <2> QED
    BY <2>2, <2>3 DEF b
<1> QED
  BY <1>4, <1>5 DEF TurnInv, Reading

\* The types that arithmetic on the stream needs.
LEMMA LeftFacts ==
  ASSUME TypeOK
  PROVE  /\ Left \in Nat /\ Linked \in Nat /\ Len(accepted) \in Nat /\ Len(touched) \in Nat
         /\ CNDTR \in Nat /\ cur \in Nat /\ link.CMAR \in Nat /\ link.CNDTR \in Nat
         /\ accepted \in Seq(Nat) /\ touched \in Seq(Nat)
BY DMALinkAssumption DEF TypeOK, RegisterTypes, HistoryTypes, Left, Linked

\* The engine moves the byte that is due.
LEMMA TouchDue ==
  ASSUME PromptInv, OrderInv, Transfer
  PROVE  /\ pc # "clear" /\ Len(touched) < Len(accepted) /\ accepted[Len(touched) + 1] = cur
         /\ Left = CNDTR /\ Left > 0
<1>1. pc # "clear"
  BY DEF Transfer, PromptInv, CallInv
<1>2. Left = CNDTR /\ CNDTR > 0
  BY DEF Transfer, Left
<1>3. TypeOK
  BY DEF PromptInv
<1> HIDE DEF Left, Linked
<1>4. 1 \in 1..Left
  BY <1>2, <1>3, LeftFacts
<1>5. accepted[Len(touched) + 1] = cur + (1 - 1)
  BY <1>1, <1>4 DEF OrderInv
<1> QED
  BY <1>1, <1>2, <1>3, <1>5, LeftFacts DEF OrderInv

\* ... and then the next one is.
LEMMA OrderTransfer ==
  ASSUME PromptInv, TurnInv, OrderInv, Transfer
  PROVE  OrderInv'
<1>1. TypeOK
  BY DEF PromptInv
<1>2. /\ accepted' = accepted /\ touched' = Append(touched, cur) /\ cur' = cur + 1 /\ link' = link
      /\ Linked' = Linked /\ Left' = CNDTR - 1
  <2>1. CCR' = CCR /\ "EN" \in CCR /\ pc' = pc /\ status' = status /\ CNDTR' = CNDTR - 1 /\ link' = link
    BY DEF Transfer, thread, IsEnabled
  <2> QED
    BY <2>1 DEF Transfer, Left, Linked, IsEnabled
<1>3. /\ pc # "clear" /\ Left = CNDTR /\ Left > 0
  BY TouchDue
<1> HIDE DEF Left, Linked
<1>4. /\ Left \in Nat /\ Linked \in Nat /\ Len(touched) \in Nat /\ Len(touched') = Len(touched) + 1
      /\ Len(accepted) \in Nat /\ cur \in Nat /\ Left' = Left - 1
  BY <1>1, <1>2, <1>3, LeftFacts
<1>5. /\ Len(accepted) = Len(touched) + Left + Linked
      /\ \A i \in 1..Left : accepted[Len(touched) + i] = cur + (i - 1)
      /\ \A i \in 1..Linked : accepted[Len(touched) + Left + i] = link.CMAR + (i - 1)
  BY <1>3 DEF OrderInv
<1>6. Len(accepted') = Len(touched') + Left' + Linked'
  BY <1>2, <1>4, <1>5
<1>7. ASSUME NEW k \in 1..Left' PROVE accepted'[Len(touched') + k] = cur' + (k - 1)
  <2>1. k + 1 \in 1..Left /\ k \in Nat
    BY <1>4
  <2>2. accepted[Len(touched) + (k + 1)] = cur + ((k + 1) - 1)
    BY <1>5, <2>1
  <2>3. Len(touched) + (k + 1) = Len(touched') + k /\ cur + ((k + 1) - 1) = cur' + (k - 1)
    BY <1>2, <1>4, <2>1
  <2> QED
    BY <1>2, <2>2, <2>3
<1>8. ASSUME NEW k \in 1..Linked' PROVE accepted'[Len(touched') + Left' + k] = link'.CMAR + (k - 1)
  <2>1. k \in 1..Linked /\ Len(touched') + Left' + k = Len(touched) + Left + k
    BY <1>2, <1>4
  <2>2. accepted[Len(touched) + Left + k] = link.CMAR + (k - 1)
    BY <1>5, <2>1
  <2>3. accepted' = accepted /\ link'.CMAR = link.CMAR
    BY <1>2
  <2> QED
    BY <2>1, <2>2, <2>3
<1> QED
  BY <1>6, <1>7, <1>8 DEF OrderInv

\* The handler finds nothing left, and makes the linked transfer the current one.
LEMMA OrderHandler ==
  ASSUME PromptInv, TurnInv, OrderInv, LinkHandler
  PROVE  OrderInv'
<1>1. TypeOK /\ FlagTypes /\ CallInv /\ LinkedInv
  BY DEF PromptInv, TypeOK
<1>2. ~masked /\ pc' = pc /\ status' = status /\ accepted' = accepted /\ touched' = touched
  BY DEF LinkHandler, thread, stream
<1>3. tcif \/ (pend /\ pc = "idle")
  <2>1. pend => pc = "idle"
    BY <1>1 DEF CallInv
  <2> QED
    BY <2>1 DEF LinkHandler, Interrupt
<1>4. pc \notin Disabling \cup {"clear"}
  BY <1>1, <1>3 DEF CallInv, Disabling
<1>5. Left = 0
  BY <1>3, <1>4 DEF TurnInv, Left
<1>6. /\ Len(accepted) = Len(touched) + Left + Linked
      /\ \A i \in 1..Left : accepted[Len(touched) + i] = cur + (i - 1)
      /\ \A i \in 1..Linked : accepted[Len(touched) + Left + i] = link.CMAR + (i - 1)
  BY <1>4 DEF OrderInv
<1>7. CASE StartLinked
  <2>1. /\ link.CCR # {} /\ "EN" \in CCR' /\ CNDTR' = link.CNDTR /\ cur' = link.CMAR /\ link'.CCR = {}
    BY <1>1, <1>7 DEF StartLinked, LinkedInv
  <2>2. Left' = Linked /\ Linked' = 0
    BY <2>1 DEF Left, Linked, IsEnabled
  <2> HIDE DEF Left, Linked
  <2> QED
    BY <1>1, <1>2, <1>5, <1>6, <2>1, <2>2, LeftFacts DEF OrderInv
<1>8. CASE StopChannel
  <2>1. link' = link /\ CCR' = CCR \ {"EN"} /\ cur' = cur
    BY <1>8 DEF StopChannel
  <2>2. Left' = 0 /\ Linked' = Linked
    BY <1>2, <1>4, <2>1 DEF Left, Linked, IsEnabled
  <2> HIDE DEF Left, Linked
  <2> QED
    BY <1>2, <1>5, <1>6, <2>1, <2>2 DEF OrderInv
<1> QED
  BY <1>7, <1>8 DEF LinkHandler

\* A new link, or a longer one, is at the end of what is accepted.
LEMMA OrderFill ==
  ASSUME PromptInv, TurnInv, OrderInv, FillLink
  PROVE  OrderInv'
<1> DEFINE n == Smaller(arg.len, MaxTransfer)
           b == Stream!Bytes(arg.start, n)
<1>1. TypeOK /\ n \in Nat /\ arg.start \in Nat
  BY FillFacts, DMALinkAssumption DEF PromptInv, TypeOK, ThreadTypes, Span
<1>2. /\ b \in Seq(Nat) /\ Len(b) = n
      /\ \A i \in 1..n : b[i] = arg.start + (i - 1)
  BY <1>1, BytesFacts
<1>3. /\ link'.CCR = LinkFlags /\ link'.CMAR = arg.start /\ link'.CNDTR = n
      /\ accepted' = accepted \o b /\ touched' = touched
      /\ pc = "fill" /\ pc' = "unmask" /\ cur' = cur /\ CCR' = CCR /\ CNDTR' = CNDTR
  BY DEF FillLink, Goto, hw
<1>4. Linked = 0 /\ Linked' = n /\ Left' = Left
  BY <1>3 DEF TurnInv, Linked, LinkFlags, Left, IsEnabled, Disabling
<1> HIDE DEF n, b, Left, Linked
<1>5. /\ Len(accepted) = Len(touched) + Left
      /\ \A i \in 1..Left : accepted[Len(touched) + i] = cur + (i - 1)
      /\ Left \in Nat /\ Len(accepted) \in Nat /\ Len(touched) \in Nat
  BY <1>1, <1>3, <1>4, LeftFacts DEF OrderInv
<1>6. /\ Len(accepted') = Len(accepted) + n
      /\ \A i \in 1..Len(accepted) : accepted'[i] = accepted[i]
      /\ \A i \in 1..n : accepted'[Len(accepted) + i] = b[i]
  <2>1. accepted \in Seq(Nat)
    BY <1>1, LeftFacts
  <2>2. /\ Len(accepted \o b) = Len(accepted) + Len(b)
        /\ \A i \in 1..Len(accepted) : (accepted \o b)[i] = accepted[i]
        /\ \A i \in 1..Len(b) : (accepted \o b)[Len(accepted) + i] = b[i]
    BY <1>2, <2>1, ConcatFacts
  <2> QED
    BY <1>2, <1>3, <2>2
<1>7. ASSUME NEW i \in 1..Left PROVE accepted'[Len(touched) + i] = cur + (i - 1)
  <2>1. Len(touched) + i \in 1..Len(accepted)
    BY <1>5
  <2> QED
    BY <1>5, <1>6, <2>1
<1>8. ASSUME NEW i \in 1..n PROVE accepted'[Len(touched) + Left + i] = arg.start + (i - 1)
  BY <1>2, <1>5, <1>6
<1>9. Len(accepted') = Len(touched) + Left + n
  BY <1>1, <1>5, <1>6
<1> QED
  BY <1>3, <1>4, <1>7, <1>8, <1>9 DEF OrderInv

LEMMA OrderExtend ==
  ASSUME PromptInv, TurnInv, OrderInv, ExtendLink
  PROVE  OrderInv'
<1> DEFINE n == Smaller(arg.len, Room)
           b == Stream!Bytes(arg.start, n)
<1>1. TypeOK /\ n \in Nat /\ arg.start \in Nat
  BY ExtendFacts, DMALinkAssumption DEF PromptInv, TypeOK, ThreadTypes, Span
<1>2. /\ b \in Seq(Nat) /\ Len(b) = n
      /\ \A i \in 1..n : b[i] = arg.start + (i - 1)
  BY <1>1, BytesFacts
<1>3. /\ link' = [link EXCEPT !.CNDTR = link.CNDTR + n]
      /\ accepted' = accepted \o b /\ touched' = touched
      /\ pc = "extend" /\ pc' = "unmask" /\ cur' = cur /\ CCR' = CCR /\ CNDTR' = CNDTR
  BY DEF ExtendLink, Goto, hw
<1>4. link.CCR # {} /\ link.CMAR + link.CNDTR = arg.start
  BY <1>3 DEF TurnInv, Adjacent
<1> HIDE DEF n, b
<1>5. /\ link'.CCR = link.CCR /\ link'.CMAR = link.CMAR /\ link'.CNDTR = link.CNDTR + n
  BY <1>1, <1>3 DEF TypeOK, RegisterTypes
<1>6. Linked = link.CNDTR /\ Linked' = Linked + n /\ Left' = Left
  BY <1>3, <1>4, <1>5 DEF Linked, Left, IsEnabled, Disabling
<1> HIDE DEF Left, Linked
<1>7. /\ Len(accepted) = Len(touched) + Left + Linked
      /\ \A i \in 1..Left : accepted[Len(touched) + i] = cur + (i - 1)
      /\ \A i \in 1..Linked : accepted[Len(touched) + Left + i] = link.CMAR + (i - 1)
      /\ Left \in Nat /\ Linked \in Nat /\ Len(accepted) \in Nat /\ Len(touched) \in Nat /\ link.CMAR \in Nat
  BY <1>1, <1>3, LeftFacts DEF OrderInv
<1>8. /\ Len(accepted') = Len(accepted) + n
      /\ \A i \in 1..Len(accepted) : accepted'[i] = accepted[i]
      /\ \A i \in 1..n : accepted'[Len(accepted) + i] = b[i]
  BY <1>1, <1>2, <1>3, ConcatFacts, LeftFacts
<1>9. ASSUME NEW i \in 1..Left PROVE accepted'[Len(touched) + i] = cur + (i - 1)
  <2>1. Len(touched) + i \in 1..Len(accepted)
    BY <1>7
  <2> QED
    BY <1>7, <1>8, <2>1
<1>10. ASSUME NEW i \in 1..(Linked + n) PROVE accepted'[Len(touched) + Left + i] = link.CMAR + (i - 1)
  <2>1. CASE i <= Linked
    <3>1. i \in 1..Linked /\ Len(touched) + Left + i \in 1..Len(accepted)
      BY <1>7, <2>1
    <3> QED
      BY <1>7, <1>8, <3>1
  <2>2. CASE i > Linked
    <3>1. /\ i - Linked \in 1..n
          /\ Len(accepted) + (i - Linked) = Len(touched) + Left + i
          /\ arg.start + ((i - Linked) - 1) = link.CMAR + (i - 1)
      <4>1. arg.start = link.CMAR + Linked
        BY <1>4, <1>6
      <4>2. i \in Nat
        BY <1>1, <1>7
      <4> QED
        BY <1>1, <1>7, <2>2, <4>1, <4>2
    <3>2. accepted'[Len(accepted) + (i - Linked)] = arg.start + ((i - Linked) - 1)
      BY <1>2, <1>8, <3>1
    <3> QED
      BY <3>1, <3>2
  <2> QED
    BY <1>1, <1>7, <2>1, <2>2
<1>11. Len(accepted') = Len(touched) + Left + (Linked + n)
  BY <1>1, <1>7, <1>8
<1> QED
  BY <1>3, <1>5, <1>6, <1>9, <1>10, <1>11 DEF OrderInv

\* Unlink takes back what is left; whatever else the thread does, nothing is left or linked
\* that was not before.
LEMMA OrderUnlink ==
  ASSUME PromptInv, TurnInv, OrderInv, UnlinkDisable \/ UnlinkClear
  PROVE  OrderInv'
<1>1. CASE UnlinkDisable
  BY <1>1 DEF UnlinkDisable, Goto, OrderInv
<1>2. CASE UnlinkClear
  <2>1. ~IsEnabled /\ CCR' = CCR /\ pc' = "idle" /\ link' = NoLink /\ accepted' = touched /\ touched' = touched
    BY <1>2 DEF UnlinkClear, Goto, hw, PromptInv, CallInv
  <2>2. Left' = 0 /\ Linked' = 0 /\ Len(touched) \in Nat
    BY <2>1, LeftFacts DEF Left, Linked, IsEnabled, NoLink, Disabling, PromptInv
  <2> QED
    BY <2>1, <2>2 DEF OrderInv
<1> QED
  BY <1>1, <1>2

LEMMA OrderRest ==
  ASSUME PromptInv, TurnInv, OrderInv,
         \/ CallTryLinkBuffer \/ MaskIrq \/ TestLink \/ UnmaskIrq \/ CheckEnabled \/ Trigger
         \/ CallGetStatus \/ WasEnabled \/ DisableForStatus \/ ReadCMAR \/ ReadCNDTR
         \/ ReadCNDTR0 \/ RestoreEnabled \/ ReturnPointer \/ ComparePointer \/ WaitDone \/ WaitTimeout
         \/ CallUnlink
  PROVE  OrderInv'
<1>1. ThreadTypes /\ CallInv
  BY DEF PromptInv, TypeOK
<1>2. pc # "clear" /\ UNCHANGED <<CNDTR, cur, link, stream>>
  BY DEF CallTryLinkBuffer, MaskIrq, TestLink, UnmaskIrq, CheckEnabled, Trigger, CallGetStatus, WasEnabled,
     DisableForStatus, ReadCMAR, ReadCNDTR, ReadCNDTR0, RestoreEnabled, ReturnPointer, ComparePointer, WaitDone,
     WaitTimeout, CallUnlink, Goto, Call, hw
<1>3. Left' = Left
  <2>1. CASE DisableForStatus
    <3>1. pc = "disable" /\ pc' = "cmar" /\ CCR' = CCR \ {"EN"} /\ status' = status /\ CNDTR' = CNDTR
      BY <2>1 DEF DisableForStatus, Goto
    <3>2. IF status.was THEN IsEnabled \/ CNDTR = 0 ELSE ~IsEnabled
      BY <3>1 DEF TurnInv
    <3> QED
      BY <3>1, <3>2 DEF Left, IsEnabled, Disabling
  <2>2. CASE RestoreEnabled
    <3>1. /\ pc = "restore" /\ pc' \in {"return", "compare"} /\ status' = status /\ CNDTR' = CNDTR
          /\ CCR' = IF status.was THEN CCR \cup {"EN"} ELSE CCR
      BY <2>2 DEF RestoreEnabled, Goto
    <3>2. ~IsEnabled
      BY <1>1, <3>1 DEF CallInv, Disabling
    <3> QED
      BY <3>1, <3>2 DEF Left, IsEnabled, Disabling
  <2>3. CASE ReadCMAR \/ ReadCNDTR \/ ReadCNDTR0
    <3>1. /\ pc \in Disabling /\ pc' \in Disabling /\ CCR' = CCR /\ CNDTR' = CNDTR
          /\ status'.was = status.was
      BY <1>1, <2>3 DEF ReadCMAR, ReadCNDTR, ReadCNDTR0, Goto, hw, Disabling, ThreadTypes
    <3> QED
      BY <3>1 DEF Left, IsEnabled
  <2>4. CASE ~DisableForStatus /\ ~RestoreEnabled /\ ~(ReadCMAR \/ ReadCNDTR \/ ReadCNDTR0)
    <3>1. pc \notin Disabling /\ pc' \notin Disabling /\ CCR' = CCR /\ CNDTR' = CNDTR
      BY <2>4 DEF CallTryLinkBuffer, MaskIrq, TestLink, UnmaskIrq, CheckEnabled, Trigger, CallGetStatus,
         WasEnabled, ReturnPointer, ComparePointer, WaitDone, WaitTimeout, CallUnlink, Goto, Call, hw, Disabling
    <3> QED
      BY <3>1 DEF Left, IsEnabled
  <2> QED
    BY <2>1, <2>2, <2>3, <2>4
<1>4. Linked' = Linked
  BY <1>2 DEF Linked
<1> HIDE DEF Left, Linked
<1> QED
  BY <1>2, <1>3, <1>4 DEF OrderInv, stream

LEMMA DropNext ==
  ASSUME ~Latency
  PROVE  DropInv /\ [Next]_vars => DropInv'
<1> SUFFICES ASSUME DropInv, [Next]_vars PROVE DropInv'
  OBVIOUS
<1>1. PromptInv /\ TurnInv /\ OrderInv
  BY DEF DropInv
<1>2. PromptInv'
  BY <1>1, PromptNext
<1>3. CASE UNCHANGED vars
  <2>1. UNCHANGED <<CCR, CNDTR, cur, tcif, pend, link, pc, arg, status, accepted, touched>>
    BY <1>3 DEF vars, hw, irq, thread, stream
  <2>2. Left' = Left /\ Linked' = Linked
    BY <2>1 DEF Left, Linked, IsEnabled
  <2>3. TurnInv'
    BY <1>1, <2>1 DEF TurnInv, IsEnabled, Adjacent
  <2> HIDE DEF Left, Linked
  <2>4. OrderInv'
    BY <1>1, <2>1, <2>2 DEF OrderInv
  <2> QED
    BY <1>2, <2>3, <2>4 DEF DropInv
<1>4. CASE Next
  <2>1. TurnInv'
    BY <1>1, <1>4, TurnChip, TurnLink, TurnRest DEF Next, Continue
  <2>2. OrderInv'
    BY <1>1, <1>4, OrderTransfer, OrderHandler, OrderFill, OrderExtend, OrderUnlink, OrderRest DEF Next, Continue
  <2> QED
    BY <1>2, <2>1, <2>2 DEF DropInv
<1> QED
  BY <1>3, <1>4

LEMMA DropStep ==
  ASSUME DropInv, [Next]_vars
  PROVE  [Stream!Next]_Stream!vars
<1> USE DEF Stream!Next, Stream!vars
<1>1. PromptInv /\ TurnInv /\ OrderInv /\ TypeOK
  BY DEF DropInv, PromptInv
<1>2. CASE Transfer
  BY <1>1, <1>2, TouchDue DEF Transfer, Stream!Touch
<1>3. CASE FillLink \/ ExtendLink
  <2>1. arg \in Spans
    BY <1>1, <1>3 DEF FillLink, ExtendLink, Goto, TurnInv
  <2> QED
    BY <1>1, <1>3, <2>1, AcceptStep
<1>4. CASE UnlinkClear
  BY <1>4 DEF UnlinkClear, Stream!Drop
<1>5. CASE ~Transfer /\ ~FillLink /\ ~ExtendLink /\ ~UnlinkClear
  <2>1. UNCHANGED stream
    BY <1>5 DEF Next, Continue, vars, stream, LinkHandler, CallTryLinkBuffer, MaskIrq,
      TestLink, UnmaskIrq, CheckEnabled, Trigger, CallGetStatus, WasEnabled,
      DisableForStatus, ReadCMAR, ReadCNDTR, ReadCNDTR0, RestoreEnabled, ReturnPointer,
      ComparePointer, WaitDone, WaitTimeout, CallUnlink, UnlinkDisable
  <2> QED
    BY <2>1 DEF stream
<1> QED
  BY <1>2, <1>3, <1>4, <1>5

\* DMALink implements BufferStream with Unlink as well, which takes back what was not moved
\* (DMA.cpp:150-154): nothing stale is moved behind it, and what is linked next starts with a
\* count of its own, for any calls if the interrupt is taken before the next instruction.
THEOREM UnlinkRefinesStream ==
  ASSUME ~Latency
  PROVE  Spec => RefinesStream
<1>1. Init => Stream!Init
  BY DEF Init, Stream!Init
<1>2. Init => DropInv
  BY PromptInit, DropInit DEF DropInv
<1>3. DropInv /\ [Next]_vars => [Stream!Next]_Stream!vars
  BY DropStep
<1> QED
  BY <1>1, <1>2, <1>3, DropNext, PTL DEF Spec, RefinesStream, Stream!Spec
-----------------------------------------------------------------------------
\* What BufferStream promises to whoever uses an implementation of it: the
\* locations visited are an initial part of the locations handed over.
THEOREM StreamInOrder == Stream!Spec => [](Stream!TypeOK /\ Stream!InOrder)
<1>1. Stream!Init => Stream!TypeOK /\ Stream!InOrder
  BY DEF Stream!Init, Stream!TypeOK, Stream!InOrder
<1>2. Stream!TypeOK /\ Stream!InOrder /\ [Stream!Next]_Stream!vars => (Stream!TypeOK /\ Stream!InOrder)'
  <2> SUFFICES ASSUME Stream!TypeOK, Stream!InOrder, [Stream!Next]_Stream!vars
               PROVE  Stream!TypeOK' /\ Stream!InOrder'
    OBVIOUS
  <2>1. CASE Stream!Accept
    <3>1. PICK a \in {s.start : s \in Spans}, n \in 1..MaxTransfer : accepted' = accepted \o Stream!Bytes(a, n)
      BY <2>1 DEF Stream!Accept
    <3>2. a \in Nat /\ n \in Nat
      BY DMALinkAssumption DEF Span
    <3>3. Stream!Bytes(a, n) \in Seq(Nat)
      BY <3>2, BytesFacts
    <3>4. /\ accepted \in Seq(Nat) /\ touched \in Seq(Nat) /\ touched' = touched
          /\ Len(touched) <= Len(accepted) /\ \A i \in 1..Len(touched) : touched[i] = accepted[i]
      BY <2>1 DEF Stream!Accept, Stream!TypeOK, Stream!InOrder
    <3>5. /\ accepted' \in Seq(Nat) /\ Len(accepted') >= Len(accepted)
          /\ \A i \in 1..Len(accepted) : accepted'[i] = accepted[i]
      BY <3>1, <3>3, <3>4, ConcatFacts
    <3> QED
      BY <3>4, <3>5 DEF Stream!TypeOK, Stream!InOrder
  <2>2. CASE Stream!Touch
    BY <2>2 DEF Stream!Touch, Stream!TypeOK, Stream!InOrder
  <2>3. CASE Stream!Drop
    BY <2>3 DEF Stream!Drop, Stream!TypeOK, Stream!InOrder
  <2>4. CASE UNCHANGED Stream!vars
    BY <2>4 DEF Stream!vars, Stream!TypeOK, Stream!InOrder
  <2> QED
    BY <2>1, <2>2, <2>3, <2>4 DEF Stream!Next
<1> QED
  BY <1>1, <1>2, PTL DEF Stream!Spec

\* So the bytes moved are an initial part of the bytes linked: without calls of Unlink for
\* any latency of the interrupt, and with them if it is taken at once.
THEOREM MovedInOrder ==
  ASSUME "Unlink" \notin Ops \/ ~Latency
  PROVE  Spec => []Stream!InOrder
<1>1. CASE "Unlink" \notin Ops
  BY <1>1, DMALinkRefinesStream, StreamInOrder, PTL DEF RefinesStream
<1>2. CASE ~Latency
  BY <1>2, UnlinkRefinesStream, StreamInOrder, PTL DEF RefinesStream
<1> QED
  BY <1>1, <1>2
=============================================================================
