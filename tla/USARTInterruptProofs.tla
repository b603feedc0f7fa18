------------------------ MODULE USARTInterruptProofs ------------------------
(* The interrupt-driven USART for any buffers, with or without overruns and  *)
(* interrupt latency.                                                        *)
EXTENDS USARTInterrupt, SequenceTheorems, TLAPS

\* The bytes of the second slot, none when it is empty.
Second(b) == IF b.p2 = NULL THEN 0 ELSE b.e2 - b.p2

\* A Buf between what was accepted, acc, and what is done, tou: the rest of the
\* first slot, then the second slot, which is used only behind the first.
Fits(b, acc, tou) ==
  /\ b \in BufType /\ b.p <= b.e /\ b.p2 <= b.e2
  /\ b.p = b.e => b.p2 = NULL
  /\ acc \in Seq(Nat) /\ tou \in Seq(Nat)
  /\ Len(acc) = Len(tou) + (b.e - b.p) + Second(b)
  /\ \A i \in 1..Len(tou) : acc[i] = tou[i]
  /\ \A i \in 1..(b.e - b.p) : acc[Len(tou) + i] = b.p + (i - 1)
  /\ \A i \in 1..Second(b) : acc[Len(tou) + (b.e - b.p) + i] = b.p2 + (i - 1)

\* The steps of AddBuffer and Reset that run with the interrupt masked.
Masked == {"test", "first", "second", "extend", "enable", "unmask", "reset"}

BranchInv ==
  /\ pc \in Masked => masked
  /\ pc \in {"mask", "test", "first", "second", "extend"} => arg \in Spans
  /\ pc = "first" => buf[dir].p = buf[dir].e
  /\ pc = "second" => buf[dir].p # buf[dir].e /\ buf[dir].p2 = NULL
  /\ pc = "extend" => /\ buf[dir].p # buf[dir].e /\ buf[dir].p2 # NULL
                      /\ buf[dir].e2 = arg.start

\* Something to send: the interrupt is enabled, or AddBuffer is about to do it.
AwakeInv == buf.tx.p # buf.tx.e => "TXEIE" \in CR1 \/ (pc = "enable" /\ dir = "tx")

StreamInv == \A d \in Directions : Fits(buf[d], accepted[d], touched[d])

IInv == TypeOK /\ BranchInv /\ AwakeInv /\ StreamInv
-----------------------------------------------------------------------------
(* What the operators on a Buf do.                                           *)

LEMMA BytesFacts ==
  ASSUME NEW a \in Nat, NEW n \in Nat
  PROVE  /\ Tx!Bytes(a, n) \in Seq(Nat)
         /\ Len(Tx!Bytes(a, n)) = n
         /\ \A i \in 1..n : Tx!Bytes(a, n)[i] = a + (i - 1)
  BY DEF Tx!Bytes

LEMMA ConcatFacts ==
  ASSUME NEW s \in Seq(Nat), NEW t \in Seq(Nat)
  PROVE  /\ s \o t \in Seq(Nat)
         /\ Len(s \o t) = Len(s) + Len(t)
         /\ \A i \in 1..Len(s) : (s \o t)[i] = s[i]
         /\ \A i \in 1..Len(t) : (s \o t)[Len(s) + i] = t[i]
  OBVIOUS

\* A byte of the first slot is the next one accepted and not done, and doing it
\* leaves the rest.
LEMMA AdvanceFits ==
  ASSUME NEW b, NEW acc, NEW tou, Fits(b, acc, tou), b.p # b.e
  PROVE  /\ Fits(Advance(b), acc, Append(tou, b.p))
         /\ Len(tou) < Len(acc) /\ acc[Len(tou) + 1] = b.p
<1> DEFINE c == Advance(b)
           t == Append(tou, b.p)
<1>0. acc \in Seq(Nat) /\ tou \in Seq(Nat) /\ b \in BufType
  BY DEF Fits
<1>1. /\ b.p \in Nat /\ b.e \in Nat /\ b.p2 \in Nat /\ b.e2 \in Nat
      /\ b.p < b.e /\ b.p2 <= b.e2
      /\ Len(tou) \in Nat /\ Len(acc) \in Nat
  BY <1>0 DEF Fits, BufType
<1>2. Second(b) \in Nat
  BY <1>1 DEF Second, NULL
<1>3. /\ Len(acc) = Len(tou) + (b.e - b.p) + Second(b)
      /\ \A i \in 1..Len(tou) : acc[i] = tou[i]
      /\ \A i \in 1..(b.e - b.p) : acc[Len(tou) + i] = b.p + (i - 1)
      /\ \A i \in 1..Second(b) : acc[Len(tou) + (b.e - b.p) + i] = b.p2 + (i - 1)
  BY DEF Fits
<1>4. Len(tou) < Len(acc)
  BY <1>1, <1>2, <1>3
<1>5. acc[Len(tou) + 1] = b.p
  <2>1. 1 \in 1..(b.e - b.p)
    BY <1>1
  <2> QED
    BY <1>1, <1>3, <2>1
<1>6. /\ t \in Seq(Nat)
      /\ \A i \in 1..Len(tou) : t[i] = tou[i]
      /\ t[Len(tou) + 1] = b.p
  BY <1>0, <1>1
<1>10. Len(t) = Len(tou) + 1
  BY <1>0, <1>1
<1> HIDE DEF t
<1>7. ASSUME NEW i \in 1..Len(t) PROVE acc[i] = t[i]
  <2>1. i \in 1..Len(tou) \/ i = Len(tou) + 1
    BY <1>1, <1>10
  <2> QED
    BY <1>3, <1>5, <1>6, <2>1
<1>8. CASE b.p + 1 = b.e /\ b.p2 # NULL
  <2>1. c = [p |-> b.p2, e |-> b.e2, p2 |-> NULL, e2 |-> NULL]
    BY <1>8 DEF Advance
  <2>2. c \in BufType /\ c.p = b.p2 /\ c.e = b.e2 /\ c.p2 = NULL /\ c.e2 = NULL
    BY <1>0, <1>1, <2>1 DEF BufType, NULL
  <2>3. Second(c) = 0 /\ Second(b) = b.e2 - b.p2
    BY <1>8, <2>2 DEF Second
  <2> HIDE DEF c
  <2>4. Len(acc) = Len(t) + (c.e - c.p) + Second(c)
    BY <1>1, <1>3, <1>8, <1>10, <2>2, <2>3
  <2>5. ASSUME NEW i \in 1..(c.e - c.p) PROVE acc[Len(t) + i] = c.p + (i - 1)
    <3>1. i \in 1..Second(b) /\ Len(t) + i = Len(tou) + (b.e - b.p) + i
      BY <1>1, <1>8, <1>10, <2>2, <2>3
    <3> QED
      BY <1>3, <2>2, <3>1
  <2>6. Fits(c, acc, t)
    BY <1>0, <1>1, <1>6, <1>7, <2>2, <2>3, <2>4, <2>5 DEF Fits, NULL
  <2> QED
    BY <1>4, <1>5, <2>6 DEF c, t
<1>9. CASE ~(b.p + 1 = b.e /\ b.p2 # NULL)
  <2>1. c = [b EXCEPT !.p = b.p + 1]
    BY <1>9 DEF Advance
  <2>2. c \in BufType /\ c.p = b.p + 1 /\ c.e = b.e /\ c.p2 = b.p2 /\ c.e2 = b.e2
    BY <1>0, <1>1, <2>1 DEF BufType
  <2>3. Second(c) = Second(b)
    BY <2>2 DEF Second
  <2> HIDE DEF c
  <2>4. Len(acc) = Len(t) + (c.e - c.p) + Second(c)
    <3>1. Len(acc) = Len(tou) + (b.e - b.p) + Second(b)
      BY <1>3
    <3> QED
      BY <1>1, <1>2, <1>10, <2>2, <2>3, <3>1
  <2>5. ASSUME NEW i \in 1..(c.e - c.p) PROVE acc[Len(t) + i] = c.p + (i - 1)
    <3>1. i + 1 \in 1..(b.e - b.p) /\ Len(t) + i = Len(tou) + (i + 1)
      BY <1>1, <1>10, <2>2
    <3>2. acc[Len(tou) + (i + 1)] = b.p + ((i + 1) - 1)
      BY <1>3, <3>1
    <3> QED
      BY <1>1, <2>2, <3>1, <3>2
  <2>6. ASSUME NEW i \in 1..Second(c)
        PROVE  acc[Len(t) + (c.e - c.p) + i] = c.p2 + (i - 1)
    <3>1. i \in 1..Second(b)
      BY <2>3
    <3>2. c.e - c.p \in Int /\ Len(t) + (c.e - c.p) = Len(tou) + (b.e - b.p)
      BY <1>1, <1>10, <2>2
    <3> QED
      BY <1>3, <2>2, <3>1, <3>2
  <2>7. c.p <= c.e /\ (c.p = c.e => c.p2 = NULL)
    BY <1>1, <1>9, <2>2
  <2>8. Fits(c, acc, t)
    BY <1>0, <1>1, <1>6, <1>7, <2>2, <2>4, <2>5, <2>6, <2>7 DEF Fits
  <2> QED
    BY <1>4, <1>5, <2>8 DEF c, t
<1> QED
  BY <1>8, <1>9

\* Each branch of AddBuffer puts the new bytes behind those accepted before.
LEMMA AddedFits ==
  ASSUME NEW b, NEW acc, NEW tou, Fits(b, acc, tou), arg \in Span,
         NEW where \in {"first", "second", "extend"},
         where = "first" => b.p = b.e,
         where = "second" => b.p # b.e /\ b.p2 = NULL,
         where = "extend" => b.p # b.e /\ b.p2 # NULL /\ b.e2 = arg.start
  PROVE  Fits(Added(b, where), acc \o Tx!Bytes(arg.start, arg.len), tou)
<1> DEFINE c == Added(b, where)
           x == Tx!Bytes(arg.start, arg.len)
           a == acc \o x
           end == arg.start + arg.len
<1>0. acc \in Seq(Nat) /\ tou \in Seq(Nat) /\ b \in BufType
  BY DEF Fits
<1>1. /\ b.p \in Nat /\ b.e \in Nat /\ b.p2 \in Nat /\ b.e2 \in Nat
      /\ b.p <= b.e /\ b.p2 <= b.e2
      /\ Len(tou) \in Nat /\ Len(acc) \in Nat
  BY <1>0 DEF Fits, BufType
<1>2. Second(b) \in Nat
  BY <1>1 DEF Second, NULL
<1>3. /\ Len(acc) = Len(tou) + (b.e - b.p) + Second(b)
      /\ \A i \in 1..Len(tou) : acc[i] = tou[i]
      /\ \A i \in 1..(b.e - b.p) : acc[Len(tou) + i] = b.p + (i - 1)
      /\ \A i \in 1..Second(b) : acc[Len(tou) + (b.e - b.p) + i] = b.p2 + (i - 1)
      /\ b.p = b.e => b.p2 = NULL
  BY DEF Fits
<1>4. arg.start \in Nat /\ arg.start # NULL /\ arg.len \in Nat /\ end \in Nat
  BY USARTAssumption DEF Span, NULL
<1>5. /\ x \in Seq(Nat) /\ Len(x) = arg.len
      /\ \A i \in 1..arg.len : x[i] = arg.start + (i - 1)
  BY <1>4, BytesFacts
<1> HIDE DEF x
<1>6. /\ a \in Seq(Nat) /\ Len(a) = Len(acc) + arg.len
      /\ \A i \in 1..Len(acc) : a[i] = acc[i]
      /\ \A i \in 1..arg.len : a[Len(acc) + i] = arg.start + (i - 1)
  <2>1. x \in Seq(Nat)
    BY <1>5
  <2>2. /\ a \in Seq(Nat) /\ Len(a) = Len(acc) + Len(x)
        /\ \A i \in 1..Len(acc) : a[i] = acc[i]
        /\ \A i \in 1..Len(x) : a[Len(acc) + i] = x[i]
    BY <1>0, <2>1, ConcatFacts
  <2> HIDE DEF a
  <2> QED
    BY <1>5, <2>2
<1> HIDE DEF a
<1>7. ASSUME NEW i \in 1..Len(tou) PROVE a[i] = tou[i]
  BY <1>1, <1>2, <1>3, <1>6
<1>8. ASSUME NEW i \in 1..(b.e - b.p) PROVE a[Len(tou) + i] = b.p + (i - 1)
  <2>1. Len(tou) + i \in 1..Len(acc)
    BY <1>1, <1>2, <1>3
  <2> QED
    BY <1>3, <1>6, <2>1
<1>9. CASE where = "first"
  <2>1. c = [b EXCEPT !.p = arg.start, !.e = end] /\ b.p = b.e /\ b.p2 = NULL
    BY <1>3, <1>9 DEF Added
  <2>2. c \in BufType /\ c.p = arg.start /\ c.e = end /\ c.p2 = NULL /\ c.e2 = b.e2
    BY <1>0, <1>4, <2>1 DEF BufType
  <2>3. Second(c) = 0 /\ Second(b) = 0
    BY <2>1, <2>2 DEF Second
  <2> HIDE DEF c
  <2>4. Len(acc) = Len(tou) /\ c.e - c.p = arg.len
    BY <1>1, <1>3, <1>4, <2>1, <2>2, <2>3
  <2>5. Len(a) = Len(tou) + (c.e - c.p) + Second(c)
    BY <1>1, <1>4, <1>6, <2>3, <2>4
  <2>6. ASSUME NEW i \in 1..(c.e - c.p) PROVE a[Len(tou) + i] = c.p + (i - 1)
    BY <1>6, <2>2, <2>4
  <2>7. c.p <= c.e /\ c.p2 <= c.e2
    BY <1>1, <1>4, <2>2 DEF NULL
  <2>8. Fits(c, a, tou)
    BY <1>0, <1>6, <1>7, <2>2, <2>3, <2>5, <2>6, <2>7 DEF Fits
  <2> QED
    BY <2>8 DEF a, c, x
<1>10. CASE where = "second"
  <2>1. c = [b EXCEPT !.p2 = arg.start, !.e2 = end] /\ b.p # b.e /\ b.p2 = NULL
    BY <1>10 DEF Added
  <2>2. c \in BufType /\ c.p = b.p /\ c.e = b.e /\ c.p2 = arg.start /\ c.e2 = end
    BY <1>0, <1>4, <2>1 DEF BufType
  <2>3. Second(c) = arg.len /\ Second(b) = 0
    BY <1>4, <2>1, <2>2 DEF Second
  <2> HIDE DEF c
  <2>4. Len(acc) = Len(tou) + (c.e - c.p)
    BY <1>1, <1>3, <2>2, <2>3
  <2>5. Len(a) = Len(tou) + (c.e - c.p) + Second(c)
    BY <1>1, <1>4, <1>6, <2>3, <2>4
  <2>6. ASSUME NEW i \in 1..Second(c)
        PROVE  a[Len(tou) + (c.e - c.p) + i] = c.p2 + (i - 1)
    BY <1>6, <2>2, <2>3, <2>4
  <2>7. c.p <= c.e /\ c.p2 <= c.e2 /\ c.p # c.e
    BY <1>1, <1>4, <2>1, <2>2
  <2>8. Fits(c, a, tou)
    BY <1>0, <1>6, <1>7, <1>8, <2>2, <2>5, <2>6, <2>7 DEF Fits
  <2> QED
    BY <2>8 DEF a, c, x
<1>11. CASE where = "extend"
  <2>1. c = [b EXCEPT !.e2 = end] /\ b.p # b.e /\ b.p2 # NULL /\ b.e2 = arg.start
    BY <1>11 DEF Added
  <2>2. c \in BufType /\ c.p = b.p /\ c.e = b.e /\ c.p2 = b.p2 /\ c.e2 = b.e2 + arg.len
    BY <1>0, <1>4, <2>1 DEF BufType
  <2>3. Second(b) = b.e2 - b.p2 /\ Second(c) = Second(b) + arg.len
    BY <1>1, <1>4, <2>1, <2>2 DEF Second
  <2> HIDE DEF c
  <2>4. Len(acc) = Len(tou) + (c.e - c.p) + Second(b)
    BY <1>3, <2>2
  <2>5. Len(a) = Len(tou) + (c.e - c.p) + Second(c)
    <3>1. Len(a) = Len(acc) + arg.len
      BY <1>6
    <3>2. c.e - c.p \in Int
      BY <1>1, <2>2
    <3> QED
      BY <1>1, <1>2, <1>4, <2>3, <2>4, <3>1, <3>2
  <2>6. ASSUME NEW i \in 1..Second(c)
        PROVE  a[Len(tou) + (c.e - c.p) + i] = c.p2 + (i - 1)
    <3>1. CASE i \in 1..Second(b)
      <4>1. Len(tou) + (c.e - c.p) + i \in 1..Len(acc)
        BY <1>1, <1>2, <2>2, <2>4, <3>1
      <4> QED
        BY <1>3, <1>6, <2>2, <3>1, <4>1
    <3>2. CASE i \notin 1..Second(b)
      <4>1. i - Second(b) \in 1..arg.len
        BY <1>2, <1>4, <2>3, <3>2
      <4>2. Len(tou) + (c.e - c.p) + i = Len(acc) + (i - Second(b))
        BY <1>1, <1>2, <2>2, <2>4, <4>1
      <4>3. a[Len(acc) + (i - Second(b))] = arg.start + ((i - Second(b)) - 1)
        BY <1>6, <4>1
      <4>4. arg.start = c.p2 + Second(b)
        BY <1>1, <2>1, <2>2, <2>3
      <4>5. arg.start + ((i - Second(b)) - 1) = c.p2 + (i - 1)
        BY <1>1, <1>2, <1>4, <2>2, <2>3, <4>4
      <4> QED
        BY <4>2, <4>3, <4>5
    <3> QED
      BY <3>1, <3>2
  <2>7. c.p <= c.e /\ c.p2 <= c.e2 /\ c.p # c.e
    BY <1>1, <1>4, <2>1, <2>2
  <2>8. Fits(c, a, tou)
    BY <1>0, <1>6, <1>7, <1>8, <2>2, <2>5, <2>6, <2>7 DEF Fits
  <2> QED
    BY <2>8 DEF a, c, x
<1> QED
  BY <1>9, <1>10, <1>11

\* An empty Buf fits whatever is done, and one that is used up is all done.
LEMMA EmptyFits ==
  ASSUME NEW tou \in Seq(Nat)
  PROVE  Fits(EmptyBuf, tou, tou)
  BY DEF Fits, EmptyBuf, BufType, Second, NULL

LEMMA UsedUp ==
  ASSUME NEW b, NEW acc, NEW tou, Fits(b, acc, tou)
  PROVE  b.p = b.e <=> acc = tou
<1>0. acc \in Seq(Nat) /\ tou \in Seq(Nat) /\ b \in BufType
  BY DEF Fits
<1>1. /\ b.p \in Nat /\ b.e \in Nat /\ b.p2 \in Nat /\ b.e2 \in Nat
      /\ b.p <= b.e /\ b.p2 <= b.e2
      /\ Len(tou) \in Nat /\ Len(acc) \in Nat
  BY <1>0 DEF Fits, BufType
<1>2. Second(b) \in Nat /\ (b.p = b.e => Second(b) = 0)
  BY <1>1 DEF Fits, Second, NULL
<1>3. /\ Len(acc) = Len(tou) + (b.e - b.p) + Second(b)
      /\ \A i \in 1..Len(tou) : acc[i] = tou[i]
  BY DEF Fits
<1>4. ASSUME b.p = b.e PROVE acc = tou
  <2>1. Len(acc) = Len(tou)
    BY <1>1, <1>2, <1>3, <1>4
  <2> QED
    BY <1>0, <1>3, <2>1, SeqEqual
<1>5. ASSUME acc = tou PROVE b.p = b.e
  <2>1. Len(acc) = Len(tou)
    BY <1>5
  <2> QED
    BY <1>1, <1>2, <1>3, <2>1
<1> QED
  BY <1>4, <1>5
-----------------------------------------------------------------------------
(* The invariant is inductive: one lemma per action.                         *)

LEMMA PairType ==
  ASSUME NEW S, NEW v \in S
  PROVE  [tx |-> v, rx |-> v] \in [Directions -> S]
BY DEF Directions

LEMMA InitInv ==
  ASSUME Init
  PROVE  IInv
<1>10. <<>> \in Seq(Nat)
  BY EmptySeq
<1>0. EmptyBuf \in BufType /\ EmptyBuf.p = EmptyBuf.e /\ EmptyBuf.p2 = EmptyBuf.e2
  BY DEF EmptyBuf, BufType, NULL
<1>1. TypeOK
  <2>1. buf.tx = EmptyBuf /\ buf.rx = EmptyBuf /\ buf \in [Directions -> BufType]
    BY <1>0 DEF Init, Directions
  <2>2. \A d \in Directions : buf[d].p <= buf[d].e /\ buf[d].p2 <= buf[d].e2
    BY <1>0, <2>1 DEF Directions, BufType
  <2>3. accepted \in [Directions -> Seq(Nat)] /\ touched \in [Directions -> Seq(Nat)]
    BY <1>10, PairType DEF Init
  <2>4. arg \in Span
    BY USARTAssumption DEF Init, NoSpan, Span, NULL
  <2> QED
    BY <2>1, <2>2, <2>3, <2>4 DEF Init, TypeOK, Directions, NULL
<1>2. BranchInv
  BY DEF Init, BranchInv, Masked
<1>3. AwakeInv
  BY DEF Init, AwakeInv, EmptyBuf
<1>4. StreamInv
  <2>1. Fits(EmptyBuf, <<>>, <<>>)
    BY <1>10, EmptyFits
  <2> QED
    BY <2>1 DEF Init, StreamInv, Directions
<1> QED
  BY <1>1, <1>2, <1>3, <1>4 DEF IInv

\* A byte moved in direction d keeps the stream.
LEMMA MoveFits ==
  ASSUME IInv, NEW d \in Directions, buf[d].p # buf[d].e, Move(d), accepted' = accepted
  PROVE  /\ StreamInv'
         /\ buf' \in [Directions -> BufType]
         /\ \A o \in Directions : buf'[o].p <= buf'[o].e /\ buf'[o].p2 <= buf'[o].e2
         /\ touched' \in [Directions -> Seq(Nat)]
<1> DEFINE c == Advance(buf[d])
           t == Append(touched[d], buf[d].p)
<1>1. Fits(c, accepted[d], t)
  BY AdvanceFits DEF IInv, StreamInv
<1>2. /\ buf' = [buf EXCEPT ![d] = c] /\ touched' = [touched EXCEPT ![d] = t]
  BY DEF Move
<1> HIDE DEF c, t
<1>3. /\ buf \in [Directions -> BufType] /\ touched \in [Directions -> Seq(Nat)]
  BY DEF IInv, TypeOK
<1>4. c \in BufType /\ t \in Seq(Nat)
  BY <1>1 DEF Fits
<1>5. ASSUME NEW o \in Directions PROVE Fits(buf'[o], accepted'[o], touched'[o])
  <2>1. CASE o = d
    BY <1>1, <1>2, <1>3, <2>1
  <2>2. CASE o # d
    BY <1>2, <1>3, <2>2 DEF IInv, StreamInv
  <2> QED
    BY <2>1, <2>2
<1>6. StreamInv'
  BY <1>5 DEF StreamInv
<1>7. buf' \in [Directions -> BufType] /\ touched' \in [Directions -> Seq(Nat)]
  BY <1>2, <1>3, <1>4
<1> QED
  BY <1>5, <1>6, <1>7 DEF Fits

LEMMA ShiftInv ==
  ASSUME IInv, Shift
  PROVE  IInv'
BY DEF IInv, TypeOK, BranchInv, AwakeInv, StreamInv, Shift, call, stream

LEMMA ReceiveInv ==
  ASSUME IInv, Receive
  PROVE  IInv'
BY USARTAssumption
   DEF IInv, TypeOK, BranchInv, AwakeInv, StreamInv, Receive, call, stream

LEMMA ReadDataInv ==
  ASSUME IInv, Handle(ReadData)
  PROVE  IInv'
<1>1. /\ ~masked /\ rxne' = FALSE
      /\ UNCHANGED <<CR1, txe, ore, masked, pc, dir, arg, current, accepted>>
  BY DEF Handle, ReadData, call
<1>2. CASE UNCHANGED <<buf, touched>>
  BY <1>1, <1>2 DEF IInv, TypeOK, BranchInv, AwakeInv, StreamInv
<1>3. CASE buf.rx.p # buf.rx.e /\ Move("rx")
  <2>1. /\ StreamInv'
        /\ buf' \in [Directions -> BufType]
        /\ \A o \in Directions : buf'[o].p <= buf'[o].e /\ buf'[o].p2 <= buf'[o].e2
        /\ touched' \in [Directions -> Seq(Nat)]
    BY <1>1, <1>3, MoveFits DEF Directions
  <2>2. TypeOK'
    BY <1>1, <2>1 DEF IInv, TypeOK
  <2>3. BranchInv'
    BY <1>1 DEF IInv, BranchInv, Masked
  <2>4. buf'.tx = buf.tx
    BY <1>3 DEF Move, IInv, TypeOK, Directions
  <2>5. AwakeInv'
    BY <1>1, <2>4 DEF IInv, AwakeInv
  <2> QED
    BY <2>1, <2>2, <2>3, <2>5 DEF IInv
<1> QED
  BY <1>2, <1>3 DEF Handle, ReadData

\* The transmitter's interrupt is given up only when the first slot is used up.
LEMMA WriteDataInv ==
  ASSUME IInv, Handle(WriteData)
  PROVE  IInv'
<1>1. ~masked /\ UNCHANGED <<rxne, ore, masked, pc, dir, arg, current, accepted>>
  BY DEF Handle, WriteData, call
<1>2. CASE buf.tx.p = buf.tx.e /\ CR1' = CR1 \ {"TXEIE"} /\ UNCHANGED <<txe, buf, touched>>
  BY <1>1, <1>2 DEF IInv, TypeOK, BranchInv, AwakeInv, StreamInv
<1>3. CASE buf.tx.p # buf.tx.e /\ Move("tx") /\ txe' = FALSE /\ UNCHANGED CR1
  <2>1. /\ StreamInv'
        /\ buf' \in [Directions -> BufType]
        /\ \A o \in Directions : buf'[o].p <= buf'[o].e /\ buf'[o].p2 <= buf'[o].e2
        /\ touched' \in [Directions -> Seq(Nat)]
    BY <1>1, <1>3, MoveFits DEF Directions
  <2>2. TypeOK'
    BY <1>1, <1>3, <2>1 DEF IInv, TypeOK
  <2>3. BranchInv'
    BY <1>1 DEF IInv, BranchInv, Masked
  <2>4. AwakeInv'
    BY <1>1, <1>3 DEF IInv, BranchInv, AwakeInv, Masked
  <2> QED
    BY <2>1, <2>2, <2>3, <2>4 DEF IInv
<1> QED
  BY <1>2, <1>3 DEF Handle, WriteData

LEMMA NoDataInv ==
  ASSUME IInv, Handle(NoData)
  PROVE  IInv'
BY DEF IInv, TypeOK, BranchInv, AwakeInv, StreamInv, Handle, NoData, call

LEMMA CallAddBufferInv ==
  ASSUME IInv, CallAddBuffer
  PROVE  IInv'
BY USARTAssumption
   DEF IInv, TypeOK, BranchInv, AwakeInv, StreamInv, CallAddBuffer, Goto, Masked,
       usart, stream

LEMMA CallResetInv ==
  ASSUME IInv, CallReset
  PROVE  IInv'
BY DEF IInv, TypeOK, BranchInv, AwakeInv, StreamInv, CallReset, Goto, Masked,
       usart, stream

LEMMA MaskInv ==
  ASSUME IInv, Mask
  PROVE  IInv'
BY DEF IInv, TypeOK, BranchInv, AwakeInv, StreamInv, Mask, Goto, Masked,
       usart, call, stream

\* The branch that is taken is the one its condition allows.
LEMMA TestInv ==
  ASSUME IInv, Test
  PROVE  IInv'
<1>1. /\ pc = "test" /\ masked
      /\ UNCHANGED <<CR1, txe, rxne, ore, masked, buf, dir, arg, current, accepted, touched>>
  BY DEF IInv, BranchInv, Test, Goto, Masked, usart, call, stream
<1>2. \/ pc' = "first" /\ buf[dir].p = buf[dir].e
      \/ pc' = "second" /\ buf[dir].p # buf[dir].e /\ buf[dir].p2 = NULL
      \/ /\ pc' = "extend" /\ buf[dir].p # buf[dir].e /\ buf[dir].p2 # NULL
         /\ buf[dir].e2 = arg.start
      \/ pc' = "unmask"
  BY DEF Test, Goto
<1>3. TypeOK'
  BY <1>1, <1>2 DEF IInv, TypeOK
<1>4. BranchInv'
  BY <1>1, <1>2 DEF IInv, BranchInv, Masked
<1>5. AwakeInv' /\ StreamInv'
  BY <1>1, <1>2 DEF IInv, AwakeInv, StreamInv
<1> QED
  BY <1>3, <1>4, <1>5 DEF IInv

LEMMA StoreInv ==
  ASSUME IInv, Store
  PROVE  IInv'
<1>1. PICK where \in {"first", "second", "extend"} :
        pc = where /\ pc' = "enable" /\ buf' = [buf EXCEPT ![dir] = Added(buf[dir], where)]
  BY DEF Store, Goto
<1> DEFINE c == Added(buf[dir], where)
           a == accepted[dir] \o Tx!Bytes(arg.start, arg.len)
<1>2. /\ buf' = [buf EXCEPT ![dir] = c] /\ accepted' = [accepted EXCEPT ![dir] = a]
      /\ UNCHANGED <<CR1, txe, rxne, ore, masked, dir, arg, current, touched>>
  BY <1>1 DEF Store, usart, call
<1>3. /\ buf \in [Directions -> BufType] /\ accepted \in [Directions -> Seq(Nat)]
      /\ dir \in Directions /\ arg \in Span
  BY DEF IInv, TypeOK
<1>4. Fits(c, a, touched[dir])
  <2>1. Fits(buf[dir], accepted[dir], touched[dir])
    BY <1>3 DEF IInv, StreamInv
  <2>2. /\ where = "first" => buf[dir].p = buf[dir].e
        /\ where = "second" => buf[dir].p # buf[dir].e /\ buf[dir].p2 = NULL
        /\ where = "extend" => /\ buf[dir].p # buf[dir].e /\ buf[dir].p2 # NULL
                               /\ buf[dir].e2 = arg.start
    BY <1>1 DEF IInv, BranchInv
  <2> QED
    BY <1>3, <2>1, <2>2, AddedFits
<1> HIDE DEF c, a
<1>5. ASSUME NEW o \in Directions PROVE Fits(buf'[o], accepted'[o], touched'[o])
  <2>1. CASE o = dir
    BY <1>2, <1>3, <1>4, <2>1
  <2>2. CASE o # dir
    BY <1>2, <1>3, <2>2 DEF IInv, StreamInv
  <2> QED
    BY <2>1, <2>2
<1>6. StreamInv'
  BY <1>5 DEF StreamInv
<1>7. TypeOK'
  <2>1. c \in BufType /\ a \in Seq(Nat)
    BY <1>4 DEF Fits
  <2>2. buf' \in [Directions -> BufType] /\ accepted' \in [Directions -> Seq(Nat)]
    BY <1>2, <1>3, <2>1
  <2>3. \A o \in Directions : buf'[o].p <= buf'[o].e /\ buf'[o].p2 <= buf'[o].e2
    BY <1>5 DEF Fits
  <2> QED
    BY <1>1, <1>2, <2>2, <2>3 DEF IInv, TypeOK
<1>8. BranchInv'
  BY <1>1, <1>2 DEF IInv, BranchInv, Masked
<1>9. AwakeInv'
  <2>1. CASE dir = "tx"
    BY <1>1, <1>2, <2>1 DEF AwakeInv
  <2>2. CASE dir # "tx"
    <3>1. buf'.tx = buf.tx
      BY <1>2, <1>3, <2>2 DEF Directions
    <3> QED
      BY <1>1, <1>2, <2>2, <3>1 DEF IInv, AwakeInv
  <2> QED
    BY <2>1, <2>2
<1> QED
  BY <1>6, <1>7, <1>8, <1>9 DEF IInv

LEMMA EnableInv ==
  ASSUME IInv, Enable
  PROVE  IInv'
BY DEF IInv, TypeOK, BranchInv, AwakeInv, StreamInv, Enable, Goto, Masked,
       Directions, call, stream

LEMMA ResetInv ==
  ASSUME IInv, Reset
  PROVE  IInv'
<1>1. /\ pc = "reset" /\ pc' = "unmask"
      /\ buf' = [buf EXCEPT ![dir] = EmptyBuf]
      /\ accepted' = [accepted EXCEPT ![dir] = touched[dir]]
      /\ UNCHANGED <<CR1, txe, rxne, ore, masked, dir, arg, current, touched>>
  BY DEF Reset, Goto, usart, call
<1>2. /\ buf \in [Directions -> BufType] /\ accepted \in [Directions -> Seq(Nat)]
      /\ touched \in [Directions -> Seq(Nat)] /\ dir \in Directions
  BY DEF IInv, TypeOK
<1>3. Fits(EmptyBuf, touched[dir], touched[dir])
  BY <1>2, EmptyFits
<1>4. EmptyBuf \in BufType
  BY DEF EmptyBuf, BufType, NULL
<1>5. ASSUME NEW o \in Directions PROVE Fits(buf'[o], accepted'[o], touched'[o])
  <2>1. CASE o = dir
    BY <1>1, <1>2, <1>3, <2>1
  <2>2. CASE o # dir
    BY <1>1, <1>2, <2>2 DEF IInv, StreamInv
  <2> QED
    BY <2>1, <2>2
<1>6. StreamInv'
  BY <1>5 DEF StreamInv
<1>7. TypeOK'
  <2>1. buf' \in [Directions -> BufType] /\ accepted' \in [Directions -> Seq(Nat)]
    BY <1>1, <1>2, <1>4
  <2>2. \A o \in Directions : buf'[o].p <= buf'[o].e /\ buf'[o].p2 <= buf'[o].e2
    BY <1>5 DEF Fits
  <2> QED
    BY <1>1, <2>1, <2>2 DEF IInv, TypeOK
<1>8. BranchInv'
  BY <1>1 DEF IInv, BranchInv, Masked
<1>9. AwakeInv'
  <2>1. buf'.tx = buf.tx \/ buf'.tx = EmptyBuf
    BY <1>1, <1>2 DEF Directions
  <2>2. EmptyBuf.p = EmptyBuf.e
    BY DEF EmptyBuf
  <2> QED
    BY <1>1, <2>1, <2>2 DEF IInv, AwakeInv
<1> QED
  BY <1>6, <1>7, <1>8, <1>9 DEF IInv

LEMMA UnmaskInv ==
  ASSUME IInv, Unmask
  PROVE  IInv'
BY DEF IInv, TypeOK, BranchInv, AwakeInv, StreamInv, Unmask, Goto, Masked,
       usart, call, stream

LEMMA CallWaitInv ==
  ASSUME IInv, CallWait
  PROVE  IInv'
<1>1. CallWait => current' \in Nat
  BY DEF IInv, TypeOK, BufType, CallWait
<1> QED
  BY <1>1 DEF IInv, TypeOK, BranchInv, AwakeInv, StreamInv, CallWait, Goto, Masked,
              usart, stream

LEMMA WaitEndsInv ==
  ASSUME IInv, WaitDone \/ WaitTimeout
  PROVE  IInv'
BY DEF IInv, TypeOK, BranchInv, AwakeInv, StreamInv, WaitDone, WaitTimeout, Goto,
       Masked, usart, call, stream

LEMMA StepInv ==
  ASSUME IInv, [Next]_vars
  PROVE  IInv'
<1>1. CASE Next
  <2>1. CASE Shift \/ Receive
    BY <2>1, ShiftInv, ReceiveInv
  <2>2. CASE Handle(ReadData) \/ Handle(WriteData) \/ Handle(NoData)
    BY <2>2, ReadDataInv, WriteDataInv, NoDataInv
  <2>3. CASE CallAddBuffer \/ CallReset \/ CallWait
    BY <2>3, CallAddBufferInv, CallResetInv, CallWaitInv
  <2>4. CASE Mask \/ Test \/ Store \/ Enable \/ Reset \/ Unmask
    BY <2>4, MaskInv, TestInv, StoreInv, EnableInv, ResetInv, UnmaskInv
  <2>5. CASE WaitDone \/ WaitTimeout
    BY <2>5, WaitEndsInv
  <2> QED
    BY <1>1, <2>1, <2>2, <2>3, <2>4, <2>5 DEF Next, Continue
<1>2. CASE UNCHANGED vars
  BY <1>2 DEF IInv, TypeOK, BranchInv, AwakeInv, StreamInv, vars, usart, call, stream
<1> QED
  BY <1>1, <1>2
-----------------------------------------------------------------------------
(* The theorems.                                                             *)

\* The strengthened invariant holds in every state: each Buf holds exactly what
\* AddBuffer took on and the handler did not get to, in the order it was added.
THEOREM USARTInvariant == Spec => []IInv
<1>1. Init => IInv
  BY InitInv
<1>2. IInv /\ [Next]_vars => IInv'
  BY StepInv
<1> QED
  BY <1>1, <1>2, PTL DEF Spec

\* The variables keep their types, and the handler's and AddBuffer's pointers never
\* pass the end of their buffer.
THEOREM USARTTypes == Spec => []TypeOK
<1>1. IInv => TypeOK
  BY DEF IInv
<1> QED
  BY <1>1, USARTInvariant, PTL

\* The handler finds the first slot used up (and drops a byte, or stops the
\* transmitter) only when nothing that AddBuffer took on is left.
THEOREM USARTUsedUp == Spec => []UsedUpMeansDone
<1>1. IInv => UsedUpMeansDone
  BY UsedUp DEF IInv, StreamInv, UsedUpMeansDone
<1> QED
  BY <1>1, USARTInvariant, PTL

\* The transmitter does not fall asleep: whenever its interrupt is not masked and
\* there is something to send, TXEIE is set, although the handler clears it.
THEOREM USARTStaysAwake == Spec => []TransmitterAwake
<1>1. IInv => TransmitterAwake
  BY DEF IInv, BranchInv, AwakeInv, TransmitterAwake, Masked
<1> QED
  BY <1>1, USARTInvariant, PTL

\* What a byte moved in direction d does to the stream of d: its next address.
LEMMA MoveStep ==
  ASSUME IInv, NEW d \in Directions, buf[d].p # buf[d].e, Move(d)
  PROVE  /\ Len(touched[d]) < Len(accepted[d])
         /\ touched'[d] = Append(touched[d], accepted[d][Len(touched[d]) + 1])
         /\ \A o \in Directions \ {d} : touched'[o] = touched[o]
<1>1. Fits(buf[d], accepted[d], touched[d]) /\ touched \in [Directions -> Seq(Nat)]
  BY DEF IInv, StreamInv, TypeOK
<1>2. /\ Len(touched[d]) < Len(accepted[d])
      /\ accepted[d][Len(touched[d]) + 1] = buf[d].p
  BY <1>1, AdvanceFits
<1>3. touched' = [touched EXCEPT ![d] = Append(touched[d], buf[d].p)]
  BY DEF Move
<1> QED
  BY <1>1, <1>2, <1>3

\* What AddBuffer does to the stream of its direction: a run of bytes is handed
\* over, or nothing if the buffer is empty.
LEMMA StoreStep ==
  ASSUME IInv, Store
  PROVE  /\ \/ accepted'[dir] = accepted[dir]
            \/ \E a \in Starts, n \in 1..MaxLength :
                 accepted'[dir] = accepted[dir] \o Tx!Bytes(a, n)
         /\ \A o \in Directions \ {dir} : accepted'[o] = accepted[o]
         /\ touched' = touched
<1> DEFINE x == Tx!Bytes(arg.start, arg.len)
<1>1. /\ accepted' = [accepted EXCEPT ![dir] = accepted[dir] \o x]
      /\ touched' = touched
  BY DEF Store
<1>2. /\ accepted \in [Directions -> Seq(Nat)] /\ dir \in Directions
      /\ accepted[dir] \in Seq(Nat) /\ arg \in Span
  BY DEF IInv, TypeOK
<1>3. arg.start \in Nat /\ arg.len \in Nat /\ arg.len \in 0..MaxLength /\ MaxLength \in Nat
  BY <1>2, USARTAssumption DEF Span
<1>4. arg.start \in Starts
  BY DEF IInv, BranchInv, Store, Goto, Starts
<1>5. x \in Seq(Nat) /\ Len(x) = arg.len
  BY <1>3, BytesFacts
<1>6. CASE arg.len = 0
  <2>1. x = <<>>
    BY <1>5, <1>6, EmptySeq
  <2>2. accepted[dir] \o x = accepted[dir]
    BY <1>2, <2>1, ConcatEmptySeq
  <2> HIDE DEF x
  <2> QED
    BY <1>1, <1>2, <2>2
<1>7. CASE arg.len # 0
  <2>1. arg.len \in 1..MaxLength
    BY <1>3, <1>7
  <2>2. accepted'[dir] = accepted[dir] \o Tx!Bytes(arg.start, arg.len)
    BY <1>1, <1>2
  <2> HIDE DEF x
  <2>3. \A o \in Directions \ {dir} : accepted'[o] = accepted[o]
    BY <1>1, <1>2
  <2> QED
    BY <1>1, <1>4, <2>1, <2>2, <2>3
<1> QED
  BY <1>6, <1>7

\* Every step is, for the stream of either direction, one of the abstract actions
\* or none.
LEMMA StreamStep ==
  ASSUME IInv, [Next]_vars, NEW d \in Directions
  PROVE  \/ accepted'[d] = accepted[d] /\ touched'[d] = touched[d]
         \/ /\ \E a \in Starts, n \in 1..MaxLength :
                 accepted'[d] = accepted[d] \o Tx!Bytes(a, n)
            /\ touched'[d] = touched[d]
         \/ /\ Len(touched[d]) < Len(accepted[d])
            /\ touched'[d] = Append(touched[d], accepted[d][Len(touched[d]) + 1])
            /\ accepted'[d] = accepted[d]
         \/ accepted'[d] = touched[d] /\ touched'[d] = touched[d]
<1>1. CASE UNCHANGED <<accepted, touched>>
  BY <1>1
<1>2. CASE Handle(ReadData) \/ Handle(WriteData)
  <2>1. accepted' = accepted
    BY <1>2 DEF Handle
  <2>2. \/ UNCHANGED touched
        \/ \E o \in Directions : buf[o].p # buf[o].e /\ Move(o)
    BY <1>2 DEF Handle, ReadData, WriteData, Directions
  <2> QED
    BY <2>1, <2>2, MoveStep
<1>3. CASE Store
  BY <1>3, StoreStep
<1>4. CASE Reset
  BY <1>4 DEF Reset, IInv, TypeOK
<1>5. CASE UNCHANGED vars
  BY <1>1, <1>5 DEF vars, stream
<1>6. CASE \/ Shift \/ Receive \/ Handle(NoData)
           \/ CallAddBuffer \/ CallReset \/ CallWait
           \/ Mask \/ Test \/ Enable \/ Unmask \/ WaitDone \/ WaitTimeout
  BY <1>1, <1>6 DEF Shift, Receive, Handle, NoData, CallAddBuffer, CallReset, CallWait,
                    Mask, Test, Enable, Unmask, WaitDone, WaitTimeout, stream
<1> QED
  BY <1>2, <1>3, <1>4, <1>5, <1>6 DEF Next, Continue

\* The transmitter's Buf implements the abstract stream: bytes are taken from where
\* AddBuffer was told, each once, in order, whatever the handler interrupts.
THEOREM USARTRefinesTx == Spec => RefinesTx
<1>1. Init => Tx!Init
  BY DEF Init, Tx!Init
<1>2. IInv /\ [Next]_vars => [Tx!Next]_(Tx!vars)
  <2> SUFFICES ASSUME IInv, [Next]_vars PROVE [Tx!Next]_(Tx!vars)
    OBVIOUS
  <2>1. "tx" \in Directions
    BY DEF Directions
  <2> QED
    BY <2>1, StreamStep DEF Tx!Next, Tx!Accept, Tx!Touch, Tx!Drop, Tx!vars
<1> QED
  BY <1>1, <1>2, USARTInvariant, PTL DEF Spec, RefinesTx, Tx!Spec

\* So does the receiver's Buf: what is stored goes where AddBuffer was told.
THEOREM USARTRefinesRx == Spec => RefinesRx
<1>1. Init => Rx!Init
  BY DEF Init, Rx!Init
<1>2. IInv /\ [Next]_vars => [Rx!Next]_(Rx!vars)
  <2> SUFFICES ASSUME IInv, [Next]_vars PROVE [Rx!Next]_(Rx!vars)
    OBVIOUS
  <2>1. "rx" \in Directions
    BY DEF Directions
  <2>2. \A a, n : Tx!Bytes(a, n) = Rx!Bytes(a, n)
    BY DEF Tx!Bytes, Rx!Bytes
  <2> QED
    BY <2>1, <2>2, StreamStep DEF Rx!Next, Rx!Accept, Rx!Touch, Rx!Drop, Rx!vars
<1> QED
  BY <1>1, <1>2, USARTInvariant, PTL DEF Spec, RefinesRx, Rx!Spec
=============================================================================
