------------------------------ MODULE I2CProofs ------------------------------
(* I2C for any devices, lengths and chunks: the lock, the bus and what has been
   on the wire agree, whatever fails and whenever a timeout comes.            *)
EXTENDS I2C, SequenceTheorems, TLAPS

InChunk == {"enable", "wait", "disable", "check"}

DeviceType == [pc : {"out", "acquire"} \cup {"chunk"} \cup InChunk, active : BOOLEAN, reloaded : BOOLEAN,
               wx : Nat, calls : Nat, continued : BOOLEAN, dir : {"read", "write"},
               next : {"Stop", "Continue", "Restart"}, len : Nat, data : Nat, done : BOOLEAN]

BusType == [bus : {"idle", "transfer", "tc", "tcr"}, nbytes : 0..MaxChunk, reload : BOOLEAN,
            autoend : BOOLEAN, stopf : BOOLEAN, err : BOOLEAN, ie : BOOLEAN,
            handler : Devices \cup {NoDevice}, held : BOOLEAN]

Signals == {"start", "byte", "stop"} \X Nat

Types == /\ locked \in BOOLEAN /\ dev \in [Devices -> DeviceType] /\ i2c \in BusType
         /\ wire \in Seq(Signals) /\ owed \in Seq(Signals)

\* The lock and the handler are those of one device, and only what that device
\* has started is on the bus.
LockInv ==
    /\ \A d, e \in Devices : dev[d].active /\ dev[e].active => d = e
    /\ locked <=> \E d \in Devices : dev[d].active
    /\ \A d \in Devices : dev[d].pc \in Working <=> i2c.handler = d
    /\ \A d \in Devices : dev[d].pc \in Working => dev[d].active
    /\ i2c.ie => \E d \in Devices : dev[d].pc \in {"wait", "disable"}
    /\ i2c.bus = "transfer" => \E d \in Devices : dev[d].pc \in InChunk
    /\ ~locked => i2c.bus = "idle" /\ wire = <<>> /\ owed = <<>>

\* Between calls: the transfer so far is complete, and the bus is held the way the
\* next call expects it.
OutInv(d) == dev[d].pc \in {"out", "acquire"} =>
    /\ dev[d].data = 0 /\ (dev[d].pc = "out" => dev[d].len = 0)
    /\ dev[d].active =>
         LET continued == IF dev[d].pc = "out" THEN dev[d].next = "Continue" ELSE dev[d].continued
         IN  /\ dev[d].reloaded = continued /\ wire = owed
             /\ i2c.bus = IF continued THEN "tcr" ELSE "tc"
             /\ dev[d].pc = "out" => dev[d].next # "Stop"
    /\ ~dev[d].active /\ dev[d].pc = "acquire" => ~dev[d].continued

\* Between chunks: the next one goes on from a reloaded bus, or starts anew; behind
\* the last one the bus is as the caller wants it.
TurnInv(d) == dev[d].pc = "chunk" =>
    /\ ~i2c.err /\ i2c.bus # "transfer"
    /\ IF dev[d].data < dev[d].len
       THEN /\ dev[d].reloaded <=> i2c.bus = "tcr"
            /\ ~dev[d].reloaded => dev[d].data = 0
            /\ ~i2c.stopf
       ELSE /\ dev[d].reloaded <=> dev[d].next = "Continue"
            /\ i2c.bus = CASE dev[d].next = "Stop" -> "idle" [] dev[d].next = "Continue" -> "tcr"
                           [] OTHER -> "tc"
            /\ dev[d].next = "Stop" => i2c.stopf
            /\ dev[d].wx = dev[d].len

\* Within a chunk: what NBYTES still counts is part of the transfer, and RELOAD and
\* AUTOEND are what the end of the chunk calls for.
ChunkInv(d) == dev[d].pc \in InChunk =>
    /\ i2c.bus = "transfer" => ~i2c.err
    /\ ~i2c.err =>
         /\ dev[d].data + i2c.nbytes <= dev[d].len
         /\ dev[d].reloaded = i2c.reload
         /\ i2c.reload <=> dev[d].data + i2c.nbytes < dev[d].len \/ dev[d].next = "Continue"
         /\ i2c.autoend <=> dev[d].data + i2c.nbytes = dev[d].len /\ dev[d].next = "Stop"
         /\ i2c.stopf <=> i2c.bus = "idle"
         /\ i2c.bus # "transfer" => i2c.nbytes = 0
         /\ i2c.bus = "tcr" => i2c.reload
         /\ i2c.bus = "tc" => ~i2c.reload /\ ~i2c.autoend
         /\ i2c.bus = "idle" => ~i2c.reload /\ i2c.autoend
         /\ dev[d].pc \in {"disable", "check"} /\ dev[d].done => i2c.bus # "transfer"
         /\ dev[d].pc = "check" /\ dev[d].done => dev[d].wx = dev[d].data

\* What the call under way still owes: a START, a STOP, and the bytes between.
StartDue(d) == dev[d].pc = "chunk" /\ dev[d].data < dev[d].len /\ ~dev[d].reloaded
StopAsked(d) == IF dev[d].next = "Stop" THEN 1 ELSE 0
StopDue(d) == IF dev[d].next = "Stop" /\ ~i2c.stopf THEN 1 ELSE 0

\* The wire is what was owed, up to what is still due.
WireInv(d) == dev[d].pc \in Working /\ ~i2c.err =>
    /\ Len(owed) = Len(wire) + (IF StartDue(d) THEN 1 ELSE 0) + (dev[d].len - dev[d].data) + StopDue(d)
    /\ \A k \in 1..Len(wire) : wire[k] = owed[k]
    /\ \A k \in 1..dev[d].len : owed[Len(owed) - StopAsked(d) - dev[d].len + k] = Byte(k)
    /\ StartDue(d) => owed[Len(wire) + 1] = Start(dev[d].dir)
    /\ dev[d].next = "Stop" => owed[Len(owed)] = Stop

LengthInv(d) == /\ dev[d].len \in Lengths \cup {0} /\ dev[d].data <= dev[d].len
                /\ dev[d].pc # "out" => dev[d].len \in Lengths

DeviceInv(d) == LengthInv(d) /\ OutInv(d) /\ TurnInv(d) /\ ChunkInv(d) /\ WireInv(d)

IInv == Types /\ LockInv /\ \A d \in Devices : DeviceInv(d)
-----------------------------------------------------------------------------
\* The start of a module of proofs: what the constants are.
Sound == NoDevice \notin Devices /\ MaxChunk \in Nat \ {0} /\ Lengths \subseteq Nat

LEMMA SoundConstants == Sound
  BY DevicesAssumption, ChunkAssumption DEF Sound

\* A device that is not at work, and is not touched, has nothing to do with the bus.
LEMMA Bystander ==
  ASSUME IInv, NEW e \in Devices, ~dev[e].active, dev'[e] = dev[e]
  PROVE  DeviceInv(e)'
<1>1. dev[e].pc \notin Working /\ DeviceInv(e)
  BY DEF IInv, LockInv
<1>2. LengthInv(e)' /\ OutInv(e)'
  BY <1>1 DEF DeviceInv, LengthInv, OutInv
<1>3. TurnInv(e)' /\ ChunkInv(e)' /\ WireInv(e)'
  BY <1>1 DEF TurnInv, ChunkInv, WireInv, Working, InChunk
<1> QED
  BY <1>2, <1>3 DEF DeviceInv

\* The others are bystanders of a device that holds the lock, or is about to.
LEMMA OthersInactive ==
  ASSUME IInv, NEW d \in Devices, dev[d].active \/ ~locked, NEW e \in Devices, e # d
  PROVE  ~dev[e].active
  BY DEF IInv, LockInv

LEMMA InitInv == Init => IInv
<1> SUFFICES ASSUME Init PROVE IInv
  OBVIOUS
<1> USE SoundConstants DEF Init, Sound
<1>1. NewDevice \in DeviceType
  BY DEF NewDevice, DeviceType
<1>2. Types
  <2>1. IdleBus \in BusType
    BY DEF IdleBus, BusType
  <2>2. dev \in [Devices -> DeviceType]
    BY <1>1
  <2>3. locked \in BOOLEAN /\ i2c \in BusType
    BY <2>1
  <2>4. wire \in Seq(Signals) /\ owed \in Seq(Signals)
    OBVIOUS
  <2> QED
    BY <2>2, <2>3, <2>4 DEF Types
<1>3. LockInv
  BY DEF LockInv, NewDevice, IdleBus, Working, InChunk
<1>4. ASSUME NEW d \in Devices PROVE DeviceInv(d)
  BY DEF DeviceInv, LengthInv, OutInv, TurnInv, ChunkInv, WireInv, NewDevice, Working, InChunk
<1> QED
  BY <1>2, <1>3, <1>4 DEF IInv

LEMMA CallInv ==
  ASSUME IInv, NEW d \in Devices, NEW dir \in {"read", "write"},
         NEW next \in {"Stop", "Continue", "Restart"}, NEW len \in Lengths, Call(d, dir, next, len)
  PROVE  IInv'
<1> USE SoundConstants DEF Sound
<1> DEFINE goesOn == dev[d].active /\ dev[d].next = "Continue"
           new == [dev[d] EXCEPT !.pc = "acquire", !.dir = dir, !.next = next, !.len = len,
                     !.calls = dev[d].calls + 1, !.continued = goesOn]
<1>1. /\ dev' = [dev EXCEPT ![d] = new] /\ UNCHANGED <<locked, i2c, wire, owed>>
      /\ dev[d].pc = "out"
  BY DEF Call
<1>0. goesOn \in BOOLEAN /\ (goesOn <=> dev[d].active /\ dev[d].next = "Continue")
  OBVIOUS
<1> HIDE DEF goesOn
<1>2. dev[d] \in DeviceType /\ new \in DeviceType
  <2>1. dev[d] \in DeviceType
    BY DEF IInv, Types
  <2>2. len \in Nat /\ dev[d].calls + 1 \in Nat
    BY <2>1 DEF DeviceType
  <2> QED
    BY <1>0, <2>1, <2>2 DEF DeviceType
<1>3. /\ dev'[d] = new /\ \A e \in Devices : e # d => dev'[e] = dev[e]
      /\ new.pc = "acquire" /\ new.active = dev[d].active /\ new.len = len
      /\ new.reloaded = dev[d].reloaded /\ new.data = dev[d].data
      /\ new.continued = goesOn
  BY <1>1, <1>2 DEF IInv, Types, DeviceType
<1> HIDE DEF new
<1>4. Types'
  BY <1>1, <1>2 DEF IInv, Types
<1>5. LockInv'
  BY <1>1, <1>3 DEF IInv, LockInv, Working, InChunk
<1>6. DeviceInv(d)'
  <2>1. LengthInv(d)' /\ OutInv(d)'
    BY <1>0, <1>1, <1>3 DEF IInv, DeviceInv, LengthInv, OutInv
  <2>2. TurnInv(d)' /\ ChunkInv(d)' /\ WireInv(d)'
    BY <1>3 DEF TurnInv, ChunkInv, WireInv, Working, InChunk
  <2> QED
    BY <2>1, <2>2 DEF DeviceInv
<1>7. ASSUME NEW e \in Devices, e # d PROVE DeviceInv(e)'
  <2>1. CASE ~dev[e].active
    BY <2>1, <1>3, <1>7, Bystander
  <2>2. CASE dev[e].active
    BY <2>2, <1>1, <1>3, <1>7
    DEF IInv, DeviceInv, LengthInv, OutInv, TurnInv, ChunkInv, WireInv, StartDue, StopAsked, StopDue
  <2> QED
    BY <2>1, <2>2
<1> QED
  BY <1>4, <1>5, <1>6, <1>7 DEF IInv

\* A step that leaves one device at work, with the bus its own, keeps LockInv.
LEMMA WorkingLock ==
  ASSUME IInv, NEW d \in Devices, dev[d].pc \in Working,
         dev'[d].pc \in Working, dev'[d].active,
         \A e \in Devices : e # d => dev'[e] = dev[e],
         i2c'.handler = d, locked' = locked,
         i2c'.ie => dev'[d].pc \in {"wait", "disable"},
         i2c'.bus = "transfer" => dev'[d].pc \in InChunk
  PROVE  LockInv'
<1>1. dev[d].active /\ locked /\ i2c.handler = d
  BY DEF IInv, LockInv
<1>2. \A e \in Devices : dev'[e].active => e = d
  BY <1>1 DEF IInv, LockInv
<1>3. \A e \in Devices : dev'[e].pc \in Working => e = d
  BY <1>1, DevicesAssumption DEF IInv, LockInv
<1> QED
  BY <1>1, <1>2, <1>3, DevicesAssumption DEF LockInv

\* ... and, if it types and the invariant of that device holds, all of it.
LEMMA WorkingStep ==
  ASSUME IInv, NEW d \in Devices, dev[d].pc \in Working, dev'[d].pc \in Working,
         \A e \in Devices : e # d => dev'[e] = dev[e],
         Types', LockInv', DeviceInv(d)'
  PROVE  IInv'
<1>1. dev[d].active
  BY DEF IInv, LockInv
<1>2. ASSUME NEW e \in Devices, e # d PROVE DeviceInv(e)'
  BY <1>1, <1>2, OthersInactive, Bystander
<1> QED
  BY <1>2 DEF IInv

\* A concatenation of four parts has the elements of each, one part after the other.
LEMMA ConcatFacts ==
  ASSUME NEW o \in Seq(Signals), NEW f \in Seq(Signals), NEW b \in Seq(Signals),
         NEW l \in Seq(Signals), NEW all, all = o \o f \o b \o l
  PROVE  /\ \A k \in 1..Len(o) : all[k] = o[k]
         /\ Len(f) = 1 => all[Len(o) + 1] = f[1]
         /\ \A k \in 1..Len(b) : all[Len(all) - Len(l) - Len(b) + k] = b[k]
         /\ \A k \in 1..Len(l) : all[Len(o) + Len(f) + Len(b) + k] = l[k]
<1>1. (\A k \in 1..Len(o) : all[k] = o[k]) /\ (Len(f) = 1 => all[Len(o) + 1] = f[1])
  OBVIOUS
<1>2. \A k \in 1..Len(b) : all[Len(all) - Len(l) - Len(b) + k] = b[k]
  OBVIOUS
<1>3. \A k \in 1..Len(l) : all[Len(o) + Len(f) + Len(b) + k] = l[k]
  OBVIOUS
<1> QED
  BY <1>1, <1>2, <1>3

\* What Acquire adds to what is owed.
Owes(o, f, len, l, all) ==
    /\ all \in Seq(Signals) /\ Len(all) = Len(o) + Len(f) + len + Len(l)
    /\ \A k \in 1..Len(o) : all[k] = o[k]
    /\ Len(f) = 1 => all[Len(o) + 1] = f[1]
    /\ \A k \in 1..len : all[Len(all) - Len(l) - len + k] = Byte(k)
    /\ Len(l) = 1 => all[Len(all)] = l[1]

LEMMA OwedFacts ==
  ASSUME NEW o \in Seq(Signals), NEW f \in Seq(Signals), NEW l \in Seq(Signals),
         NEW len \in Nat, NEW all, all = o \o f \o [n \in 1..len |-> Byte(n)] \o l
  PROVE  Owes(o, f, len, l, all)
<1> DEFINE bytes == [n \in 1..len |-> Byte(n)]
<1>1. bytes \in Seq(Signals) /\ Len(bytes) = len /\ \A k \in 1..len : bytes[k] = Byte(k)
  BY DEF Byte, Signals
<1>2. all = o \o f \o bytes \o l
  OBVIOUS
<1> HIDE DEF bytes
<1>3. all \in Seq(Signals) /\ Len(all) = Len(o) + Len(f) + Len(bytes) + Len(l)
  BY <1>1, <1>2
<1>4. (\A k \in 1..Len(o) : all[k] = o[k]) /\ (Len(f) = 1 => all[Len(o) + 1] = f[1])
  BY <1>1, <1>2, ConcatFacts
<1>5. \A k \in 1..Len(bytes) : all[Len(all) - Len(l) - Len(bytes) + k] = bytes[k]
  BY <1>1, <1>2, ConcatFacts
<1>6. Len(l) = 1 => all[Len(all)] = l[1]
  <2>0. \A k \in 1..Len(l) : all[Len(o) + Len(f) + Len(bytes) + k] = l[k]
    BY <1>1, <1>2, ConcatFacts
  <2>1. Len(l) = 1 => all[Len(o) + Len(f) + Len(bytes) + 1] = l[1]
    BY ONLY <2>0
  <2>2. Len(l) = 1 => Len(o) + Len(f) + Len(bytes) + 1 = Len(all)
    BY <1>1, <1>3
  <2> QED
    BY <2>1, <2>2, Zenon
<1> QED
  BY <1>1, <1>3, <1>4, <1>5, <1>6 DEF Owes

LEMMA AcquireInv ==
  ASSUME IInv, 0 \notin Lengths, NEW d \in Devices, Acquire(d)
  PROVE  IInv'
<1> USE SoundConstants DEF Sound
<1> DEFINE goesOn == dev[d].active /\ dev[d].reloaded
           new == [dev[d] EXCEPT !.pc = "chunk", !.active = TRUE, !.reloaded = goesOn]
           first == IF dev[d].continued THEN <<>> ELSE <<Start(dev[d].dir)>>
           last == IF dev[d].next = "Stop" THEN <<Stop>> ELSE <<>>
<1>1. /\ dev' = [dev EXCEPT ![d] = new] /\ dev[d].pc = "acquire" /\ locked' = TRUE
      /\ wire' = wire /\ (dev[d].active \/ ~locked)
      /\ i2c' = [i2c EXCEPT !.handler = d, !.stopf = FALSE, !.err = FALSE]
      /\ owed' = owed \o first \o [n \in 1..dev[d].len |-> Byte(n)] \o last
  BY DEF Acquire, CanAcquire
<1>2. goesOn \in BOOLEAN /\ (goesOn <=> dev[d].active /\ dev[d].reloaded)
  OBVIOUS
<1> HIDE DEF goesOn
<1>3. dev[d] \in DeviceType /\ new \in DeviceType
  BY <1>2 DEF IInv, Types, DeviceType
<1>4. /\ dev'[d] = new /\ \A e \in Devices : e # d => dev'[e] = dev[e]
      /\ new.pc = "chunk" /\ new.active /\ new.reloaded = goesOn
      /\ new.len = dev[d].len /\ new.data = dev[d].data /\ new.next = dev[d].next
      /\ new.dir = dev[d].dir
  BY <1>1, <1>3 DEF IInv, Types, DeviceType
<1>5. /\ i2c' \in BusType /\ i2c'.handler = d /\ i2c'.bus = i2c.bus /\ i2c'.ie = i2c.ie
      /\ ~i2c'.stopf /\ ~i2c'.err
  BY <1>1 DEF IInv, Types, BusType
<1> HIDE DEF new
<1>6. /\ dev[d].data = 0 /\ dev[d].len \in Lengths /\ dev[d].len > 0
      /\ ~dev[d].active => ~dev[d].continued
      /\ wire = owed
      /\ goesOn <=> dev[d].continued
      /\ goesOn => i2c.bus = "tcr"
      /\ ~goesOn => i2c.bus \in {"idle", "tc"}
  BY <1>1, <1>2, <1>3 DEF IInv, LockInv, DeviceInv, LengthInv, OutInv, DeviceType
<1>7. \A e \in Devices : e # d => ~dev[e].active
  BY <1>1, OthersInactive
<1>8. /\ first \in Seq(Signals) /\ Len(first) = (IF goesOn THEN 0 ELSE 1)
      /\ ~goesOn => first[1] = Start(dev[d].dir)
  <2>1. Start(dev[d].dir) \in Signals
    BY <1>3 DEF Start, Signals, DeviceType
  <2> QED
    BY <1>6, <2>1
<1>9. /\ last \in Seq(Signals) /\ Len(last) = StopAsked(d)
      /\ dev[d].next = "Stop" => last[1] = Stop
  <2>1. Stop \in Signals
    BY DEF Stop, Signals
  <2> QED
    BY <2>1 DEF StopAsked
<1> HIDE DEF first, last
<1>10. /\ owed' \in Seq(Signals) /\ Len(owed') = Len(owed) + Len(first) + dev[d].len + Len(last)
       /\ \A k \in 1..Len(owed) : owed'[k] = owed[k]
       /\ Len(first) = 1 => owed'[Len(owed) + 1] = first[1]
       /\ \A k \in 1..dev[d].len : owed'[Len(owed') - Len(last) - dev[d].len + k] = Byte(k)
       /\ Len(last) = 1 => owed'[Len(owed')] = last[1]
  <2>1. owed \in Seq(Signals) /\ dev[d].len \in Nat
    BY <1>6 DEF IInv, Types
  <2>2. Owes(owed, first, dev[d].len, last, owed')
    BY <1>1, <1>8, <1>9, <2>1, OwedFacts
  <2> QED
    BY <2>2 DEF Owes
<1>11. Types'
  BY <1>1, <1>3, <1>5, <1>10 DEF IInv, Types
<1>12. LockInv'
  <2>1. ~i2c.ie /\ i2c.bus # "transfer"
    <3>1. \A e \in Devices : dev[e].pc \notin Working
      BY <1>1, <1>7 DEF IInv, LockInv, Working
    <3> QED
      BY <3>1 DEF IInv, LockInv, Working, InChunk
  <2>2. \A e \in Devices : dev'[e].active => e = d
    BY <1>4, <1>7
  <2>3. \A e \in Devices : dev'[e].pc \in Working <=> e = d
    BY <1>4, <1>7 DEF IInv, LockInv, Working
  <2>4. dev'[d].active
    BY <1>4
  <2>5. /\ \A e, f \in Devices : dev'[e].active /\ dev'[f].active => e = f
        /\ locked' <=> \E e \in Devices : dev'[e].active
    BY <1>1, <2>2, <2>4
  <2>6. \A e \in Devices : dev'[e].pc \in Working => dev'[e].active
    BY <2>3, <2>4
  <2>7. \A e \in Devices : dev'[e].pc \in Working <=> i2c'.handler = e
    BY <1>5, <2>3
  <2> QED
    BY <1>1, <1>5, <2>1, <2>5, <2>6, <2>7 DEF LockInv
<1>13. DeviceInv(d)'
  <2>1. LengthInv(d)'
    <3>1. dev[d].len \in Nat /\ dev[d].data = 0
      BY <1>6
    <3> QED
      BY <3>1, <1>4, <1>6 DEF LengthInv
  <2>0. OutInv(d)' /\ ChunkInv(d)'
    BY <1>4 DEF OutInv, ChunkInv, InChunk
  <2>2. TurnInv(d)'
    BY <1>2, <1>4, <1>5, <1>6 DEF TurnInv
  <2>3. WireInv(d)'
    <3>1. /\ StartDue(d)' <=> ~goesOn
          /\ StopAsked(d)' = StopAsked(d) /\ StopDue(d)' = StopAsked(d) /\ StopAsked(d) \in {0, 1}
      BY <1>2, <1>4, <1>5, <1>6 DEF StartDue, StopAsked, StopDue
    <3>2. Len(owed') = Len(wire') + (IF goesOn THEN 0 ELSE 1) + dev[d].len + StopAsked(d)
      BY <1>1, <1>6, <1>8, <1>9, <1>10
    <3>3. \A k \in 1..Len(wire') : wire'[k] = owed'[k]
      BY <1>1, <1>6, <1>10
    <3>4. \A k \in 1..dev'[d].len : owed'[Len(owed') - StopAsked(d)' - dev'[d].len + k] = Byte(k)
      BY <1>4, <1>9, <1>10, <3>1
    <3>5. ~goesOn => owed'[Len(wire') + 1] = Start(dev'[d].dir)
      BY <1>1, <1>4, <1>6, <1>8, <1>10
    <3>6. dev'[d].next = "Stop" => owed'[Len(owed')] = Stop
      BY <1>4, <1>9, <1>10 DEF StopAsked
    <3>7. Len(owed') = Len(wire') + (IF StartDue(d)' THEN 1 ELSE 0) + (dev'[d].len - dev'[d].data) + StopDue(d)'
      <4>1. dev'[d].len = dev[d].len /\ dev'[d].data = 0 /\ dev[d].len \in Nat
        BY <1>4, <1>6
      <4> QED
        BY <3>1, <3>2, <4>1
    <3> QED
      BY <3>1, <3>3, <3>4, <3>5, <3>6, <3>7 DEF WireInv
  <2> QED
    BY <2>0, <2>1, <2>2, <2>3 DEF DeviceInv
<1>14. ASSUME NEW e \in Devices, e # d PROVE DeviceInv(e)'
  BY <1>4, <1>7, <1>14, Bystander
<1> QED
  BY <1>11, <1>12, <1>13, <1>14 DEF IInv

\* One signal more on the wire, the one that was due.
LEMMA AppendMatches ==
  ASSUME NEW w \in Seq(Signals), NEW o \in Seq(Signals), NEW x \in Signals,
         \A k \in 1..Len(w) : w[k] = o[k], o[Len(w) + 1] = x
  PROVE  /\ Append(w, x) \in Seq(Signals) /\ Len(Append(w, x)) = Len(w) + 1
         /\ \A k \in 1..Len(Append(w, x)) : Append(w, x)[k] = o[k]
  OBVIOUS

LEMMA StartChunkInv ==
  ASSUME IInv, NEW d \in Devices, StartChunk(d)
  PROVE  IInv'
<1> USE SoundConstants DEF Sound
<1> DEFINE left == dev[d].len - dev[d].data
           again == Reload(d, left)
           auto == AutoEnd(d, left)
           new == [dev[d] EXCEPT !.reloaded = again, !.pc = "enable"]
<1>1. /\ dev[d].pc = "chunk" /\ dev[d].data < dev[d].len
      /\ i2c' = [i2c EXCEPT !.bus = "transfer", !.nbytes = NBytes(left), !.reload = again, !.autoend = auto]
      /\ dev' = [dev EXCEPT ![d].reloaded = again, ![d].pc = "enable"]
      /\ wire' = (IF dev[d].reloaded THEN wire ELSE Append(wire, Start(dev[d].dir)))
      /\ locked' = locked /\ owed' = owed
  BY DEF StartChunk
<1>2. /\ dev[d] \in DeviceType /\ dev[d].len \in Nat /\ dev[d].data \in Nat
      /\ left \in Nat /\ left > 0 /\ i2c \in BusType /\ wire \in Seq(Signals) /\ owed \in Seq(Signals)
  BY <1>1 DEF IInv, Types, DeviceType
<1>3. /\ again \in BOOLEAN /\ (again <=> left > MaxChunk \/ dev[d].next = "Continue")
      /\ auto \in BOOLEAN /\ (auto <=> left <= MaxChunk /\ dev[d].next = "Stop")
      /\ NBytes(left) \in 0..MaxChunk /\ NBytes(left) <= left
      /\ (NBytes(left) < left <=> left > MaxChunk)
  BY <1>2 DEF Reload, AutoEnd, NBytes
<1> HIDE DEF again, auto
<1>4. new \in DeviceType
  BY <1>2, <1>3 DEF DeviceType, InChunk
<1>5. /\ dev'[d] = new /\ \A e \in Devices : e # d => dev'[e] = dev[e]
      /\ dev' \in [Devices -> DeviceType]
      /\ new.pc = "enable" /\ new.reloaded = again /\ new.active = dev[d].active
      /\ new.len = dev[d].len /\ new.data = dev[d].data /\ new.next = dev[d].next
      /\ new.done = dev[d].done /\ new.dir = dev[d].dir
  BY <1>1, <1>2, <1>4 DEF IInv, Types, DeviceType
<1>6. /\ i2c' \in BusType /\ i2c'.handler = i2c.handler /\ i2c'.bus = "transfer" /\ i2c'.ie = i2c.ie
      /\ i2c'.stopf = i2c.stopf /\ i2c'.err = i2c.err /\ i2c'.nbytes = NBytes(left)
      /\ i2c'.reload = again /\ i2c'.autoend = auto
  BY <1>1, <1>2, <1>3 DEF BusType
<1> HIDE DEF new
<1>7. /\ dev[d].pc \in Working /\ dev[d].active /\ i2c.handler = d /\ ~i2c.ie
      /\ ~i2c.err /\ ~i2c.stopf
  BY <1>1 DEF IInv, LockInv, DeviceInv, TurnInv, Working
<1>8. LockInv'
  <2>1. dev'[d].pc \in Working /\ dev'[d].active /\ dev'[d].pc \in InChunk
    BY <1>5, <1>7 DEF Working, InChunk
  <2> QED
    BY <1>1, <1>5, <1>6, <1>7, <2>1, WorkingLock
<1>9. /\ wire' \in Seq(Signals) /\ Len(wire') = Len(wire) + (IF StartDue(d) THEN 1 ELSE 0)
      /\ \A k \in 1..Len(wire') : wire'[k] = owed[k]
  <2>1. WireInv(d)
    BY DEF IInv, DeviceInv
  <2>2. \A k \in 1..Len(wire) : wire[k] = owed[k]
    BY <1>7, <2>1 DEF WireInv
  <2>3. CASE dev[d].reloaded
    BY <1>1, <1>2, <2>2, <2>3 DEF StartDue
  <2>4. CASE ~dev[d].reloaded
    <3>1. StartDue(d)
      BY <1>1, <2>4 DEF StartDue
    <3>2. owed[Len(wire) + 1] = Start(dev[d].dir)
      BY <1>7, <2>1, <3>1 DEF WireInv
    <3>3. Start(dev[d].dir) \in Signals
      BY <1>2 DEF Start, Signals, DeviceType
    <3>4. wire' = Append(wire, Start(dev[d].dir))
      BY <1>1, <2>4
    <3> QED
      BY <1>2, <2>2, <3>1, <3>2, <3>3, <3>4, AppendMatches
  <2> QED
    BY <2>3, <2>4
<1>10. Types'
  BY <1>1, <1>2, <1>5, <1>6, <1>9 DEF IInv, Types
<1>11. DeviceInv(d)'
  <2>1. LengthInv(d)' /\ OutInv(d)' /\ TurnInv(d)'
    BY <1>1, <1>5 DEF IInv, DeviceInv, LengthInv, OutInv, TurnInv
  <2>2. ChunkInv(d)'
    BY <1>2, <1>3, <1>5, <1>6, <1>7 DEF ChunkInv
  <2>3. WireInv(d)'
    <3>1. WireInv(d)
      BY DEF IInv, DeviceInv
    <3>2. StopAsked(d)' = StopAsked(d) /\ StopDue(d)' = StopDue(d) /\ ~StartDue(d)'
      BY <1>5, <1>6 DEF StopAsked, StopDue, StartDue
    <3>3. Len(owed) = Len(wire) + (IF StartDue(d) THEN 1 ELSE 0) + (dev[d].len - dev[d].data) + StopDue(d)
      BY <1>7, <3>1 DEF WireInv
    <3>4. /\ \A k \in 1..dev[d].len : owed[Len(owed) - StopAsked(d) - dev[d].len + k] = Byte(k)
          /\ dev[d].next = "Stop" => owed[Len(owed)] = Stop
      BY <1>7, <3>1 DEF WireInv
    <3> QED
      BY <1>1, <1>5, <1>9, <3>2, <3>3, <3>4 DEF WireInv
  <2> QED
    BY <2>1, <2>2, <2>3 DEF DeviceInv
<1> QED
  <2>1. dev'[d].pc \in Working
    BY <1>5 DEF Working
  <2> QED
    BY <1>5, <1>7, <1>8, <1>10, <1>11, <2>1, WorkingStep

\* What a step of the device within a chunk changes: where it is, what it has noted,
\* whether the interrupt is enabled.
SameTransfer(d) ==
    /\ dev'[d].active = dev[d].active /\ dev'[d].reloaded = dev[d].reloaded /\ dev'[d].len = dev[d].len
    /\ dev'[d].data = dev[d].data /\ dev'[d].next = dev[d].next /\ dev'[d].dir = dev[d].dir
    /\ i2c'.bus = i2c.bus /\ i2c'.nbytes = i2c.nbytes /\ i2c'.reload = i2c.reload
    /\ i2c'.autoend = i2c.autoend /\ i2c'.stopf = i2c.stopf /\ i2c'.err = i2c.err
    /\ i2c'.handler = i2c.handler
    /\ locked' = locked /\ wire' = wire /\ owed' = owed

LEMMA SameTransferStep ==
  ASSUME IInv, NEW d \in Devices, dev[d].pc \in InChunk, SameTransfer(d),
         NEW new \in DeviceType, dev' = [dev EXCEPT ![d] = new], i2c' \in BusType,
         new.pc \in Working, i2c'.ie => new.pc \in {"wait", "disable"},
         new.pc \in InChunk \/ i2c.bus # "transfer",
         TurnInv(d)', ChunkInv(d)',
         StartDue(d)' => FALSE
  PROVE  IInv'
<1>1. dev'[d] = new /\ \A e \in Devices : e # d => dev'[e] = dev[e]
  BY DEF IInv, Types
<1>2. dev[d].pc \in Working /\ dev[d].active /\ i2c.handler = d
  BY DEF IInv, LockInv, Working, InChunk
<1>3. Types'
  BY DEF IInv, Types, SameTransfer
<1>4. LockInv'
  BY <1>1, <1>2, WorkingLock DEF SameTransfer
<1>5. LengthInv(d)'
  BY <1>1, <1>2 DEF IInv, DeviceInv, LengthInv, SameTransfer, InChunk
<1>6. OutInv(d)'
  BY <1>1 DEF OutInv, Working
<1>7. WireInv(d)'
  <2>1. WireInv(d) /\ ~StartDue(d)
    BY DEF IInv, DeviceInv, StartDue, InChunk
  <2>2. /\ StopAsked(d)' = StopAsked(d) /\ StopDue(d)' = StopDue(d) /\ ~StartDue(d)'
    BY DEF StopAsked, StopDue, SameTransfer
  <2> QED
    BY <1>2, <2>1, <2>2 DEF WireInv, SameTransfer
<1>8. DeviceInv(d)'
  BY <1>5, <1>6, <1>7 DEF DeviceInv
<1> QED
  BY <1>1, <1>2, <1>3, <1>4, <1>8, WorkingStep

LEMMA EnableInterruptInv ==
  ASSUME IInv, NEW d \in Devices, EnableInterrupt(d)
  PROVE  IInv'
<1> DEFINE new == [dev[d] EXCEPT !.pc = "wait"]
<1>1. /\ dev[d].pc = "enable" /\ dev' = [dev EXCEPT ![d] = new] /\ i2c' = [i2c EXCEPT !.ie = TRUE]
      /\ locked' = locked /\ wire' = wire /\ owed' = owed
  BY DEF EnableInterrupt, Goto
<1>2. new \in DeviceType /\ i2c' \in BusType
  BY <1>1 DEF IInv, Types, DeviceType, InChunk, BusType
<1>3. /\ dev[d] \in DeviceType /\ dev'[d] = new /\ new.pc = "wait" /\ new.done = dev[d].done
  BY <1>1 DEF IInv, Types, DeviceType
<1>4. SameTransfer(d)
  BY <1>1, <1>3 DEF IInv, Types, DeviceType, BusType, SameTransfer
<1> HIDE DEF new
<1>5. ChunkInv(d)' /\ TurnInv(d)' /\ ~StartDue(d)'
  BY <1>1, <1>3, <1>4 DEF IInv, DeviceInv, ChunkInv, TurnInv, StartDue, SameTransfer, InChunk
<1> QED
  BY <1>1, <1>2, <1>3, <1>4, <1>5, SameTransferStep DEF Working, InChunk

LEMMA AwakeInv ==
  ASSUME IInv, NEW d \in Devices, Awake(d)
  PROVE  IInv'
<1>0. PICK done \in BOOLEAN : /\ done => i2c.err \/ Ok
                              /\ dev' = [dev EXCEPT ![d].pc = "disable", ![d].done = done]
  BY DEF Awake
<1> DEFINE new == [dev[d] EXCEPT !.pc = "disable", !.done = done]
<1>1. /\ dev[d].pc = "wait" /\ dev' = [dev EXCEPT ![d] = new] /\ i2c' = i2c
      /\ locked' = locked /\ wire' = wire /\ owed' = owed
  BY <1>0 DEF Awake
<1>2. new \in DeviceType /\ i2c' \in BusType
  BY <1>1 DEF IInv, Types, DeviceType, InChunk
<1>3. /\ dev[d] \in DeviceType /\ dev'[d] = new /\ new.pc = "disable" /\ new.done = done
  BY <1>1 DEF IInv, Types, DeviceType
<1>4. SameTransfer(d)
  BY <1>1, <1>3 DEF IInv, Types, DeviceType, SameTransfer
<1> HIDE DEF new
<1>5. ChunkInv(d)' /\ TurnInv(d)' /\ ~StartDue(d)'
  <2>1. done /\ ~i2c.err => i2c.bus # "transfer"
    BY <1>0, <1>1 DEF IInv, DeviceInv, ChunkInv, InChunk, Ok
  <2>2. ChunkInv(d)'
    BY <1>1, <1>3, <1>4, <2>1 DEF IInv, DeviceInv, ChunkInv, SameTransfer, InChunk
  <2> QED
    BY <1>3, <2>2 DEF TurnInv, StartDue
<1>6. ~i2c.ie \/ new.pc \in {"wait", "disable"}
  BY <1>3
<1> QED
  BY <1>1, <1>2, <1>3, <1>4, <1>5, <1>6, SameTransferStep DEF Working, InChunk

LEMMA DisableInterruptInv ==
  ASSUME IInv, NEW d \in Devices, DisableInterrupt(d)
  PROVE  IInv'
<1> DEFINE new == [dev[d] EXCEPT !.pc = "check", !.wx = dev[d].data]
<1>1. /\ dev[d].pc = "disable" /\ dev' = [dev EXCEPT ![d] = new] /\ i2c' = [i2c EXCEPT !.ie = FALSE]
      /\ locked' = locked /\ wire' = wire /\ owed' = owed
  BY DEF DisableInterrupt
<1>2. new \in DeviceType /\ i2c' \in BusType
  BY <1>1 DEF IInv, Types, DeviceType, InChunk, BusType
<1>3. /\ dev[d] \in DeviceType /\ dev'[d] = new /\ new.pc = "check" /\ new.done = dev[d].done
      /\ new.wx = dev[d].data
  BY <1>1 DEF IInv, Types, DeviceType
<1>4. SameTransfer(d) /\ ~i2c'.ie
  BY <1>1, <1>3 DEF IInv, Types, DeviceType, BusType, SameTransfer
<1> HIDE DEF new
<1>5. ChunkInv(d)' /\ TurnInv(d)' /\ ~StartDue(d)'
  BY <1>1, <1>3, <1>4 DEF IInv, DeviceInv, ChunkInv, TurnInv, StartDue, SameTransfer, InChunk
<1> QED
  BY <1>1, <1>2, <1>3, <1>4, <1>5, SameTransferStep DEF Working, InChunk

LEMMA CheckOkInv ==
  ASSUME IInv, NEW d \in Devices, CheckOk(d)
  PROVE  IInv'
<1> DEFINE new == [dev[d] EXCEPT !.pc = "chunk"]
<1>1. /\ dev[d].pc = "check" /\ dev[d].done /\ ~i2c.err
      /\ dev' = [dev EXCEPT ![d] = new] /\ i2c' = i2c
      /\ locked' = locked /\ wire' = wire /\ owed' = owed
  BY DEF CheckOk, Goto
<1>2. new \in DeviceType /\ i2c' \in BusType
  BY <1>1 DEF IInv, Types, DeviceType, InChunk
<1>3. /\ dev[d] \in DeviceType /\ dev'[d] = new /\ new.pc = "chunk" /\ new.wx = dev[d].wx
  BY <1>1 DEF IInv, Types, DeviceType
<1>4. SameTransfer(d)
  BY <1>1, <1>3 DEF IInv, Types, DeviceType, SameTransfer
<1> HIDE DEF new
<1>5. /\ i2c.bus \in {"idle", "tc", "tcr"} /\ i2c.nbytes = 0 /\ dev[d].data <= dev[d].len
      /\ dev[d].wx = dev[d].data /\ dev[d].len \in Nat /\ dev[d].data \in Nat
      /\ dev[d].reloaded = i2c.reload
      /\ i2c.reload <=> dev[d].data < dev[d].len \/ dev[d].next = "Continue"
      /\ i2c.autoend <=> dev[d].data = dev[d].len /\ dev[d].next = "Stop"
      /\ i2c.stopf <=> i2c.bus = "idle"
      /\ i2c.bus = "tcr" => i2c.reload
      /\ i2c.bus = "tc" => ~i2c.reload /\ ~i2c.autoend
      /\ i2c.bus = "idle" => ~i2c.reload /\ i2c.autoend
  <2>1. ChunkInv(d) /\ dev[d].pc \in InChunk /\ i2c \in BusType
    BY <1>1 DEF IInv, Types, DeviceInv, InChunk
  <2>2. i2c.bus \in {"idle", "tc", "tcr"} /\ i2c.nbytes = 0 /\ dev[d].wx = dev[d].data
    BY <1>1, <2>1 DEF ChunkInv, BusType
  <2>3. dev[d].len \in Nat /\ dev[d].data \in Nat
    BY <1>3 DEF DeviceType
  <2> QED
    BY <1>1, <2>1, <2>2, <2>3 DEF ChunkInv
<1>6. TurnInv(d)'
  BY <1>1, <1>3, <1>4, <1>5 DEF TurnInv, SameTransfer
<1>7. ChunkInv(d)' /\ ~StartDue(d)'
  BY <1>3, <1>4, <1>5 DEF ChunkInv, StartDue, SameTransfer, InChunk
<1>8. ~i2c.ie
  BY <1>1 DEF IInv, LockInv, Working, InChunk
<1> QED
  BY <1>1, <1>2, <1>3, <1>4, <1>5, <1>6, <1>7, <1>8, SameTransferStep DEF Working, InChunk

\* The device that had the bus lets go of it.
LEMMA ReleaseStep ==
  ASSUME IInv, NEW d \in Devices, dev[d].pc \in Working,
         dev' = [dev EXCEPT ![d] = Released(dev[d])], locked' = FALSE, wire' = <<>>, owed' = <<>>,
         i2c' \in BusType, i2c'.bus = "idle", ~i2c'.ie, i2c'.handler = NoDevice
  PROVE  IInv'
<1> DEFINE new == Released(dev[d])
<1>1. /\ new \in DeviceType /\ new.pc = "out" /\ ~new.active /\ new.len = 0 /\ new.data = 0
  <2>1. dev[d].wx \in Nat
    BY DEF IInv, Types, DeviceType
  <2> QED
    BY <2>1 DEF Released, NewDevice, DeviceType
<1>2. dev'[d] = new /\ \A e \in Devices : e # d => dev'[e] = dev[e]
  BY DEF IInv, Types
<1> HIDE DEF new
<1>3. dev[d].active /\ \A e \in Devices : e # d => ~dev[e].active /\ dev[e].pc \notin Working
  BY DevicesAssumption DEF IInv, LockInv
<1>4. Types'
  <2>1. dev' = [dev EXCEPT ![d] = new] /\ dev \in [Devices -> DeviceType]
    BY DEF IInv, Types, new
  <2>2. dev' \in [Devices -> DeviceType]
    BY <1>1, <2>1
  <2>3. wire' \in Seq(Signals) /\ owed' \in Seq(Signals)
    OBVIOUS
  <2> QED
    BY <2>2, <2>3 DEF Types
<1>5. \A e \in Devices : ~dev'[e].active /\ dev'[e].pc \notin Working
  BY <1>1, <1>2, <1>3 DEF Working
<1>6. LockInv'
  BY <1>5, DevicesAssumption DEF LockInv
<1>7. DeviceInv(d)'
  <2>1. LengthInv(d)' /\ OutInv(d)'
    BY <1>1, <1>2 DEF LengthInv, OutInv
  <2>2. TurnInv(d)' /\ ChunkInv(d)' /\ WireInv(d)'
    BY <1>1, <1>2 DEF TurnInv, ChunkInv, WireInv, Working, InChunk
  <2> QED
    BY <2>1, <2>2 DEF DeviceInv
<1>8. ASSUME NEW e \in Devices, e # d PROVE DeviceInv(e)'
  BY <1>2, <1>3, <1>8, Bystander
<1> QED
  BY <1>4, <1>6, <1>7, <1>8 DEF IInv

LEMMA CheckFailedInv ==
  ASSUME IInv, NEW d \in Devices, CheckFailed(d)
  PROVE  IInv'
<1>1. /\ dev[d].pc \in Working /\ dev' = [dev EXCEPT ![d] = Released(dev[d])]
      /\ locked' = FALSE /\ wire' = <<>> /\ owed' = <<>>
  BY DEF CheckFailed, Working
<1>2. i2c \in BusType /\ ~i2c.ie
  <2>1. dev[d].pc = "check"
    BY DEF CheckFailed
  <2>2. i2c.ie => \E e \in Devices : dev[e].pc \in {"wait", "disable"}
    BY DEF IInv, LockInv
  <2>3. \A e \in Devices : e # d => ~dev[e].active
    BY <1>1 DEF IInv, LockInv
  <2>4. \A e \in Devices : dev[e].pc \in {"wait", "disable"} => dev[e].active
    BY DEF IInv, LockInv, Working
  <2> QED
    BY <2>1, <2>2, <2>3, <2>4 DEF IInv, Types
<1>4. PICK held \in BOOLEAN : i2c' = [ResetBus(held) EXCEPT !.handler = NoDevice]
  BY DEF CheckFailed
<1>3. i2c' \in BusType /\ i2c'.bus = "idle" /\ ~i2c'.ie /\ i2c'.handler = NoDevice
  <2>1. 0 \in 0..MaxChunk
    BY ChunkAssumption
  <2>2. ResetBus(held) \in BusType /\ ResetBus(held).bus = "idle" /\ ~ResetBus(held).ie
    BY <1>2, <2>1 DEF ResetBus, IdleBus, BusType
  <2> QED
    BY <1>4, <2>2 DEF BusType
<1> QED
  BY <1>1, <1>3, ReleaseStep

\* A transfer that is complete: nothing is due.
LEMMA Complete ==
  ASSUME IInv, NEW d \in Devices, dev[d].pc = "chunk", dev[d].data >= dev[d].len
  PROVE  wire = owed
<1>1. dev[d].len \in Nat /\ dev[d].data \in Nat /\ wire \in Seq(Signals) /\ owed \in Seq(Signals)
  BY DEF IInv, Types, DeviceType
<1>2. dev[d].data = dev[d].len
  BY <1>1 DEF IInv, DeviceInv, LengthInv
<1>3. ~i2c.err /\ (dev[d].next = "Stop" => i2c.stopf)
  <2>1. ~(dev[d].data < dev[d].len)
    BY <1>1, <1>2
  <2> QED
    BY <2>1 DEF IInv, DeviceInv, TurnInv
<1>4. ~StartDue(d) /\ StopDue(d) = 0
  BY <1>1, <1>2, <1>3 DEF StartDue, StopDue
<1>5. WireInv(d) /\ dev[d].pc \in Working
  BY DEF IInv, DeviceInv, Working
<1>6. Len(owed) = Len(wire) /\ \A k \in 1..Len(wire) : wire[k] = owed[k]
  <2>1. Len(owed) = Len(wire) + (IF StartDue(d) THEN 1 ELSE 0) + (dev[d].len - dev[d].data) + StopDue(d)
    BY <1>3, <1>5 DEF WireInv
  <2>2. Len(owed) = Len(wire)
    BY <1>1, <1>2, <1>4, <2>1
  <2> QED
    BY <1>3, <1>5, <2>2 DEF WireInv
<1> QED
  BY <1>1, <1>6, SeqEqual

LEMMA ReturnInv ==
  ASSUME IInv, NEW d \in Devices, Return(d)
  PROVE  IInv'
<1>1. /\ dev[d].pc = "chunk" /\ dev[d].data >= dev[d].len /\ dev[d].pc \in Working
      /\ i2c' = [i2c EXCEPT !.handler = NoDevice]
  BY DEF Return, Working
<1>2. /\ i2c' \in BusType /\ i2c'.handler = NoDevice /\ i2c'.bus = i2c.bus /\ i2c'.ie = i2c.ie
      /\ dev[d] \in DeviceType
  BY <1>1 DEF IInv, Types, BusType
<1>3. dev[d].active /\ i2c.handler = d /\ ~i2c.ie
  BY <1>1 DEF IInv, LockInv, Working
<1>4. /\ dev[d].reloaded <=> dev[d].next = "Continue"
      /\ i2c.bus = CASE dev[d].next = "Stop" -> "idle" [] dev[d].next = "Continue" -> "tcr" [] OTHER -> "tc"
  <2>1. ~(dev[d].data < dev[d].len)
    BY <1>1, <1>2 DEF DeviceType
  <2> QED
    BY <1>1, <2>1 DEF IInv, DeviceInv, TurnInv
<1>5. CASE dev[d].next = "Stop"
  BY <1>1, <1>2, <1>3, <1>4, <1>5, ReleaseStep DEF Return
<1>6. CASE dev[d].next # "Stop"
  <2> DEFINE new == [dev[d] EXCEPT !.pc = "out", !.data = 0, !.len = 0, !.done = FALSE]
  <2>1. dev' = [dev EXCEPT ![d] = new] /\ locked' = locked /\ wire' = wire /\ owed' = owed
    BY <1>6 DEF Return
  <2>2. new \in DeviceType
    BY <1>2 DEF DeviceType
  <2>3. /\ dev'[d] = new /\ \A e \in Devices : e # d => dev'[e] = dev[e]
        /\ new.pc = "out" /\ new.active = dev[d].active /\ new.data = 0 /\ new.len = 0
        /\ new.next = dev[d].next /\ new.reloaded = dev[d].reloaded
    BY <1>2, <2>1 DEF IInv, Types, DeviceType
  <2>4. Types'
    BY <1>2, <2>1, <2>2 DEF IInv, Types
  <2> HIDE DEF new
  <2>5. \A e \in Devices : e # d => ~dev[e].active /\ dev[e].pc \notin Working
    BY <1>3, DevicesAssumption DEF IInv, LockInv
  <2>6. LockInv'
    <3>1. \A e \in Devices : dev'[e].pc \notin Working
      BY <2>3, <2>5 DEF Working
    <3>2. \A e \in Devices : dev'[e].active <=> e = d
      BY <1>3, <2>3, <2>5
    <3>3. locked' /\ ~i2c'.ie /\ i2c'.bus # "transfer"
      BY <1>2, <1>3, <1>4, <2>1 DEF IInv, LockInv
    <3> QED
      BY <1>2, <3>1, <3>2, <3>3, DevicesAssumption DEF LockInv
  <2>7. DeviceInv(d)'
    <3>1. wire = owed
      BY <1>1, Complete
    <3>2. dev[d].reloaded \in BOOLEAN /\ (dev[d].next = "Continue") \in BOOLEAN
      BY <1>2 DEF DeviceType
    <3>3. dev[d].reloaded = (dev[d].next = "Continue")
      BY <1>4, <3>2
    <3>4. LengthInv(d)'
      BY <2>3 DEF LengthInv
    <3>5. OutInv(d)'
      BY <1>2, <1>3, <1>4, <1>6, <2>1, <2>3, <3>1, <3>3 DEF OutInv
    <3>6. TurnInv(d)' /\ ChunkInv(d)' /\ WireInv(d)'
      BY <2>3 DEF TurnInv, ChunkInv, WireInv, Working, InChunk
    <3> QED
      BY <3>4, <3>5, <3>6 DEF DeviceInv
  <2>8. ASSUME NEW e \in Devices, e # d PROVE DeviceInv(e)'
    BY <2>3, <2>5, <2>8, Bystander
  <2> QED
    BY <2>4, <2>6, <2>7, <2>8 DEF IInv
<1> QED
  BY <1>5, <1>6

\* A transfer on the bus is that of the device whose call waits for it.
LEMMA Transferring ==
  ASSUME IInv, i2c.bus = "transfer"
  PROVE  \E d \in Devices :
           /\ i2c.handler = d /\ dev[d].pc \in InChunk /\ dev[d].pc \in Working /\ dev[d].active
           /\ ~i2c.err /\ ~i2c.stopf /\ ~StartDue(d) /\ StopDue(d) = StopAsked(d)
           /\ dev[d] \in DeviceType /\ i2c \in BusType /\ wire \in Seq(Signals) /\ owed \in Seq(Signals)
           /\ dev \in [Devices -> DeviceType] /\ locked
<1>1. PICK d \in Devices : dev[d].pc \in InChunk
  BY DEF IInv, LockInv
<1>2. i2c.handler = d /\ dev[d].pc \in Working /\ dev[d].active /\ locked
  BY <1>1 DEF IInv, LockInv, Working, InChunk
<1>3. ~i2c.err /\ ~i2c.stopf
  BY <1>1 DEF IInv, DeviceInv, ChunkInv
<1>4. ~StartDue(d) /\ StopDue(d) = StopAsked(d)
  BY <1>1, <1>3 DEF StartDue, StopDue, StopAsked, InChunk
<1> QED
  BY <1>1, <1>2, <1>3, <1>4 DEF IInv, Types

LEMMA EventHandlerInv ==
  ASSUME IInv, EventHandler
  PROVE  IInv'
<1>0. i2c.bus = "transfer" /\ i2c.nbytes > 0 /\ i2c.ie
  BY DEF EventHandler, Runs
<1>1. PICK d \in Devices :
        /\ i2c.handler = d /\ dev[d].pc \in InChunk /\ dev[d].pc \in Working /\ dev[d].active
        /\ ~i2c.err /\ ~i2c.stopf /\ ~StartDue(d) /\ StopDue(d) = StopAsked(d)
        /\ dev[d] \in DeviceType /\ i2c \in BusType /\ wire \in Seq(Signals) /\ owed \in Seq(Signals)
        /\ dev \in [Devices -> DeviceType] /\ locked
  BY <1>0, Transferring
<1>2. /\ dev[d].len \in Nat /\ dev[d].data \in Nat /\ i2c.nbytes \in Nat
      /\ dev[d].data + i2c.nbytes <= dev[d].len /\ dev[d].data < dev[d].len
  <2>1. dev[d].len \in Nat /\ dev[d].data \in Nat /\ i2c.nbytes \in Nat
    BY <1>1, ChunkAssumption DEF DeviceType, BusType
  <2>2. dev[d].data + i2c.nbytes <= dev[d].len
    BY <1>1 DEF IInv, DeviceInv, ChunkInv
  <2> QED
    BY <1>0, <2>1, <2>2
<1> DEFINE new == [dev[d] EXCEPT !.data = dev[d].data + 1]
<1>3. /\ dev' = [dev EXCEPT ![d] = new] /\ i2c' = [i2c EXCEPT !.nbytes = i2c.nbytes - 1]
      /\ wire' = Append(wire, Byte(dev[d].data + 1)) /\ locked' = locked /\ owed' = owed
  BY <1>1, <1>2 DEF EventHandler
<1>4. new \in DeviceType
  <2>1. dev[d].data + 1 \in Nat
    BY <1>2
  <2> QED
    BY <1>1, <2>1 DEF DeviceType
<1>5. /\ i2c' \in BusType /\ i2c'.handler = d /\ i2c'.bus = "transfer" /\ i2c'.ie = i2c.ie
      /\ i2c'.stopf = i2c.stopf /\ i2c'.err = i2c.err /\ i2c'.nbytes = i2c.nbytes - 1
      /\ i2c'.reload = i2c.reload /\ i2c'.autoend = i2c.autoend
  <2>1. i2c.nbytes - 1 \in 0..MaxChunk
    BY <1>0, <1>1, ChunkAssumption DEF BusType
  <2> QED
    BY <1>0, <1>1, <1>3, <2>1 DEF BusType
<1>6. /\ dev'[d] = new /\ \A e \in Devices : e # d => dev'[e] = dev[e]
      /\ dev' \in [Devices -> DeviceType]
      /\ new.pc = dev[d].pc /\ new.active = dev[d].active /\ new.data = dev[d].data + 1
      /\ new.len = dev[d].len /\ new.next = dev[d].next /\ new.reloaded = dev[d].reloaded
      /\ new.done = dev[d].done
  BY <1>1, <1>3, <1>4 DEF DeviceType
<1> HIDE DEF new
<1>7. LockInv'
  <2>1. i2c.ie => dev[d].pc \in {"wait", "disable"}
    BY <1>1 DEF IInv, LockInv, Working, InChunk
  <2> QED
    BY <1>1, <1>3, <1>5, <1>6, <2>1, WorkingLock
<1>8. /\ Len(owed) = Len(wire) + (dev[d].len - dev[d].data) + StopAsked(d)
      /\ \A k \in 1..Len(wire) : wire[k] = owed[k]
      /\ \A k \in 1..dev[d].len : owed[Len(owed) - StopAsked(d) - dev[d].len + k] = Byte(k)
      /\ dev[d].next = "Stop" => owed[Len(owed)] = Stop
      /\ StopAsked(d) \in {0, 1}
  <2>1. WireInv(d)
    BY DEF IInv, DeviceInv
  <2>2. Len(owed) = Len(wire) + (IF StartDue(d) THEN 1 ELSE 0) + (dev[d].len - dev[d].data) + StopDue(d)
    BY <1>1, <2>1 DEF WireInv
  <2>3. StopAsked(d) \in {0, 1}
    BY DEF StopAsked
  <2>4. Len(owed) = Len(wire) + (dev[d].len - dev[d].data) + StopAsked(d)
    BY <1>1, <1>2, <2>2, <2>3
  <2> QED
    BY <1>1, <2>1, <2>3, <2>4 DEF WireInv
<1>9. /\ wire' \in Seq(Signals) /\ Len(wire') = Len(wire) + 1
      /\ \A k \in 1..Len(wire') : wire'[k] = owed[k]
  <2>1. Byte(dev[d].data + 1) \in Signals
    BY <1>2 DEF Byte, Signals
  <2>2. owed[Len(wire) + 1] = Byte(dev[d].data + 1)
    <3>1. owed[Len(owed) - StopAsked(d) - dev[d].len + (dev[d].data + 1)] = Byte(dev[d].data + 1)
      <4>1. dev[d].data + 1 \in 1..dev[d].len
        BY <1>2
      <4> QED
        BY <1>8, <4>1
    <3>2. Len(owed) - StopAsked(d) - dev[d].len + (dev[d].data + 1) = Len(wire) + 1
      BY <1>1, <1>2, <1>8
    <3> QED
      BY <3>1, <3>2
  <2> QED
    BY <1>1, <1>3, <1>8, <2>1, <2>2, AppendMatches
<1>10. Types'
  BY <1>1, <1>3, <1>5, <1>6, <1>9 DEF IInv, Types
<1>11. DeviceInv(d)'
  <2>1. LengthInv(d)'
    BY <1>2, <1>6 DEF IInv, DeviceInv, LengthInv
  <2>2. OutInv(d)' /\ TurnInv(d)'
    BY <1>1, <1>6 DEF OutInv, TurnInv, InChunk
  <2>3. ChunkInv(d)'
    <3>1. dev'[d].data + i2c'.nbytes = dev[d].data + i2c.nbytes
      BY <1>2, <1>5, <1>6
    <3>2. dev[d].pc \in {"wait", "disable"} /\ (dev[d].pc = "disable" => ~dev[d].done)
      BY <1>0, <1>1 DEF IInv, LockInv, DeviceInv, ChunkInv, Working, InChunk
    <3> QED
      BY <1>0, <1>1, <1>5, <1>6, <3>1, <3>2 DEF IInv, DeviceInv, ChunkInv
  <2>4. WireInv(d)'
    <3>1. StopAsked(d)' = StopAsked(d) /\ StopDue(d)' = StopAsked(d) /\ ~StartDue(d)'
      BY <1>1, <1>5, <1>6 DEF StopAsked, StopDue, StartDue, InChunk
    <3>2. Len(owed') = Len(wire') + (dev'[d].len - dev'[d].data) + StopAsked(d)
      BY <1>1, <1>2, <1>3, <1>6, <1>8, <1>9
    <3>3. Len(owed') = Len(wire') + (IF StartDue(d)' THEN 1 ELSE 0) + (dev'[d].len - dev'[d].data) + StopDue(d)'
      BY <1>1, <1>2, <1>3, <1>6, <1>8, <1>9, <3>1, <3>2
    <3> QED
      BY <1>3, <1>6, <1>8, <1>9, <3>1, <3>3 DEF WireInv
  <2> QED
    BY <2>1, <2>2, <2>3, <2>4 DEF DeviceInv
<1> QED
  <2>1. dev'[d].pc \in Working
    BY <1>1, <1>6
  <2> QED
    BY <1>1, <1>6, <1>7, <1>10, <1>11, <2>1, WorkingStep

\* An end of the chunk or an error: the bus changes, the devices do not.
LEMMA BusStep ==
  ASSUME IInv, NEW d \in Devices, dev[d].pc \in InChunk, dev' = dev, locked' = locked, owed' = owed,
         i2c' \in BusType, wire' \in Seq(Signals), i2c'.handler = i2c.handler, i2c'.ie = i2c.ie,
         i2c'.bus # "transfer", ChunkInv(d)', WireInv(d)'
  PROVE  IInv'
<1>1. dev[d].pc \in Working /\ dev[d].active /\ i2c.handler = d
  BY DEF IInv, LockInv, Working, InChunk
<1>2. Types'
  BY DEF IInv, Types
<1>3. LockInv'
  <2>1. i2c.ie => dev[d].pc \in {"wait", "disable"}
    BY <1>1 DEF IInv, LockInv, Working, InChunk
  <2> QED
    BY <1>1, <2>1, WorkingLock
<1>4. DeviceInv(d)'
  <2>1. LengthInv(d)'
    BY DEF IInv, DeviceInv, LengthInv
  <2>2. OutInv(d)' /\ TurnInv(d)'
    BY DEF OutInv, TurnInv, InChunk
  <2> QED
    BY <2>1, <2>2 DEF DeviceInv
<1> QED
  BY <1>1, <1>2, <1>3, <1>4, WorkingStep

LEMMA EndOfChunkInv ==
  ASSUME IInv, EndOfChunk
  PROVE  IInv'
<1>0. i2c.bus = "transfer" /\ i2c.nbytes = 0
  BY DEF EndOfChunk, Runs
<1>1. PICK d \in Devices :
        /\ i2c.handler = d /\ dev[d].pc \in InChunk /\ dev[d].pc \in Working /\ dev[d].active
        /\ ~i2c.err /\ ~i2c.stopf /\ ~StartDue(d) /\ StopDue(d) = StopAsked(d)
        /\ dev[d] \in DeviceType /\ i2c \in BusType /\ wire \in Seq(Signals) /\ owed \in Seq(Signals)
        /\ dev \in [Devices -> DeviceType] /\ locked
  BY <1>0, Transferring
<1> DEFINE stops == ~i2c.reload /\ i2c.autoend
           bus == IF i2c.reload THEN "tcr" ELSE IF i2c.autoend THEN "idle" ELSE "tc"
<1>2. /\ i2c' = [i2c EXCEPT !.bus = bus, !.stopf = stops]
      /\ wire' = (IF stops THEN Append(wire, Stop) ELSE wire)
      /\ dev' = dev /\ locked' = locked /\ owed' = owed
  BY DEF EndOfChunk
<1>3. /\ stops \in BOOLEAN /\ (stops <=> ~i2c.reload /\ i2c.autoend)
      /\ bus \in {"idle", "tc", "tcr"} /\ (bus = "idle" <=> stops) /\ (bus = "tcr" <=> i2c.reload)
  OBVIOUS
<1> HIDE DEF stops, bus
<1>4. /\ i2c' \in BusType /\ i2c'.handler = i2c.handler /\ i2c'.ie = i2c.ie /\ i2c'.bus = bus
      /\ i2c'.stopf = stops /\ i2c'.err = i2c.err /\ i2c'.nbytes = i2c.nbytes
      /\ i2c'.reload = i2c.reload /\ i2c'.autoend = i2c.autoend
  BY <1>1, <1>2, <1>3 DEF BusType
<1>5. /\ dev[d].len \in Nat /\ dev[d].data \in Nat
      /\ stops => dev[d].data = dev[d].len /\ dev[d].next = "Stop"
      /\ dev[d].next = "Stop" /\ ~stops => dev[d].data < dev[d].len
  <2>1. dev[d].len \in Nat /\ dev[d].data \in Nat
    BY <1>1 DEF DeviceType
  <2>2. /\ i2c.reload <=> dev[d].data + i2c.nbytes < dev[d].len \/ dev[d].next = "Continue"
        /\ i2c.autoend <=> dev[d].data + i2c.nbytes = dev[d].len /\ dev[d].next = "Stop"
        /\ dev[d].data + i2c.nbytes <= dev[d].len
    BY <1>1 DEF IInv, DeviceInv, ChunkInv
  <2> QED
    BY <1>0, <1>3, <2>1, <2>2
<1>6. ChunkInv(d)'
  BY <1>0, <1>1, <1>2, <1>3, <1>4 DEF IInv, DeviceInv, ChunkInv
<1>7. /\ Len(owed) = Len(wire) + (dev[d].len - dev[d].data) + StopAsked(d)
      /\ \A k \in 1..Len(wire) : wire[k] = owed[k]
      /\ \A k \in 1..dev[d].len : owed[Len(owed) - StopAsked(d) - dev[d].len + k] = Byte(k)
      /\ dev[d].next = "Stop" => owed[Len(owed)] = Stop
  <2>1. WireInv(d)
    BY DEF IInv, DeviceInv
  <2>2. Len(owed) = Len(wire) + (IF StartDue(d) THEN 1 ELSE 0) + (dev[d].len - dev[d].data) + StopDue(d)
    BY <1>1, <2>1 DEF WireInv
  <2>3. StopAsked(d) \in {0, 1}
    BY DEF StopAsked
  <2>4. Len(owed) = Len(wire) + (dev[d].len - dev[d].data) + StopAsked(d)
    BY <1>1, <1>5, <2>2, <2>3
  <2> QED
    BY <1>1, <2>1, <2>4 DEF WireInv
<1>8. ~StartDue(d)' /\ StopAsked(d)' = StopAsked(d)
  BY <1>1, <1>2 DEF StartDue, StopAsked, InChunk
<1>9. CASE stops
  <2>1. /\ wire' = Append(wire, Stop) /\ Stop \in Signals
    BY <1>2, <1>9 DEF Stop, Signals
  <2>2. StopAsked(d) = 1 /\ StopDue(d)' = 0
    BY <1>2, <1>4, <1>5, <1>9 DEF StopAsked, StopDue
  <2>3. owed[Len(wire) + 1] = Stop
    BY <1>1, <1>5, <1>7, <1>9, <2>2
  <2>4. /\ wire' \in Seq(Signals) /\ Len(wire') = Len(wire) + 1
        /\ \A k \in 1..Len(wire') : wire'[k] = owed[k]
    BY <1>1, <1>7, <2>1, <2>3, AppendMatches
  <2>5. WireInv(d)'
    <3>1. Len(owed') = Len(wire') + (IF StartDue(d)' THEN 1 ELSE 0) + (dev'[d].len - dev'[d].data) + StopDue(d)'
      BY <1>1, <1>2, <1>5, <1>7, <1>8, <1>9, <2>2, <2>4
    <3> QED
      BY <1>2, <1>7, <1>8, <2>4, <3>1 DEF WireInv
  <2> QED
    BY <1>1, <1>2, <1>3, <1>4, <1>6, <2>4, <2>5, BusStep
<1>10. CASE ~stops
  <2>1. wire' = wire
    BY <1>2, <1>10
  <2>2. StopDue(d)' = StopAsked(d) /\ StopAsked(d) \in {0, 1}
    BY <1>2, <1>4, <1>10 DEF StopAsked, StopDue
  <2>3. WireInv(d)'
    <3>1. Len(owed') = Len(wire') + (IF StartDue(d)' THEN 1 ELSE 0) + (dev'[d].len - dev'[d].data) + StopDue(d)'
      BY <1>1, <1>2, <1>5, <1>7, <1>8, <2>1, <2>2
    <3> QED
      BY <1>2, <1>7, <1>8, <2>1, <3>1 DEF WireInv
  <2> QED
    BY <1>1, <1>2, <1>3, <1>4, <1>6, <2>1, <2>3, BusStep
<1> QED
  BY <1>9, <1>10

LEMMA BusErrorInv ==
  ASSUME IInv, BusError
  PROVE  IInv'
<1>0. PICK nack \in BOOLEAN : i2c' = [i2c EXCEPT !.bus = "idle", !.err = TRUE, !.stopf = nack]
  BY DEF BusError
<1>1. i2c.bus = "transfer" /\ dev' = dev /\ locked' = locked /\ owed' = owed /\ wire' = wire
  BY DEF BusError, Runs
<1>2. PICK d \in Devices : /\ dev[d].pc \in InChunk
                           /\ i2c \in BusType /\ wire \in Seq(Signals)
  BY <1>1, Transferring
<1>3. /\ i2c' \in BusType /\ i2c'.handler = i2c.handler /\ i2c'.ie = i2c.ie /\ i2c'.bus = "idle"
      /\ i2c'.err
  BY <1>0, <1>2 DEF BusType
<1>4. ChunkInv(d)' /\ WireInv(d)'
  BY <1>3 DEF ChunkInv, WireInv
<1> QED
  BY <1>1, <1>2, <1>3, <1>4, BusStep

\* The lines are free again: nothing that the invariant speaks of has changed.
LEMMA BusFreedInv ==
  ASSUME IInv, BusFreed
  PROVE  IInv'
<1>1. dev' = dev /\ locked' = locked /\ wire' = wire /\ owed' = owed /\ i2c' = [i2c EXCEPT !.held = FALSE]
  BY DEF BusFreed
<1>2. /\ i2c' \in BusType /\ i2c'.bus = i2c.bus /\ i2c'.nbytes = i2c.nbytes /\ i2c'.reload = i2c.reload
      /\ i2c'.autoend = i2c.autoend /\ i2c'.stopf = i2c.stopf /\ i2c'.err = i2c.err /\ i2c'.ie = i2c.ie
      /\ i2c'.handler = i2c.handler
  BY <1>1 DEF IInv, Types, BusType
<1>3. Types' /\ LockInv'
  BY <1>1, <1>2 DEF IInv, Types, LockInv
<1>4. ASSUME NEW d \in Devices PROVE DeviceInv(d)'
  BY <1>1, <1>2 DEF IInv, DeviceInv, LengthInv, OutInv, TurnInv, ChunkInv, WireInv, StartDue, StopAsked, StopDue
<1> QED
  BY <1>3, <1>4 DEF IInv

LEMMA SameInv ==
  ASSUME IInv, dev' = dev, locked' = locked, i2c' = i2c, wire' = wire, owed' = owed
  PROVE  IInv'
<1>1. Types' /\ LockInv'
  BY DEF IInv, Types, LockInv
<1>2. ASSUME NEW d \in Devices PROVE DeviceInv(d)'
  BY DEF IInv, DeviceInv, LengthInv, OutInv, TurnInv, ChunkInv, WireInv, StartDue, StopAsked, StopDue
<1> QED
  BY <1>1, <1>2 DEF IInv

LEMMA NextInv ==
  ASSUME IInv, 0 \notin Lengths, [Next]_vars
  PROVE  IInv'
<1>1. ASSUME NEW d \in Devices, Step(d) PROVE IInv'
  <2>1. ASSUME NEW dir \in {"read", "write"}, NEW next \in {"Stop", "Continue", "Restart"},
               NEW len \in Lengths, Call(d, dir, next, len)
        PROVE IInv'
    BY <2>1, CallInv
  <2> QED
    BY <1>1, <2>1, AcquireInv, StartChunkInv, EnableInterruptInv, AwakeInv, DisableInterruptInv,
       CheckOkInv, CheckFailedInv, ReturnInv DEF Step
<1>2. ASSUME NEW freq \in Frequencies, OutputFrequency(freq) PROVE IInv'
  BY <1>2, SameInv DEF OutputFrequency
<1>3. CASE UNCHANGED vars
  BY <1>3, SameInv DEF vars
<1> QED
  BY <1>1, <1>2, <1>3, EventHandlerInv, EndOfChunkInv, BusErrorInv, BusFreedInv DEF Next

LEMMA InvTypes == IInv => TypeOK
<1> SUFFICES ASSUME IInv PROVE TypeOK
  OBVIOUS
<1>1. i2c.bus \in {"idle", "transfer", "tc", "tcr"} /\ i2c.nbytes \in 0..MaxChunk
      /\ i2c.handler \in Devices \cup {NoDevice} /\ locked \in BOOLEAN
  BY DEF IInv, Types, BusType
<1>2. ASSUME NEW d \in Devices
      PROVE  /\ dev[d].pc \in {"out", "acquire", "chunk", "enable", "wait", "disable", "check"}
             /\ dev[d].data \in 0..dev[d].len /\ dev[d].len \in Lengths \cup {0}
             /\ dev[d].active \in BOOLEAN /\ dev[d].reloaded \in BOOLEAN
  <2>1. dev[d] \in DeviceType /\ LengthInv(d)
    BY DEF IInv, Types, DeviceInv
  <2> QED
    BY <2>1 DEF DeviceType, InChunk, LengthInv
<1> QED
  BY <1>1, <1>2 DEF TypeOK

-----------------------------------------------------------------------------
\* Whatever the devices, the lengths of their transfers and the limit of a chunk: a
\* transfer of nothing is left out, for Acquire would owe a START that no turn of the
\* loop of Read or Write sends.
THEOREM I2CInvariant == ASSUME 0 \notin Lengths PROVE Spec => []IInv
<1>1. IInv /\ [Next]_vars => IInv'
  BY NextInv
<1> QED
  BY <1>1, InitInv, PTL DEF Spec

\* Device and the registers of the peripheral keep their types: NBYTES counts no
\* more than it can hold (I2C.cpp:121-200).
THEOREM I2CTypes == ASSUME 0 \notin Lengths PROVE Spec => []TypeOK
  BY InvTypes, I2CInvariant, PTL

\* Acquire and Release (I2C.cpp:99-119) give the peripheral to one device at a time, and a
\* device that gives it back, after any error or timeout, leaves no transfer and no interrupt
\* of its own in it: also when the lines are held by another device at the time.
THEOREM OneDeviceOnTheBus == ASSUME 0 \notin Lengths PROVE Spec => []BusFollowsLock
<1>1. IInv => BusFollowsLock
  <2> SUFFICES ASSUME IInv PROVE BusFollowsLock
    OBVIOUS
  <2>1. ASSUME ~locked PROVE i2c.bus = "idle" /\ ~i2c.ie /\ i2c.handler = NoDevice
    <3>1. \A d \in Devices : dev[d].pc \notin Working
      BY <2>1 DEF IInv, LockInv
    <3>2. ~i2c.ie
      BY <3>1 DEF IInv, LockInv, Working
    <3>3. i2c.handler \notin Devices /\ i2c.handler \in Devices \cup {NoDevice}
      BY <3>1 DEF IInv, LockInv, Types, BusType
    <3> QED
      BY <2>1, <3>2, <3>3 DEF IInv, LockInv
  <2>2. \A d \in Devices : dev[d].pc \in Working => dev[d].active /\ i2c.handler = d
    BY DEF IInv, LockInv
  <2> QED
    BY <2>1, <2>2 DEF IInv, LockInv, BusFollowsLock
<1> QED
  BY <1>1, I2CInvariant, PTL

\* When Read or Write returns true, what was asked for, and nothing else, was on the
\* bus, in any number of chunks and of continued and restarted calls.
THEOREM TransferIsExact == ASSUME 0 \notin Lengths PROVE Spec => []TransferExact
<1>1. IInv => TransferExact
  <2> SUFFICES ASSUME IInv, NEW d \in Devices, dev[d].pc = "chunk", dev[d].data >= dev[d].len
               PROVE  /\ wire = owed /\ dev[d].wx = dev[d].len
                      /\ i2c.bus = CASE dev[d].next = "Stop" -> "idle" [] dev[d].next = "Continue" -> "tcr"
                                     [] OTHER -> "tc"
    BY DEF TransferExact
  <2>1. wire = owed
    BY Complete
  <2>2. ~(dev[d].data < dev[d].len)
    BY DEF IInv, Types, DeviceType
  <2>3. TurnInv(d)
    BY DEF IInv, DeviceInv
  <2> QED
    BY <2>1, <2>2, <2>3 DEF TurnInv
<1> QED
  BY <1>1, I2CInvariant, PTL

-----------------------------------------------------------------------------
(* TimingFits.  The search of OutputFrequency is a fold; its equation over the
   subsets of 1..n is solved for one n after the other, up to the sixteen
   prescalers there are.                                                      *)
\* The turn of the loop that tries presc.
Better(freq, best, presc) ==
    LET res == (Clock \div presc) \div TBit(presc, freq)
    IN  IF best.res # freq /\ Usable(presc, freq) /\ Diff(freq, res) < Diff(best.res, res)
        THEN [res |-> res, presc |-> presc] ELSE best
Prescalers == [k \in 1..16 |-> 17 - k]
NoBest == [res |-> 0, presc |-> 0]
Search(freq, g, n) == g = [s \in SUBSET (1..n) |->
    IF s = {} THEN NoBest ELSE Better(freq, g[s \ {Max(s)}], Prescalers[Max(s)])]

\* The fold is the solution of its equation.
LEMMA BestUnfolds ==
  ASSUME NEW freq
  PROVE  Best(freq) = (CHOOSE g : Search(freq, g, 16))[1..16]
<1>1. Best(freq) = (CHOOSE g : g = [s \in SUBSET (DOMAIN Prescalers) |->
           IF s = {} THEN [res |-> 0, presc |-> 0] ELSE Better(freq, g[s \ {Max(s)}], Prescalers[Max(s)])])[DOMAIN Prescalers]
  BY Zenon DEF Best, FoldLeft, MapThenFoldSet, Better, Prescalers
<1>2. DOMAIN Prescalers = 1..16
  BY DEF Prescalers
<1> QED
  BY <1>1, <1>2, Zenon DEF Search, NoBest

\* The greatest of a set, one number further.
LEMMA MaxStep ==
  ASSUME NEW n \in Nat, \A s \in SUBSET (1..n) : s # {} => Max(s) \in s /\ \A y \in s : Max(s) >= y
  PROVE  \A s \in SUBSET (1..(n + 1)) : s # {} => Max(s) \in s /\ \A y \in s : Max(s) >= y
<1> TAKE s \in SUBSET (1..(n + 1))
<1> HAVE s # {}
<1>1. \E x \in s : \A y \in s : x >= y
  <2>1. CASE n + 1 \in s
    <3>1. \A y \in s : n + 1 >= y
      OBVIOUS
    <3> QED BY <2>1, <3>1
  <2>2. CASE n + 1 \notin s
    <3>1. s \in SUBSET (1..n)
      BY <2>2
    <3> QED BY <3>1
  <2> QED BY <2>1, <2>2
<1> QED BY <1>1 DEF Max

\* A solution for n prescalers is continued to n + 1.
LEMMA SearchStep ==
  ASSUME NEW freq, NEW n \in Nat, NEW g, Search(freq, g, n),
         \A s \in SUBSET (1..(n + 1)) : s # {} => Max(s) \in s /\ \A y \in s : Max(s) >= y
  PROVE  \E h : Search(freq, h, n + 1)
<1> DEFINE h == [s \in SUBSET (1..(n + 1)) |->
        IF n + 1 \in s THEN Better(freq, g[s \ {n + 1}], Prescalers[n + 1]) ELSE g[s]]
<1>1. \A s \in SUBSET (1..n) : h[s] = g[s]
  OBVIOUS
<1>2. ASSUME NEW s \in SUBSET (1..(n + 1))
      PROVE  h[s] = IF s = {} THEN NoBest ELSE Better(freq, h[s \ {Max(s)}], Prescalers[Max(s)])
  <2>1. CASE n + 1 \in s
    <3>1. Max(s) = n + 1
      <4>1. s # {}
        BY <2>1
      <4>2. Max(s) \in s /\ Max(s) >= n + 1
        BY <2>1, <4>1
      <4>3. Max(s) \in 1..(n + 1)
        BY <4>2
      <4> QED BY <4>2, <4>3
    <3>2. s \ {n + 1} \in SUBSET (1..n)
      OBVIOUS
    <3>3. h[s] = Better(freq, g[s \ {n + 1}], Prescalers[n + 1])
      BY <2>1
    <3>4. h[s \ {n + 1}] = g[s \ {n + 1}]
      BY <1>1, <3>2
    <3> HIDE DEF h
    <3> QED
      BY <2>1, <3>1, <3>3, <3>4
  <2>2. CASE n + 1 \notin s
    <3>1. s \in SUBSET (1..n)
      BY <2>2
    <3>2. s # {} => s \ {Max(s)} \in SUBSET (1..n)
      BY <3>1
    <3>3. g[s] = IF s = {} THEN NoBest ELSE Better(freq, g[s \ {Max(s)}], Prescalers[Max(s)])
      BY <3>1 DEF Search
    <3>4. h[s] = g[s]
      BY <1>1, <3>1
    <3>5. s # {} => h[s \ {Max(s)}] = g[s \ {Max(s)}]
      BY <1>1, <3>2
    <3> HIDE DEF h
    <3> QED
      BY <3>3, <3>4, <3>5
  <2> QED BY <2>1, <2>2
<1>3. Search(freq, h, n + 1)
  <2> DEFINE k == [s \in SUBSET (1..(n + 1)) |->
        IF s = {} THEN NoBest ELSE Better(freq, h[s \ {Max(s)}], Prescalers[Max(s)])]
  <2> h = k
    <3>1. h = [s \in SUBSET (1..(n + 1)) |-> h[s]]
      BY Zenon
    <3>2. k = [s \in SUBSET (1..(n + 1)) |-> k[s]]
      BY Zenon
    <3>3. \A s \in SUBSET (1..(n + 1)) : h[s] = k[s]
      <4> HIDE DEF h
      <4> QED BY <1>2
    <3> HIDE DEF h, k
    <3> QED BY <3>1, <3>2, <3>3
  <2> HIDE DEF h
  <2> QED BY DEF Search
<1> QED
  BY <1>3

\* What has been found is nothing, or a prescaler whose clock is usable.
Fit(freq, b) == b.res # 0 => b.presc \in 1..16 /\ Usable(b.presc, freq)
\* A turn of the loop keeps it so.
LEMMA FitStep ==
  ASSUME NEW freq, NEW g, Search(freq, g, 16), NEW n \in 0..15, Fit(freq, g[1..n]),
        \A s \in SUBSET (1..16) : s # {} => Max(s) \in s /\ \A y \in s : Max(s) >= y
  PROVE  Fit(freq, g[1..(n + 1)])
<1>1. 1..(n + 1) \in SUBSET (1..16) /\ n + 1 \in 1..(n + 1)
  OBVIOUS
<1>2. Max(1..(n + 1)) = n + 1
  <2>1. Max(1..(n + 1)) \in 1..(n + 1) /\ Max(1..(n + 1)) >= n + 1
    BY <1>1
  <2> QED BY <2>1
<1>3. (1..(n + 1)) \ {n + 1} = 1..n
  OBVIOUS
<1>4. g[1..(n + 1)] = Better(freq, g[1..n], 16 - n)
  <2>1. g[1..(n + 1)] = Better(freq, g[(1..(n + 1)) \ {Max(1..(n + 1))}], Prescalers[Max(1..(n + 1))])
    BY <1>1 DEF Search
  <2>2. Prescalers[n + 1] = 16 - n
    BY DEF Prescalers
  <2> QED BY <1>2, <1>3, <2>1, <2>2
<1> QED
  BY <1>4 DEF Fit, Better

\* A set of prescalers has a greatest one.
LEMMA MaxOf ==
  ASSUME NEW n \in 0..16
  PROVE  \A s \in SUBSET (1..n) : s # {} => Max(s) \in s /\ \A y \in s : Max(s) >= y
<1> DEFINE M(k) == \A s \in SUBSET (1..k) : s # {} => Max(s) \in s /\ \A y \in s : Max(s) >= y
<1>1. \A k \in Nat : M(k) => M(k + 1)
  BY MaxStep
<1>2. M(0)
  <2>1. \A s \in SUBSET (1..0) : s = {}
    OBVIOUS
  <2> QED BY <2>1
<1> HIDE DEF M
<1>3. M(16)
  <2>1. M(4)
    BY <1>1, <1>2
  <2>2. M(8)
    BY <1>1, <2>1
  <2>3. M(12)
    BY <1>1, <2>2
  <2> QED BY <1>1, <2>3
<1>4. SUBSET (1..n) \subseteq SUBSET (1..16)
  OBVIOUS
<1> QED
  BY <1>3, <1>4 DEF M

\* All sixteen are searched.
LEMMA SearchExists ==
  ASSUME NEW freq
  PROVE  \E g : Search(freq, g, 16)
<1> DEFINE E(n) == \E g : Search(freq, g, n)
<1>1. \A n \in 0..15 : E(n) => E(n + 1)
  BY SearchStep, MaxOf
<1>2. E(0)
  <2> DEFINE g == [s \in SUBSET (1..0) |-> NoBest]
  <2>1. Search(freq, g, 0)
    BY DEF Search
  <2> QED BY <2>1
<1> HIDE DEF E
<1>3. E(4)
  BY <1>1, <1>2
<1>4. E(8)
  BY <1>1, <1>3
<1>5. E(12)
  BY <1>1, <1>4
<1>6. E(16)
  BY <1>1, <1>5
<1> QED
  BY <1>6 DEF E

\* OutputFrequency finds nothing, or a prescaler whose clock is usable.
LEMMA BestFits ==
  ASSUME NEW freq
  PROVE  Fit(freq, Best(freq))
<1> DEFINE g == CHOOSE g : Search(freq, g, 16)
<1>1. Search(freq, g, 16)
  BY SearchExists
<1> DEFINE F(n) == Fit(freq, g[1..n])
<1>2. \A n \in 0..15 : F(n) => F(n + 1)
  <2> HIDE DEF g
  <2> TAKE n \in 0..15
  <2>1. \A s \in SUBSET (1..16) : s # {} => Max(s) \in s /\ \A y \in s : Max(s) >= y
    BY MaxOf
  <2>2. Fit(freq, g[1..n]) => Fit(freq, g[1..(n + 1)])
    <3> SUFFICES ASSUME Fit(freq, g[1..n]) PROVE Fit(freq, g[1..(n + 1)])
      OBVIOUS
    <3> QED BY <1>1, <2>1, FitStep
  <2> QED BY <2>2
<1>3. F(0)
  <2>1. g[1..0] = NoBest
    <3> HIDE DEF g
    <3>1. 1..0 = {}
      OBVIOUS
    <3>2. 1..0 \in SUBSET (1..16)
      BY <3>1
    <3> QED BY <1>1, <3>1, <3>2, Zenon DEF Search
  <2> QED BY <2>1 DEF Fit, NoBest
<1>4. F(16)
  <2> HIDE DEF F
  <2>1. F(4)
    BY <1>2, <1>3
  <2>2. F(8)
    BY <1>2, <2>1
  <2>3. F(12)
    BY <1>2, <2>2
  <2> QED BY <1>2, <2>3
<1> QED
  BY <1>4, BestUnfolds

\* The two phases of a usable clock fit into their fields.
LEMMA TimingRange ==
  ASSUME NEW tbit \in Int, (tbit * 7) \div 11 \in 5..256
  PROVE  /\ tbit - (tbit * 5) \div 11 - 1 \in 0..255
         /\ (tbit * 5) \div 11 - 1 \in 0..255
  OBVIOUS
\* A bit lasts a number of ticks.
LEMMA TBitInt ==
  ASSUME NEW freq \in Frequencies, NEW presc \in 1..16
  PROVE  TBit(presc, freq) \in Nat
<1>1. Clock \in Nat /\ freq \in Nat /\ freq > 0
  BY FrequencyAssumption
<1>2. Clock \div presc \in Nat
  BY <1>1
<1> QED
  BY <1>1, <1>2 DEF TBit

\* OutputFrequency never gives TIMINGR more than its fields can hold, for any clock
\* and frequencies.
THEOREM TimingStaysInRange == Spec => []TimingFits
<1>1. Init => TimingFits
  BY DEF Init, Reset, TimingFits
<1>2. TimingFits /\ [Next]_vars => TimingFits'
  <2> SUFFICES ASSUME TimingFits, [Next]_vars PROVE TimingFits'
    OBVIOUS
  <2>1. ASSUME NEW freq \in Frequencies, OutputFrequency(freq) PROVE TimingFits'
    <3> DEFINE b == Best(freq)
               tbit == TBit(b.presc, freq)
               scll == (tbit * 5) \div 11
    <3>1. b.presc \in 1..16 /\ (tbit * 7) \div 11 \in 5..256
      <4>1. Fit(freq, b) /\ b.res # 0
        BY <2>1, BestFits DEF OutputFrequency
      <4> QED BY <4>1 DEF Fit, Usable
    <3>2. timing' = [presc |-> b.presc - 1, sclh |-> tbit - scll - 1, scll |-> scll - 1]
      BY <2>1 DEF OutputFrequency
    <3>3. tbit \in Int
      <4> HIDE DEF b
      <4>1. TBit(b.presc, freq) \in Nat
        BY <3>1, TBitInt
      <4> QED BY <4>1
    <3> HIDE DEF b, tbit
    <3>4. tbit - scll - 1 \in 0..255 /\ scll - 1 \in 0..255
      BY <3>1, <3>3, TimingRange
    <3>5. b.presc - 1 \in 0..15
      BY <3>1
    <3> HIDE DEF scll
    <3> QED
      BY <3>2, <3>4, <3>5 DEF TimingFits
  <2>2. CASE UNCHANGED timing
    BY <2>2 DEF TimingFits
  <2>3. (\E freq \in Frequencies : OutputFrequency(freq)) \/ UNCHANGED timing
    BY DEF Next, vars, Step, Call, Acquire, StartChunk, EnableInterrupt, Awake, DisableInterrupt,
           CheckOk, CheckFailed, Return, EventHandler, EndOfChunk, BusError, BusFreed
  <2> QED
    BY <2>1, <2>2, <2>3
<1> QED
  BY <1>1, <1>2, PTL DEF Spec
=============================================================================
