-------------------------------- MODULE I2C --------------------------------
(* Master transfers of several devices on one I2C peripheral: the lock of the
   peripheral (s_locks), the chunks a transfer is made of (RELOAD, AUTOEND),
   the event handler that moves the bytes, errors and timeouts.  A device is
   used by one task, which follows the comments of I2C::Next: after Continue it
   goes on with the same operation, after Restart with any, and it does call
   again, with Stop in the end; nobody calls before OutputFrequency.          *)
EXTENDS Integers, Sequences, SequencesExt

CONSTANTS Devices,      \* devices on the bus
          NoDevice,
          Lengths,      \* lengths of a transfer
          MaxChunk,     \* the most NBYTES can hold: 255
          MaxCalls,     \* bound on the calls between START and STOP
          Clock,        \* SystemCoreClock
          Frequencies   \* frequencies asked of OutputFrequency

ASSUME DevicesAssumption == NoDevice \notin Devices
ASSUME ChunkAssumption == MaxChunk \in Nat \ {0} /\ Lengths \subseteq Nat
\* OutputFrequency divides by the frequency.
ASSUME FrequencyAssumption == Clock \in Nat /\ Frequencies \subseteq Nat \ {0}

VARIABLES locked,   \* the bit of the peripheral in s_locks
          dev,      \* per device: the Device object and the frame of its call, with
                    \* two notes: calls since START, and whether it continues one
          i2c,      \* the registers, the state of the bus, and whether another device holds
                    \* its lines
          timing,   \* TIMINGR, its fields
          wire,     \* history: what was on the bus since it was acquired
          owed      \* history: what the calls asked for since then

vars == <<locked, dev, i2c, timing, wire, owed>>

Start(dir) == <<"start", IF dir = "read" THEN 1 ELSE 0>>
Byte(n) == <<"byte", n>>
Stop == <<"stop", 0>>

IdleBus == [bus |-> "idle", nbytes |-> 0, reload |-> FALSE, autoend |-> FALSE,
            stopf |-> FALSE, err |-> FALSE, ie |-> FALSE, handler |-> NoDevice, held |-> FALSE]

NewDevice == [pc |-> "out", active |-> FALSE, reloaded |-> FALSE, wx |-> 0, calls |-> 0, continued |-> FALSE,
              dir |-> "write", next |-> "Stop", len |-> 0, data |-> 0, done |-> FALSE]

Reset == [presc |-> 0, sclh |-> 0, scll |-> 0]      \* TIMINGR

Init == /\ locked = FALSE
        /\ dev = [d \in Devices |-> NewDevice]
        /\ i2c = IdleBus
        /\ timing = Reset
        /\ wire = <<>> /\ owed = <<>>

Goto(d, pc) == [dev EXCEPT ![d].pc = pc]
Ok == i2c.stopf \/ i2c.bus \in {"tc", "tcr"}     \* ISR & I2C_ISR_OK

----------------------------------------------------------------------------
(* Device::Acquire and Release                                                *)
Released(r) == [NewDevice EXCEPT !.wx = r.wx]

Call(d, dir, next, len) ==
    /\ dev[d].pc = "out" /\ timing # Reset
    /\ dev[d].active /\ dev[d].next = "Continue" => dir = dev[d].dir
    /\ dev[d].calls + 1 = MaxCalls => next = "Stop"
    /\ dev' = [dev EXCEPT ![d] = [dev[d] EXCEPT !.pc = "acquire", !.dir = dir, !.next = next, !.len = len,
                 !.calls = dev[d].calls + 1, !.continued = dev[d].active /\ dev[d].next = "Continue"]]
    /\ UNCHANGED <<locked, i2c, timing, wire, owed>>

CanAcquire(d) == dev[d].active \/ ~locked

\* The frame of the call takes the event interrupt, and ICR clears the flags.
Acquire(d) ==
    /\ dev[d].pc = "acquire" /\ CanAcquire(d)
    /\ locked' = TRUE
    /\ dev' = [dev EXCEPT ![d] = [dev[d] EXCEPT !.pc = "chunk", !.active = TRUE,
                                           !.reloaded = dev[d].active /\ dev[d].reloaded]]
    /\ i2c' = [i2c EXCEPT !.handler = d, !.stopf = FALSE, !.err = FALSE]
    /\ owed' = owed \o (IF dev[d].continued THEN <<>> ELSE <<Start(dev[d].dir)>>)
                   \o [n \in 1..dev[d].len |-> Byte(n)]
                   \o (IF dev[d].next = "Stop" THEN <<Stop>> ELSE <<>>)
    /\ UNCHANGED <<timing, wire>>

----------------------------------------------------------------------------
(* Device::Read and Write: one turn of the loop is a chunk of the transfer     *)
\* Mutant: a chunk longer than NBYTES can hold.
NBytesAll(left) == left
NBytes(left) == IF left > MaxChunk THEN MaxChunk ELSE left

Reload(d, left) == left > MaxChunk \/ dev[d].next = "Continue"
\* Mutant: a STOP is made only for a transfer of one chunk.
AutoEndOne(d, left) == dev[d].len <= MaxChunk /\ dev[d].next = "Stop"
AutoEnd(d, left) == left <= MaxChunk /\ dev[d].next = "Stop"

\* CR2 is written: it clears TC or TCR, and a START begins a transfer anew.
StartChunk(d) ==
    /\ dev[d].pc = "chunk" /\ dev[d].data < dev[d].len
    /\ LET left == dev[d].len - dev[d].data IN
       /\ i2c' = [i2c EXCEPT !.bus = "transfer", !.nbytes = NBytes(left),
                             !.reload = Reload(d, left), !.autoend = AutoEnd(d, left)]
       /\ dev' = [dev EXCEPT ![d].reloaded = Reload(d, left), ![d].pc = "enable"]
    /\ wire' = IF dev[d].reloaded THEN wire ELSE Append(wire, Start(dev[d].dir))
    /\ UNCHANGED <<locked, timing, owed>>

EnableInterrupt(d) ==
    /\ dev[d].pc = "enable"
    /\ i2c' = [i2c EXCEPT !.ie = TRUE]
    /\ dev' = Goto(d, "wait")
    /\ UNCHANGED <<locked, timing, wire, owed>>

\* await_mask_not_ms: the flags, or the timeout, which may come at any time.
Awake(d) ==
    /\ dev[d].pc = "wait"
    /\ \E done \in BOOLEAN :
         /\ done => i2c.err \/ Ok
         /\ dev' = [dev EXCEPT ![d].pc = "disable", ![d].done = done]
    /\ UNCHANGED <<locked, i2c, timing, wire, owed>>

DisableInterrupt(d) ==
    /\ dev[d].pc = "disable"
    /\ i2c' = [i2c EXCEPT !.ie = FALSE]
    /\ dev' = [dev EXCEPT ![d].pc = "check", ![d].wx = dev[d].data]
    /\ UNCHANGED <<locked, timing, wire, owed>>

CheckOk(d) ==
    /\ dev[d].pc = "check" /\ dev[d].done /\ ~i2c.err
    /\ dev' = Goto(d, "chunk")
    /\ UNCHANGED <<locked, i2c, timing, wire, owed>>

\* Mutant: the peripheral is not reset.
ResetBusKeep(held) == [i2c EXCEPT !.held = held]
\* I2C::Reset: without PE the peripheral lets go of the bus and clears its flags;
\* the interrupt stays as it is, CR2 is written before it counts again.  The other
\* side may hold the bus still (:38, clocking it out is a TODO), and both paths go
\* on alike.
ResetBus(held) == [IdleBus EXCEPT !.ie = i2c.ie, !.handler = i2c.handler, !.held = held]

CheckFailed(d) ==
    /\ dev[d].pc = "check" /\ (~dev[d].done \/ i2c.err)
    /\ \E held \in BOOLEAN : i2c' = [ResetBus(held) EXCEPT !.handler = NoDevice]
    /\ dev' = [dev EXCEPT ![d] = Released(dev[d])]
    /\ locked' = FALSE /\ wire' = <<>> /\ owed' = <<>>
    /\ UNCHANGED timing

\* The frame ends with the call; the device keeps the bus unless it is done.
Return(d) ==
    /\ dev[d].pc = "chunk" /\ dev[d].data >= dev[d].len
    /\ i2c' = [i2c EXCEPT !.handler = NoDevice]
    /\ IF dev[d].next = "Stop"
       THEN /\ dev' = [dev EXCEPT ![d] = Released(dev[d])]
            /\ locked' = FALSE /\ wire' = <<>> /\ owed' = <<>>
       ELSE /\ dev' = [dev EXCEPT ![d] = [dev[d] EXCEPT !.pc = "out", !.data = 0, !.len = 0, !.done = FALSE]]
            /\ UNCHANGED <<locked, wire, owed>>
    /\ UNCHANGED timing

----------------------------------------------------------------------------
(* The peripheral and the other side                                          *)
\* A transfer begins when the lines are free.
Runs == i2c.bus = "transfer" /\ ~i2c.held

\* The device that holds the lines lets go of them.
BusFreed ==
    /\ i2c.held
    /\ i2c' = [i2c EXCEPT !.held = FALSE]
    /\ UNCHANGED <<locked, dev, timing, wire, owed>>

\* RXNE or TXIS: the handler moves a byte, ReadHandler and WriteHandler alike.
EventHandler ==
    /\ Runs /\ i2c.nbytes > 0 /\ i2c.ie /\ i2c.handler # NoDevice
    /\ LET d == i2c.handler IN
       /\ dev' = [dev EXCEPT ![d].data = IF @ < dev[d].len THEN @ + 1 ELSE @]
       /\ wire' = Append(wire, Byte(IF dev[d].data < dev[d].len THEN dev[d].data + 1 ELSE 0))
    /\ i2c' = [i2c EXCEPT !.nbytes = @ - 1]
    /\ UNCHANGED <<locked, timing, owed>>

EndOfChunk ==
    /\ Runs /\ i2c.nbytes = 0
    /\ i2c' = [i2c EXCEPT !.bus = IF i2c.reload THEN "tcr" ELSE IF i2c.autoend THEN "idle" ELSE "tc",
                          !.stopf = ~i2c.reload /\ i2c.autoend]
    /\ wire' = IF ~i2c.reload /\ i2c.autoend THEN Append(wire, Stop) ELSE wire
    /\ UNCHANGED <<locked, dev, timing, owed>>

\* NACKF, which makes the peripheral send a STOP, or ARLO.
BusError ==
    /\ Runs
    /\ \E nack \in BOOLEAN : i2c' = [i2c EXCEPT !.bus = "idle", !.err = TRUE, !.stopf = nack]
    /\ UNCHANGED <<locked, dev, timing, wire, owed>>

----------------------------------------------------------------------------
(* I2C::OutputFrequency, before the bus is used: the prescalers are tried from
   the highest down, a better match replaces the best so far, an exact one ends
   the search.                                                                *)
Diff(a, b) == IF a > b THEN a - b ELSE b - a
TBit(presc, freq) == (Clock \div presc) \div freq
\* Mutant: a clock that is too short is taken.
UsableShort(presc, freq) == (TBit(presc, freq) * 7) \div 11 <= 256
Usable(presc, freq) == (TBit(presc, freq) * 7) \div 11 \in 5..256
Best(freq) == FoldLeft(LAMBDA best, presc :
    LET res == (Clock \div presc) \div TBit(presc, freq)
    IN  IF best.res # freq /\ Usable(presc, freq) /\ Diff(freq, res) < Diff(best.res, res)
        THEN [res |-> res, presc |-> presc] ELSE best,
    [res |-> 0, presc |-> 0], [k \in 1..16 |-> 17 - k])

OutputFrequency(freq) ==
    /\ \A d \in Devices : dev[d] = NewDevice
    /\ Best(freq).res # 0
    /\ LET tbit == TBit(Best(freq).presc, freq)
           scll == (tbit * 5) \div 11
       IN  timing' = [presc |-> Best(freq).presc - 1, sclh |-> tbit - scll - 1, scll |-> scll - 1]
    /\ UNCHANGED <<locked, dev, i2c, wire, owed>>

----------------------------------------------------------------------------
Step(d) == \/ \E dir \in {"read", "write"}, next \in {"Stop", "Continue", "Restart"}, len \in Lengths :
                  Call(d, dir, next, len)
           \/ Acquire(d) \/ StartChunk(d) \/ EnableInterrupt(d) \/ Awake(d)
           \/ DisableInterrupt(d) \/ CheckOk(d) \/ CheckFailed(d) \/ Return(d)

Next == \/ \E d \in Devices : Step(d)
        \/ EventHandler \/ EndOfChunk \/ BusError \/ BusFreed
        \/ \E freq \in Frequencies : OutputFrequency(freq)

Spec == Init /\ [][Next]_vars

----------------------------------------------------------------------------
(* The variables have their types: NBYTES counts no more than it can hold.     *)
TypeOK ==
    /\ locked \in BOOLEAN
    /\ \A d \in Devices :
         /\ dev[d].pc \in {"out", "acquire", "chunk", "enable", "wait", "disable", "check"}
         /\ dev[d].data \in 0..dev[d].len /\ dev[d].len \in Lengths \cup {0}
         /\ dev[d].active \in BOOLEAN /\ dev[d].reloaded \in BOOLEAN
    /\ i2c.bus \in {"idle", "transfer", "tc", "tcr"} /\ i2c.nbytes \in 0..MaxChunk
    /\ i2c.handler \in Devices \cup {NoDevice}

(* I2C::OutputFrequency (I2C.cpp:45-95): TIMINGR holds what its fields, four
   bits for the prescaler and eight for each phase of the clock, can hold.     *)
TimingFits == timing \in [presc : 0..15, sclh : 0..255, scll : 0..255]

Working == {"chunk", "enable", "wait", "disable", "check"}

(* Acquire and Release (I2C.cpp:99-119) give the peripheral to one device at a
   time; while nobody holds the lock no transfer of an earlier one, and no
   clock that it stretches, is left in the peripheral, also after an error or a
   timeout.  That the lines are free then it does not say: see FreeWhenUnlocked. *)
BusFollowsLock ==
    /\ \A d, e \in Devices : dev[d].active /\ dev[e].active => d = e
    /\ locked <=> \E d \in Devices : dev[d].active
    /\ ~locked => i2c.bus = "idle" /\ ~i2c.ie /\ i2c.handler = NoDevice
    /\ \A d \in Devices : dev[d].pc \in Working => dev[d].active /\ i2c.handler = d

(* I2C.h:61: Reset resets the bus, and the next device finds it free.  The code
   breaks this when it is busy after the reset (I2C.cpp:33-39): the lock is
   released all the same (:186-187), and the next transfer waits for the lines. *)
FreeWhenUnlocked == ~locked => ~i2c.held

(* When a call returns true, all it was asked for, and nothing else, was on the
   bus since the device acquired it: no START within what is continued, one
   where it is restarted, every byte once, and the STOP at the end, whatever
   the chunks were; and Transferred() says so.                                *)
TransferExact == \A d \in Devices :
    dev[d].pc = "chunk" /\ dev[d].data >= dev[d].len =>
        /\ wire = owed /\ dev[d].wx = dev[d].len
        /\ i2c.bus = CASE dev[d].next = "Stop" -> "idle" [] dev[d].next = "Continue" -> "tcr"
                       [] OTHER -> "tc"
=============================================================================
