----------------------------- MODULE DriversProofs -----------------------------
(* The drivers for any constants: the invariant of each, and that a behaviour
   that exercises one of them keeps all of them.                              *)
EXTENDS MCDrivers, I2CProofs

\* A driver that is not exercised keeps its variables; a step of the others is one
\* of its own, or none.
AllVars == <<part, vars, sd, flash, rtc, claim>>
-----------------------------------------------------------------------------
(* DMAClaim: a channel that is held is taken, and its request line is that of
   the one user who holds it.                                                 *)
ClaimInv ==
    /\ ccr \in [DC!Channels -> {"zero", "mem2mem", "programmed"}]
    /\ csel \in [DC!Channels -> Users \cup {"reset"}]
    /\ holds \in [Users -> DC!Channels \cup {DC!None}]
    /\ \A u \in Users : holds[u] # DC!None => ccr[holds[u]] # "zero" /\ csel[holds[u]] = u

LEMMA ClaimInit == DC!Init => ClaimInv
  BY DEF DC!Init, ClaimInv

LEMMA ClaimNext == ClaimInv /\ DC!Next => ClaimInv'
<1> SUFFICES ASSUME ClaimInv, NEW u \in Users,
                    DC!Program(u) \/ DC!Release(u) \/ \E specs \in Specs : DC!ClaimChannel(u, specs)
             PROVE  ClaimInv'
  BY DEF DC!Next
<1>0. DC!None \notin DC!Channels
  BY DEF DC!None, DC!Channels
<1>1. CASE DC!Program(u)
  <2>1. holds[u] \in DC!Channels
    BY <1>1 DEF ClaimInv, DC!Program
  <2> QED
    BY <1>1, <2>1 DEF ClaimInv, DC!Program
<1>2. CASE DC!Release(u)
  <2>1. holds[u] \in DC!Channels
    BY <1>2 DEF ClaimInv, DC!Release
  <2>2. \A v \in Users : v # u /\ holds[v] # DC!None => holds[v] # holds[u]
    BY <1>2 DEF ClaimInv, DC!Release
  <2> QED
    BY <1>2, <2>1, <2>2 DEF ClaimInv, DC!Release
<1>3. ASSUME NEW specs \in Specs, DC!ClaimChannel(u, specs) PROVE ClaimInv'
  <2>1. PICK k \in 1..Len(specs) :
          /\ DC!Free(specs[k])
          /\ csel' = [csel EXCEPT ![specs[k]] = u]
          /\ ccr' = [ccr EXCEPT ![specs[k]] = "mem2mem"]
          /\ holds' = [holds EXCEPT ![u] = specs[k]]
    BY <1>3 DEF DC!ClaimChannel
  <2>2. specs[k] \in DC!Channels
    BY SpecsAssumption
  <2>3. \A v \in Users : holds[v] # DC!None => holds[v] # specs[k]
    BY <2>1 DEF ClaimInv, DC!Free
  <2> QED
    BY <1>0, <2>1, <2>2, <2>3 DEF ClaimInv
<1> QED
  BY <1>1, <1>2, <1>3

LEMMA ClaimSame == ClaimInv /\ UNCHANGED claim => ClaimInv'
  BY DEF ClaimInv, claim

LEMMA LinksApart ==
  ASSUME NEW c \in DC!Channels, NEW e \in DC!Channels, c # e
  PROVE  DC!LinkBytes(c) \cap DC!LinkBytes(e) = {}
  BY DEF DC!Channels, DC!LinkBytes

LEMMA ClaimOwner == ClaimInv => DC!OneOwner
<1> SUFFICES ASSUME ClaimInv, NEW u \in Users, NEW v \in Users, holds[u] # DC!None, u # v
             PROVE  /\ csel[holds[u]] = u
                    /\ holds[v] # DC!None => DC!LinkBytes(holds[u]) \cap DC!LinkBytes(holds[v]) = {}
  BY DEF DC!OneOwner
<1>1. csel[holds[u]] = u /\ holds[u] \in DC!Channels
  BY DEF ClaimInv
<1>2. ASSUME holds[v] # DC!None PROVE DC!LinkBytes(holds[u]) \cap DC!LinkBytes(holds[v]) = {}
  <2>1. holds[v] \in DC!Channels /\ holds[v] # holds[u]
    BY <1>2 DEF ClaimInv
  <2> QED
    BY <1>1, <2>1, LinksApart
<1> QED
  BY <1>1, <1>2
-----------------------------------------------------------------------------
(* Remainders, of any divisor.                                                *)
LEMMA ModRange ==
  ASSUME NEW n \in Nat \ {0}, NEW a \in Int
  PROVE  a % n \in 0..(n-1)
  OBVIOUS

LEMMA ModDiv ==
  ASSUME NEW n \in Nat \ {0}, NEW a \in Int
  PROVE  a \div n \in Int /\ a = n * (a \div n) + (a % n)
  OBVIOUS

LEMMA ModUnique ==
  ASSUME NEW n \in Nat \ {0}, NEW q \in Int, NEW r \in 0..(n-1), NEW a,
         a = n * q + r
  PROVE  a % n = r
  OBVIOUS

LEMMA ModSmall ==
  ASSUME NEW n \in Nat \ {0}, NEW r \in 0..(n-1)
  PROVE  r % n = r
  OBVIOUS

LEMMA ModSplit ==
  ASSUME NEW n \in Nat \ {0}, NEW a \in Int
  PROVE  \E q \in Int, r \in 0..(n-1) : a % n = r /\ a = n * q + r
<1>1. a \div n \in Int /\ a % n \in 0..(n-1) /\ a = n * (a \div n) + (a % n)
  BY ModDiv, ModRange
<1> QED
  BY ONLY <1>1

LEMMA ModEq ==
  ASSUME NEW n \in Nat \ {0}, NEW a \in Int, NEW c \in Int, NEW q \in Int,
         a = c + n * q
  PROVE  a % n = c % n
<1>1. PICK p \in Int, r \in 0..(n-1) : c % n = r /\ c = n * p + r
  BY ModSplit
<1>2. a = n * (p + q) + r
  BY <1>1
<1>3. p + q \in Int
  OBVIOUS
<1>4. a % n = r
  BY <1>2, <1>3, ModUnique
<1> QED
  BY <1>1, <1>4

LEMMA ModAdd ==
  ASSUME NEW n \in Nat \ {0}, NEW a \in Int, NEW b \in Int
  PROVE  ((a % n) + b) % n = (a + b) % n
<1>1. PICK q \in Int, r \in 0..(n-1) : a % n = r /\ a = n * q + r
  BY ModSplit
<1>2. a + b = (r + b) + n * q /\ a + b \in Int /\ r + b \in Int
  BY <1>1
<1>3. (a + b) % n = (r + b) % n
  BY <1>2, ModEq
<1> QED
  BY <1>1, <1>3

LEMMA ModSub ==
  ASSUME NEW n \in Nat \ {0}, NEW a \in Int, NEW b \in Int
  PROVE  (b - (a % n)) % n = (b - a) % n
<1>1. PICK q \in Int, r \in 0..(n-1) : a % n = r /\ a = n * q + r
  BY ModSplit
<1>2. b - r = (b - a) + n * q /\ b - r \in Int /\ b - a \in Int
  BY <1>1
<1>3. (b - r) % n = (b - a) % n
  BY <1>2, ModEq
<1> QED
  BY <1>1, <1>3

LEMMA ModStep ==
  ASSUME NEW n \in Nat \ {0}, NEW a \in Int, NEW k \in Nat
  PROVE  (a + k) % n <= (a % n) + k
<1>1. PICK r \in 0..(n-1) : a % n = r
  BY ModRange
<1>2. (r + k) % n = (a + k) % n
  <2>0. k \in Int
    OBVIOUS
  <2>1. ((a % n) + k) % n = (a + k) % n
    BY <2>0, ModAdd
  <2> QED
    BY <1>1, <2>1
<1> DEFINE c == r + k
<1>c. c \in Int
  OBVIOUS
<1> HIDE DEF c
<1>3. PICK q \in Int, s \in 0..(n-1) : c % n = s /\ c = n * q + s
  BY <1>c, ModSplit
<1>4. s <= r + k
  <2>1. CASE q <= -1
    <3>1. n * q <= -n
      BY ONLY <2>1, n \in Nat \ {0}, q \in Int
    <3>2. n * q + s < 0
      BY <3>1
    <3> QED
      BY <1>3, <3>2 DEF c
  <2>2. CASE q >= 0
    <3>1. n * q >= 0
      BY ONLY <2>2, n \in Nat \ {0}, q \in Int
    <3> QED
      BY <1>3, <3>1 DEF c
  <2> QED
    BY <2>1, <2>2
<1> QED
  BY <1>1, <1>2, <1>3, <1>4 DEF c
-----------------------------------------------------------------------------
(* RTCTime: what is due when the kernel sleeps.  Prompt is what the time base
   asks of the kernel: the clock is read at once behind a sleep, and the alarm
   is set up within the ticks that _stm32_rtc_setup_wake makes up for.        *)
Prompt == Latency = 0 /\ Delay < RT!Half /\ Delay + 1 < Close /\ Close <= Period

Due == read.at + RT!SsrSleep

RtcTypes ==
    /\ now \in 0..MaxTime /\ read \in [at : Nat, us : Nat, late : BOOLEAN, wakeAt : Nat] /\ until \in Nat
    /\ state \in [last : 0..(Period - 1), mono : 0..(MonoPeriod - 1), last64 : 0..(MonoPeriod - 1), t64 : Nat]
    /\ alarm \in [ssr : {RT!Off} \cup 0..(Period - 1), event : BOOLEAN]
    /\ pc \in {"run", "setup", "check", "sleep", "woken"}

\* What was read is what the counter showed then, and the long time is not ahead
\* of the time it was read at, and behind it by ranges of the clock.
ReadInv == /\ read.at <= now
           /\ state.last = (-read.at) % Period /\ state.mono = read.at % MonoPeriod
           /\ read.us <= read.at /\ state.last64 = read.us % MonoPeriod
           /\ state.t64 <= read.us /\ state.t64 % MonoPeriod = read.us % MonoPeriod
           /\ ~read.late => state.t64 = read.us

\* The counter has not come round since, and the alarm is due, or its event is there.
SleepInv ==
    /\ now <= read.at + Period - 1
    /\ pc \in {"setup", "check"} => now <= read.at + Delay
    /\ pc \in {"setup", "check", "sleep"} => read.wakeAt >= state.mono
    /\ pc \in {"check", "sleep"} => alarm.ssr = (-Due) % Period /\ Due <= until
    /\ pc = "sleep" => alarm.event \/ now < Due
    /\ pc = "woken" => until = now

RtcInv == RtcTypes /\ ReadInv /\ SleepInv

LEMMA RtcInit == RT!Init => RtcInv
<1> SUFFICES ASSUME RT!Init PROVE RtcInv
  OBVIOUS
<1> USE RtcAssumption DEF RT!Init
<1>1. RtcTypes
  BY DEF RtcTypes, RT!Off
<1>2. 0 % Period = 0 /\ 0 % MonoPeriod = 0
  BY ModSmall
<1>3. ReadInv /\ SleepInv
  BY <1>2 DEF ReadInv, SleepInv
<1> QED
  BY <1>1, <1>3 DEF RtcInv

\* Reading the clock, within a period of the last time, shows the time.
LEMMA MonoIsNow ==
  ASSUME RtcInv
  PROVE  /\ RT!Mono(state) = [state EXCEPT !.last = (-now) % Period, !.mono = now % MonoPeriod]
         /\ now % MonoPeriod \in 0..(MonoPeriod - 1) /\ (-now) % Period \in 0..(Period - 1)
<1> USE RtcAssumption
<1>1. now \in Nat /\ read.at \in Nat /\ now - read.at \in 0..(Period - 1)
  BY DEF RtcInv, RtcTypes, ReadInv, SleepInv
<1>2. RT!Elapsed(state) = now - read.at
  <2> DEFINE at == -read.at
             then == -now
             ssr == then % Period
  <2>0. at \in Int /\ then \in Int
    BY <1>1
  <2>1. RT!SSR = ssr
    BY DEF RT!SSR
  <2>2. RT!Elapsed(state) = ((at % Period) - ssr) % Period
    BY <2>1 DEF RT!Elapsed, RtcInv, ReadInv
  <2>3. ssr \in Int
    BY <2>0, ModRange
  <2>4. at - then = now - read.at
    BY <1>1
  <2> HIDE DEF at, then
  <2>5. (at - ssr) % Period = (at - then) % Period
    BY <2>0, ModSub
  <2> HIDE DEF ssr
  <2>6. -ssr \in Int
    BY <2>3
  <2>7. ((at % Period) + (-ssr)) % Period = (at + (-ssr)) % Period
    BY <2>0, <2>6, ModAdd
  <2>8. (at % Period) + (-ssr) = (at % Period) - ssr /\ at + (-ssr) = at - ssr
    <3>1. at % Period \in Int
      BY <2>0, ModRange
    <3> QED
      BY <2>0, <2>3, <3>1
  <2>9. (now - read.at) % Period = now - read.at
    BY <1>1, ModSmall
  <2> QED
    BY <2>2, <2>4, <2>5, <2>7, <2>8, <2>9
<1>3. (state.mono + RT!Elapsed(state)) % MonoPeriod = now % MonoPeriod
  <2> DEFINE ticks == now - read.at
  <2>1. ticks \in Int /\ read.at \in Int /\ read.at + ticks = now
    BY <1>1
  <2>2. RT!Elapsed(state) = ticks /\ state.mono = read.at % MonoPeriod
    BY <1>2 DEF RtcInv, ReadInv
  <2> HIDE DEF ticks
  <2>3. ((read.at % MonoPeriod) + ticks) % MonoPeriod = (read.at + ticks) % MonoPeriod
    BY <2>1, ModAdd
  <2> QED
    BY <2>1, <2>2, <2>3
<1>4. RT!SSR = (-now) % Period
  BY DEF RT!SSR
<1>5. now % MonoPeriod \in 0..(MonoPeriod - 1) /\ (-now) % Period \in 0..(Period - 1)
  BY <1>1, ModRange
<1> QED
  BY <1>3, <1>4, <1>5 DEF RT!Mono

\* The long time lags no more than the clock does.
LEMMA LongTime ==
  ASSUME RtcInv, NEW more, more = ((now % MonoPeriod) - state.last64) % MonoPeriod
  PROVE  /\ more \in 0..(MonoPeriod - 1) /\ state.t64 + more <= now
         /\ (state.t64 + more) % MonoPeriod = now % MonoPeriod
         /\ ~read.late /\ now - read.us < MonoPeriod => state.t64 + more = now
<1> USE RtcAssumption
<1> DEFINE ticks == now - read.us
<1>0. now \in Int /\ read.us \in Int /\ state.t64 \in Int /\ ticks \in Int
  BY DEF RtcInv, RtcTypes
<1>1. now \in Nat /\ read.us \in Nat /\ state.t64 \in Nat /\ ticks \in Nat /\ read.us + ticks = now
  BY DEF RtcInv, RtcTypes, ReadInv
<1>2. /\ state.last64 = read.us % MonoPeriod /\ state.t64 % MonoPeriod = read.us % MonoPeriod
      /\ state.t64 <= read.us
      /\ ~read.late => state.t64 = read.us
  BY DEF RtcInv, ReadInv
<1>3. more = ticks % MonoPeriod
  <2> DEFINE back == -(read.us % MonoPeriod)
  <2>1. read.us % MonoPeriod \in Int /\ now % MonoPeriod \in Int
    BY <1>1, ModRange
  <2>2. back \in Int /\ (now % MonoPeriod) - (read.us % MonoPeriod) = (now % MonoPeriod) + back
        /\ now + back = now - (read.us % MonoPeriod)
    BY <1>1, <2>1
  <2> HIDE DEF back
  <2>3. ((now % MonoPeriod) + back) % MonoPeriod = (now + back) % MonoPeriod
    BY <1>0, <2>2, ModAdd
  <2>4. (now - (read.us % MonoPeriod)) % MonoPeriod = (now - read.us) % MonoPeriod
    BY <1>0, ModSub
  <2> QED
    BY <1>2, <2>2, <2>3, <2>4
<1> HIDE DEF ticks
<1>4. more \in 0..(MonoPeriod - 1)
  BY <1>0, <1>3, ModRange
<1>4i. more \in Int
  BY <1>4
<1>5. more <= ticks
  <2>1. (0 + ticks) % MonoPeriod <= (0 % MonoPeriod) + ticks
    BY <1>1, ModStep, 0 \in Int
  <2>2. 0 % MonoPeriod = 0 /\ 0 + ticks = ticks
    <3>1. 0 \in 0..(MonoPeriod - 1)
      OBVIOUS
    <3> QED
      BY <1>0, <3>1, ModSmall
  <2> QED
    BY <1>1, <1>3, <2>1, <2>2
<1>6. (state.t64 + more) % MonoPeriod = now % MonoPeriod
  <2>1. (state.t64 + more) % MonoPeriod = (read.us + more) % MonoPeriod
    <3>1. ((state.t64 % MonoPeriod) + more) % MonoPeriod = (state.t64 + more) % MonoPeriod
      BY <1>0, <1>4i, ModAdd
    <3>2. ((read.us % MonoPeriod) + more) % MonoPeriod = (read.us + more) % MonoPeriod
      BY <1>0, <1>4i, ModAdd
    <3> QED
      BY <1>2, <3>1, <3>2
  <2>2. (read.us + more) % MonoPeriod = (read.us + ticks) % MonoPeriod
    <3>1. ((ticks % MonoPeriod) + read.us) % MonoPeriod = (ticks + read.us) % MonoPeriod
      BY <1>0, ModAdd
    <3>2. more + read.us = read.us + more /\ ticks + read.us = read.us + ticks
      BY <1>1, <1>4
    <3> QED
      BY <1>3, <3>1, <3>2
  <2> QED
    BY <1>1, <2>1, <2>2
<1>7. ASSUME ~read.late, now - read.us < MonoPeriod PROVE state.t64 + more = now
  <2>1. ticks \in 0..(MonoPeriod - 1)
    BY <1>1, <1>7 DEF ticks
  <2>2. more = ticks
    BY <1>3, <2>1, ModSmall
  <2> QED
    BY <1>1, <1>2, <1>7, <2>2
<1>8. state.t64 + more <= now
  BY <1>1, <1>2, <1>4, <1>5
<1> QED
  BY <1>4, <1>6, <1>7, <1>8

LEMMA ReadClockInv == RtcInv /\ RT!ReadClock => RtcInv'
<1> SUFFICES ASSUME RtcInv, RT!ReadClock PROVE RtcInv'
  OBVIOUS
<1> USE RtcAssumption
<1>1. /\ state' = [state EXCEPT !.last = (-now) % Period, !.mono = now % MonoPeriod]
      /\ now % MonoPeriod \in 0..(MonoPeriod - 1) /\ (-now) % Period \in 0..(Period - 1)
  BY MonoIsNow DEF RT!ReadClock
<1>2. /\ read' = [read EXCEPT !.at = now] /\ now' = now /\ alarm' = alarm /\ pc' = pc /\ until' = until
      /\ pc = "run"
  BY DEF RT!ReadClock
<1>3. RtcTypes'
  <2> DEFINE ssr == (-now) % Period
             mono == now % MonoPeriod
  <2>1. state' = [state EXCEPT !.last = ssr, !.mono = mono] /\ mono \in 0..(MonoPeriod - 1) /\ ssr \in 0..(Period - 1)
    BY <1>1
  <2> HIDE DEF ssr, mono
  <2>2. state' \in [last : 0..(Period - 1), mono : 0..(MonoPeriod - 1), last64 : 0..(MonoPeriod - 1), t64 : Nat]
    BY <2>1 DEF RtcInv, RtcTypes
  <2> QED
    BY <1>2, <2>2 DEF RtcInv, RtcTypes
<1>4. /\ state'.last = (-now) % Period /\ state'.mono = now % MonoPeriod
      /\ state'.last64 = state.last64 /\ state'.t64 = state.t64
      /\ read'.at = now /\ read'.us = read.us /\ read'.late = read.late
  BY <1>1, <1>2 DEF RtcInv, RtcTypes
<1>5. ReadInv'
  BY <1>2, <1>4 DEF RtcInv, RtcTypes, ReadInv
<1>6. SleepInv'
  BY <1>2, <1>4 DEF RtcInv, RtcTypes, SleepInv
<1> QED
  BY <1>3, <1>5, <1>6 DEF RtcInv

LEMMA ReadMicrosecondsInv == RtcInv /\ RT!ReadMicroseconds => RtcInv'
<1> SUFFICES ASSUME RtcInv, RT!ReadMicroseconds PROVE RtcInv'
  OBVIOUS
<1> USE RtcAssumption
<1> DEFINE s == [state EXCEPT !.last = (-now) % Period, !.mono = now % MonoPeriod]
           more == ((now % MonoPeriod) - state.last64) % MonoPeriod
           late == read.late \/ now - read.us >= MonoPeriod
<1>1. /\ state' = [s EXCEPT !.last64 = s.mono, !.t64 = s.t64 + ((s.mono - s.last64) % MonoPeriod)]
      /\ now % MonoPeriod \in 0..(MonoPeriod - 1) /\ (-now) % Period \in 0..(Period - 1)
  BY MonoIsNow DEF RT!ReadMicroseconds
<1>2. /\ read' = [read EXCEPT !.at = now, !.us = now, !.late = late]
      /\ now' = now /\ alarm' = alarm /\ pc' = pc /\ until' = until
      /\ pc = "run"
  BY DEF RT!ReadMicroseconds
<1>3. /\ s.last = (-now) % Period /\ s.mono = now % MonoPeriod /\ s.t64 = state.t64 /\ s.last64 = state.last64
      /\ s \in [last : 0..(Period - 1), mono : 0..(MonoPeriod - 1), last64 : 0..(MonoPeriod - 1), t64 : Nat]
  BY <1>1 DEF RtcInv, RtcTypes
<1>4. (s.mono - s.last64) % MonoPeriod = more
  BY <1>3
<1>5. state.t64 \in Nat /\ now \in Nat /\ read.us \in Nat
  BY DEF RtcInv, RtcTypes
<1>6. late \in BOOLEAN /\ (~late => ~read.late /\ now - read.us < MonoPeriod)
  BY <1>5 DEF RtcInv, RtcTypes
<1> HIDE DEF s, more, late
<1>7. /\ more \in 0..(MonoPeriod - 1) /\ state.t64 + more <= now
      /\ (state.t64 + more) % MonoPeriod = now % MonoPeriod
      /\ ~late => state.t64 + more = now
  BY <1>6, LongTime DEF more
<1>8. state.t64 + more \in Nat
  BY <1>5, <1>7
<1>9. state' = [s EXCEPT !.last64 = s.mono, !.t64 = state.t64 + more]
  BY <1>1, <1>3, <1>4
<1>10. /\ state'.last = (-now) % Period /\ state'.mono = now % MonoPeriod
       /\ state'.last64 = now % MonoPeriod /\ state'.t64 = state.t64 + more
  BY <1>3, <1>9
<1>11. state' \in [last : 0..(Period - 1), mono : 0..(MonoPeriod - 1), last64 : 0..(MonoPeriod - 1), t64 : Nat]
  BY <1>3, <1>8, <1>9
<1>12. /\ read' \in [at : Nat, us : Nat, late : BOOLEAN, wakeAt : Nat]
       /\ read'.at = now /\ read'.us = now /\ read'.late = late
  BY <1>2, <1>5, <1>6 DEF RtcInv, RtcTypes
<1>13. RtcTypes'
  BY <1>2, <1>11, <1>12 DEF RtcInv, RtcTypes
<1>14. ReadInv'
  BY <1>2, <1>5, <1>7, <1>10, <1>12 DEF ReadInv
<1>15. SleepInv'
  BY <1>2, <1>12 DEF RtcInv, RtcTypes, SleepInv
<1> QED
  BY <1>13, <1>14, <1>15 DEF RtcInv

LEMMA DecideToSleepInv == RtcInv /\ (\E ticks \in 0..Period : RT!DecideToSleep(ticks)) => RtcInv'
<1> SUFFICES ASSUME RtcInv, NEW ticks \in 0..Period, RT!DecideToSleep(ticks) PROVE RtcInv'
  OBVIOUS
<1> USE RtcAssumption
<1>1. /\ read' = [read EXCEPT !.wakeAt = state.mono + ticks] /\ now' = now /\ alarm' = alarm
      /\ pc' = "setup" /\ until' = until /\ state' = state /\ read.at = now
  BY DEF RT!DecideToSleep
<1>2. state.mono \in Nat /\ state.mono + ticks \in Nat
  BY DEF RtcInv, RtcTypes
<1>3. /\ RtcTypes' /\ read'.at = read.at /\ read'.wakeAt = state.mono + ticks
      /\ read'.us = read.us /\ read'.late = read.late
  BY <1>1, <1>2 DEF RtcInv, RtcTypes
<1>4. ReadInv'
  BY <1>1, <1>3 DEF RtcInv, ReadInv
<1>5. SleepInv'
  BY <1>1, <1>2, <1>3 DEF RtcInv, RtcTypes, SleepInv
<1> QED
  BY <1>3, <1>4, <1>5 DEF RtcInv

\* The alarm is set to what the counter shows when it is due.
LEMMA AlarmIsDue ==
  ASSUME RtcInv, read.wakeAt >= state.mono
  PROVE  /\ RT!SsrSleep \in 0..(Period - 1) /\ Due \in Nat /\ Due = read.at + RT!SsrSleep
         /\ Due <= read.at + Period - 1
         /\ RT!WakeSsr = (-Due) % Period /\ RT!WakeSsr \in 0..(Period - 1)
<1> USE RtcAssumption
<1>1. RT!SsrSleep \in 0..(Period - 1)
  <2>1. read.wakeAt \in Nat /\ state.mono \in Nat
    BY DEF RtcInv, RtcTypes
  <2> QED
    BY <2>1 DEF RT!SsrSleep, RT!Smaller
<1>2. Due \in Nat /\ Due = read.at + RT!SsrSleep /\ Due <= read.at + Period - 1 /\ read.at \in Nat
  BY <1>1 DEF Due, RtcInv, RtcTypes
<1> DEFINE at == -read.at
           less == -RT!SsrSleep
<1>3. at \in Int /\ less \in Int /\ at + less = -Due /\ state.last = at % Period
  <2>1. at \in Int /\ less \in Int /\ at + less = -Due
    BY <1>1, <1>2
  <2>2. state.last = at % Period
    BY Zenon DEF RtcInv, ReadInv
  <2> QED
    BY <2>1, <2>2
<1>4. state.last - RT!SsrSleep = (at % Period) + less
  <2>1. state.last \in Int
    BY DEF RtcInv, RtcTypes
  <2> QED
    BY <1>1, <1>3, <2>1
<1> HIDE DEF at, less
<1>5. ((at % Period) + less) % Period = (at + less) % Period
  BY <1>3, ModAdd
<1>6. RT!WakeSsr = (-Due) % Period
  BY <1>3, <1>4, <1>5 DEF RT!WakeSsr
<1>7. (-Due) % Period \in 0..(Period - 1)
  <2>1. -Due \in Int
    BY <1>2
  <2> QED
    BY <2>1, ModRange
<1> QED
  BY <1>1, <1>2, <1>6, <1>7

\* An alarm that has been missed is close enough to be made up for.
LEMMA MissedIsClose ==
  ASSUME RtcInv, Prompt, pc = "check", now >= Due
  PROVE  RT!SsrSleep < RT!Half /\ RT!ToGo < Close
<1> USE RtcAssumption
<1>1. /\ RT!SsrSleep \in 0..(Period - 1) /\ Due \in Nat /\ Due = read.at + RT!SsrSleep
      /\ RT!WakeSsr = (-Due) % Period /\ RT!WakeSsr \in 0..(Period - 1)
  BY AlarmIsDue DEF RtcInv, SleepInv
<1>2. now \in Nat /\ now <= read.at + Delay /\ read.at \in Nat
  BY DEF RtcInv, RtcTypes, SleepInv
<1>3. RT!SsrSleep <= Delay /\ RT!SsrSleep < RT!Half
  <2>1. RT!Half \in Int
    BY DEF RT!Half
  <2> QED
    BY <1>1, <1>2, <2>1 DEF Prompt
<1>4. now - Due + 1 \in 0..(Period - 1) /\ now - Due + 1 < Close
  BY <1>1, <1>2 DEF Prompt
<1> DEFINE due == -Due
           then == -now
           rest == 1 - RT!SSR
           late == now - Due + 1
<1>5. /\ due \in Int /\ then \in Int /\ due + 1 \in Int /\ (due + 1) - then = late
      /\ RT!SSR = then % Period
  BY <1>1, <1>2 DEF RT!SSR
<1>6. RT!SSR \in 0..(Period - 1)
  BY <1>5, ModRange
<1>7. /\ rest \in Int /\ RT!WakeSsr - RT!SSR + 1 = RT!WakeSsr + rest /\ due + rest = (due + 1) - RT!SSR
  <2>1. RT!WakeSsr \in Int /\ due \in Int /\ RT!SSR \in Int
    BY <1>1, <1>5, <1>6
  <2> HIDE DEF due
  <2> QED
    BY <2>1
<1> HIDE DEF due, then, rest, late
<1>8. ((due % Period) + rest) % Period = (due + rest) % Period
  BY <1>5, <1>7, ModAdd
<1>9. ((due + 1) - (then % Period)) % Period = ((due + 1) - then) % Period
  BY <1>5, ModSub
<1>10. late % Period = late
  BY <1>4, ModSmall DEF late
<1>11. RT!ToGo = (RT!WakeSsr + rest) % Period
  BY <1>7 DEF RT!ToGo
<1>12. RT!WakeSsr = due % Period
  BY <1>1, Zenon DEF due
<1>13. RT!ToGo = late
  <2>1. (due + rest) % Period = ((due + 1) - (then % Period)) % Period
    BY <1>5, <1>7
  <2>2. RT!ToGo = (due + rest) % Period
    BY <1>8, <1>11, <1>12
  <2>3. ((due + 1) - then) % Period = late
    BY <1>5, <1>10
  <2> QED
    BY <1>9, <2>1, <2>2, <2>3
<1> QED
  BY <1>3, <1>4, <1>13 DEF late

LEMMA SetAlarmInv == RtcInv /\ Prompt /\ RT!SetAlarm => RtcInv'
<1> SUFFICES ASSUME RtcInv, Prompt, RT!SetAlarm PROVE RtcInv'
  OBVIOUS
<1> USE RtcAssumption
<1>1. /\ alarm' = [ssr |-> RT!WakeSsr, event |-> FALSE] /\ now' = now /\ state' = state /\ read' = read
      /\ until' = IF now > read.at + RT!SsrSleep THEN now ELSE read.at + RT!SsrSleep
      /\ pc = "setup" /\ pc' = "check"
  BY DEF RT!SetAlarm
<1>2. /\ Due \in Nat /\ Due = read.at + RT!SsrSleep
      /\ RT!WakeSsr = (-Due) % Period /\ RT!WakeSsr \in 0..(Period - 1)
  BY <1>1, AlarmIsDue DEF RtcInv, SleepInv
<1>3. until' \in Nat /\ until' >= Due
  BY <1>1, <1>2 DEF RtcInv, RtcTypes
<1>4. RtcTypes' /\ alarm'.ssr = (-Due) % Period
  BY <1>1, <1>2, <1>3 DEF RtcInv, RtcTypes
<1>5. Due' = Due
  BY <1>1 DEF Due, RT!SsrSleep
<1>6. ReadInv' /\ SleepInv'
  BY <1>1, <1>3, <1>4, <1>5 DEF RtcInv, ReadInv, SleepInv
<1> QED
  BY <1>4, <1>6 DEF RtcInv

LEMMA CheckAlarmInv == RtcInv /\ Prompt /\ RT!CheckAlarm => RtcInv'
<1> SUFFICES ASSUME RtcInv, Prompt, RT!CheckAlarm PROVE RtcInv'
  OBVIOUS
<1> USE RtcAssumption
<1>1. /\ now' = now /\ state' = state /\ read' = read /\ until' = until
      /\ pc = "check" /\ pc' = "sleep"
      /\ alarm' = (IF RT!SsrSleep < RT!Half /\ RT!ToGo < Close THEN [alarm EXCEPT !.event = TRUE] ELSE alarm)
  BY DEF RT!CheckAlarm
<1>2. Due' = Due
  BY <1>1 DEF Due, RT!SsrSleep
<1>3. /\ alarm' \in [ssr : {RT!Off} \cup 0..(Period - 1), event : BOOLEAN]
      /\ alarm'.ssr = alarm.ssr
  BY <1>1 DEF RtcInv, RtcTypes
<1>4. now >= Due => alarm'.event
  <2>1. now >= Due => RT!SsrSleep < RT!Half /\ RT!ToGo < Close
    BY <1>1, MissedIsClose
  <2> QED
    BY <1>1, <2>1 DEF RtcInv, RtcTypes
<1>5. Due \in Nat /\ now \in Nat
  BY <1>1, AlarmIsDue DEF RtcInv, RtcTypes, SleepInv
<1>6. RtcTypes' /\ ReadInv'
  BY <1>1, <1>3 DEF RtcInv, RtcTypes, ReadInv
<1>7. SleepInv'
  BY <1>1, <1>2, <1>3, <1>4, <1>5 DEF RtcInv, SleepInv
<1> QED
  BY <1>6, <1>7 DEF RtcInv

LEMMA WakeUpInv == RtcInv /\ RT!WakeUp => RtcInv'
<1> SUFFICES ASSUME RtcInv, RT!WakeUp PROVE RtcInv'
  OBVIOUS
<1>1. /\ alarm' = [ssr |-> RT!Off, event |-> FALSE] /\ pc' = "woken" /\ until' = now
      /\ now' = now /\ state' = state /\ read' = read
  BY DEF RT!WakeUp
<1>2. RtcTypes'
  BY <1>1 DEF RtcInv, RtcTypes
<1>3. ReadInv' /\ SleepInv'
  BY <1>1 DEF RtcInv, ReadInv, SleepInv
<1> QED
  BY <1>2, <1>3 DEF RtcInv

LEMMA AfterWakeUpInv == RtcInv /\ RT!AfterWakeUp => RtcInv'
<1> SUFFICES ASSUME RtcInv, RT!AfterWakeUp PROVE RtcInv'
  OBVIOUS
<1> USE RtcAssumption
<1>1. /\ state' = [state EXCEPT !.last = (-now) % Period, !.mono = now % MonoPeriod]
      /\ now % MonoPeriod \in 0..(MonoPeriod - 1) /\ (-now) % Period \in 0..(Period - 1)
  BY MonoIsNow DEF RT!AfterWakeUp
<1>2. /\ read' = [read EXCEPT !.at = now] /\ now' = now /\ alarm' = alarm /\ pc' = "run" /\ until' = until
  BY DEF RT!AfterWakeUp
<1>3. RtcTypes'
  <2> DEFINE ssr == (-now) % Period
             mono == now % MonoPeriod
  <2>1. state' = [state EXCEPT !.last = ssr, !.mono = mono] /\ mono \in 0..(MonoPeriod - 1) /\ ssr \in 0..(Period - 1)
    BY <1>1
  <2> HIDE DEF ssr, mono
  <2>2. state' \in [last : 0..(Period - 1), mono : 0..(MonoPeriod - 1), last64 : 0..(MonoPeriod - 1), t64 : Nat]
    BY <2>1 DEF RtcInv, RtcTypes
  <2> QED
    BY <1>2, <2>2 DEF RtcInv, RtcTypes
<1>4. /\ state'.last = (-now) % Period /\ state'.mono = now % MonoPeriod
      /\ state'.last64 = state.last64 /\ state'.t64 = state.t64
      /\ read'.at = now /\ read'.us = read.us /\ read'.late = read.late
  BY <1>1, <1>2 DEF RtcInv, RtcTypes
<1>5. ReadInv'
  BY <1>2, <1>4 DEF RtcInv, RtcTypes, ReadInv
<1>6. SleepInv'
  BY <1>2, <1>4 DEF RtcInv, RtcTypes, SleepInv
<1> QED
  BY <1>3, <1>5, <1>6 DEF RtcInv

LEMMA TickInv == RtcInv /\ Prompt /\ RT!Tick => RtcInv'
<1> SUFFICES ASSUME RtcInv, Prompt, RT!Tick PROVE RtcInv'
  OBVIOUS
<1> USE RtcAssumption
<1> DEFINE event == alarm.event \/ (RT!SSR)' = alarm.ssr
<1>1. /\ now < MaxTime /\ now' = now + 1 /\ state' = state /\ pc' = pc /\ read' = read /\ until' = until
      /\ alarm' = [alarm EXCEPT !.event = event]
  BY DEF RT!Tick
<1>2. /\ pc = "run" => now < read.at + Period - 1
      /\ pc \in {"setup", "check"} => now < read.at + Delay
      /\ pc = "sleep" => ~alarm.event
      /\ pc # "woken"
  <2>1. now \in Nat /\ until \in Nat /\ pc \in {"run", "setup", "check", "sleep", "woken"} /\ alarm.event \in BOOLEAN
    BY DEF RtcInv, RtcTypes
  <2>2. pc = "woken" => until = now /\ Latency = 0
    BY DEF RtcInv, SleepInv, Prompt
  <2>3. CASE pc = "run"
    BY <2>3 DEF RT!Tick
  <2>4. CASE pc \in {"setup", "check"}
    BY <2>4 DEF RT!Tick
  <2>5. CASE pc = "sleep"
    BY <2>5 DEF RT!Tick
  <2>6. CASE pc = "woken"
    <3>1. now < until + Latency
      BY <2>6 DEF RT!Tick
    <3> QED
      BY <2>1, <2>2, <2>6, <3>1
  <2> QED
    BY <2>1, <2>3, <2>4, <2>5, <2>6
<1>3. event \in BOOLEAN /\ (event <=> alarm.event \/ (RT!SSR)' = alarm.ssr)
  BY DEF RtcInv, RtcTypes
<1> HIDE DEF event
<1>4. /\ alarm' \in [ssr : {RT!Off} \cup 0..(Period - 1), event : BOOLEAN]
      /\ alarm'.ssr = alarm.ssr /\ alarm'.event = event
  BY <1>1, <1>3 DEF RtcInv, RtcTypes
<1>5. now \in Nat /\ read.at \in Nat /\ now + 1 \in 0..MaxTime
  BY <1>1 DEF RtcInv, RtcTypes
<1>6. RtcTypes' /\ ReadInv'
  BY <1>1, <1>4, <1>5 DEF RtcInv, RtcTypes, ReadInv
<1>7. Due' = Due
  BY <1>1 DEF Due, RT!SsrSleep
<1>8. pc \in {"setup", "check", "sleep"} => Due \in Nat /\ Due <= read.at + Period - 1
  BY AlarmIsDue DEF RtcInv, SleepInv
<1>9. ASSUME pc = "sleep" PROVE event \/ now + 1 < Due
  <2>1. now < Due
    BY <1>2, <1>9 DEF RtcInv, SleepInv
  <2>2. CASE now + 1 = Due
    <3>1. (RT!SSR)' = (-Due) % Period
      BY <1>1, <2>2 DEF RT!SSR
    <3> QED
      BY <1>3, <1>9, <3>1 DEF RtcInv, SleepInv
  <2> QED
    BY <1>5, <1>8, <1>9, <2>1, <2>2
<1>10. now + 1 <= read.at + Period - 1
  <2>1. CASE pc = "sleep"
    <3>1. now < Due
      BY <1>2, <2>1 DEF RtcInv, SleepInv
    <3> QED
      BY <1>5, <1>8, <2>1, <3>1
  <2>2. CASE pc \in {"setup", "check"}
    <3>1. Delay + 1 <= Period - 1
      BY DEF Prompt
    <3> QED
      BY <1>2, <1>5, <2>2, <3>1
  <2>3. CASE pc = "run"
    BY <1>2, <1>5, <2>3
  <2> QED
    BY <1>2, <2>1, <2>2, <2>3 DEF RtcInv, RtcTypes
<1>11. SleepInv'
  <2>1. now' <= read'.at + Period - 1
    BY <1>1, <1>10
  <2>2. pc' \in {"setup", "check"} => now' <= read'.at + Delay
    BY <1>1, <1>2, <1>5
  <2>3. pc' = "sleep" => alarm'.event \/ now' < Due'
    BY <1>1, <1>4, <1>7, <1>9
  <2> QED
    BY <1>1, <1>2, <1>4, <1>7, <2>1, <2>2, <2>3 DEF RtcInv, SleepInv
<1> QED
  BY <1>6, <1>11 DEF RtcInv

LEMMA RtcNext == RtcInv /\ Prompt /\ RT!Next => RtcInv'
  BY ReadClockInv, ReadMicrosecondsInv, DecideToSleepInv, SetAlarmInv, CheckAlarmInv, WakeUpInv,
     AfterWakeUpInv, TickInv DEF RT!Next

LEMMA RtcSame == RtcInv /\ UNCHANGED rtc => RtcInv'
<1> SUFFICES ASSUME RtcInv, UNCHANGED rtc PROVE RtcInv'
  OBVIOUS
<1>1. now' = now /\ state' = state /\ alarm' = alarm /\ pc' = pc /\ read' = read /\ until' = until
  BY DEF rtc
<1>2. Due' = Due
  BY <1>1 DEF Due, RT!SsrSleep
<1> QED
  BY <1>1, <1>2 DEF RtcInv, RtcTypes, ReadInv, SleepInv

LEMMA RtcWakes == RtcInv => RT!WakesInTime
<1> SUFFICES ASSUME RtcInv, pc = "sleep", ~alarm.event PROVE now <= until
  BY DEF RT!WakesInTime
<1>1. now < Due /\ Due <= until /\ now \in Nat /\ until \in Nat
  BY DEF RtcInv, RtcTypes, SleepInv
<1>2. Due \in Nat
  BY AlarmIsDue DEF RtcInv, SleepInv
<1> QED
  BY <1>1, <1>2
-----------------------------------------------------------------------------
(* Flash: the bytes that are stored, and what a task that erases a page finds.  *)
FlashByte == {FL!Ones, FL!Old} \cup 0..PageSize

ReportType == [op : {"none", "Write", "Erase"}, pages : SUBSET Pages, at : Nat, len : Nat, result : BOOLEAN]

FlashTypes ==
    /\ mem \in [FL!Cells -> [0..7 -> FlashByte]]
    /\ busy \in Pages \cup {FL!Nobody}
    /\ task \in [Tasks -> [pc : {"out", "wait", "enter", "erase"}, n : Pages \cup {FL!Nobody},
                           result : BOOLEAN, spoiled : BOOLEAN]]
    /\ report \in ReportType

\* A page whose erase was started is being erased, or erased, but for those that
\* cannot be and those written since; a task reports what it finds in the end.
TaskInv(t) ==
    /\ task[t].pc # "out" => task[t].n \in Pages /\ task[t].result
    /\ task[t].pc = "erase" => busy = task[t].n \/ FL!Erased(task[t].n) \/ task[t].spoiled \/ task[t].n \in Worn
    /\ task[t].result \/ task[t].spoiled \/ task[t].n \in Worn

\* What was reported last is so.
Stored(k, j, len) == IF 8 * k + j < len THEN 8 * k + j + 1 ELSE FL!Ones
Holds == \A p \in report.pages, k \in 0..((report.len + 7) \div 8 - 1), j \in 0..7 :
             mem[<<p, report.at + k>>][j] = Stored(k, j, report.len)
ReportInv == /\ report.op = "Write" => (report.result <=> Holds)
             /\ report.op = "Erase" => (report.result <=> \A p \in report.pages : FL!Erased(p))

FlashInv == FlashTypes /\ ReportInv /\ \A t \in Tasks : TaskInv(t)

\* Double is the data, with ones behind it, whatever the length is.
LEMMA DoubleIs ==
  ASSUME NEW len \in Nat, NEW k \in 0..((len + 7) \div 8 - 1)
  PROVE  FL!Double(k, len) = [j \in 0..7 |-> Stored(k, j, len)]
<1> SUFFICES ASSUME NEW j \in 0..7 PROVE FL!Double(k, len)[j] = Stored(k, j, len)
  BY DEF FL!Double
<1> DEFINE last == k = (len + 7) \div 8 - 1 /\ len % 8 # 0
<1>1. CASE last
  <2>1. len = 8 * k + (len % 8) /\ len % 8 \in 1..7 /\ k \in Nat
    <3>1. len % 8 \in 1..7 /\ k \in Nat
      BY <1>1
    <3>2. len = 8 * (len \div 8) + (len % 8) /\ len \div 8 \in Int
      BY ModDiv
    <3>3. (len + 7) \div 8 - 1 = len \div 8
      BY <3>1, <3>2
    <3> QED
      BY <1>1, <3>1, <3>2, <3>3
  <2> DEFINE m == len % 8
  <2>2. CASE m > 4
    BY <1>1, <2>1, <2>2 DEF FL!Double, FL!MaskLast, FL!MaskFrom, Stored, FL!Ones
  <2>3. CASE m <= 4
    BY <1>1, <2>1, <2>3 DEF FL!Double, FL!MaskLast, FL!MaskFrom, Stored, FL!Ones
  <2> QED
    BY <2>1, <2>2, <2>3
<1>2. CASE ~last
  <2>1. 8 * k + 8 <= len /\ k \in Nat
    <3>1. k \in Nat /\ len \in Nat /\ k <= (len + 7) \div 8 - 1
      OBVIOUS
    <3>2. CASE k < (len + 7) \div 8 - 1
      BY <3>1, <3>2
    <3>3. CASE k = (len + 7) \div 8 - 1 /\ len % 8 = 0
      BY <3>1, <3>3
    <3> QED
      BY <1>2, <3>1, <3>2, <3>3
  <2>2. /\ j < 4 => 8 * k + j < len
        /\ j >= 4 => j - 4 \in 0..3 /\ 8 * k + 4 + (j - 4) = 8 * k + j /\ 8 * k + j < len
    BY <2>1
  <2>3. CASE j < 4
    BY <1>2, <2>1, <2>2, <2>3 DEF FL!Double, Stored
  <2>4. CASE j >= 4
    BY <1>2, <2>1, <2>2, <2>4 DEF FL!Double, Stored
  <2> QED
    BY <2>3, <2>4
<1> QED
  BY <1>1, <1>2

LEMMA FlashInit == FL!Init => FlashInv
<1> SUFFICES ASSUME FL!Init PROVE FlashInv
  OBVIOUS
<1> USE FlashAssumption DEF FL!Init
<1>1. FlashTypes
  BY DEF FlashTypes, FlashByte, FL!Bytes, FL!Forget, FL!Nobody, ReportType
<1>2. ReportInv
  BY DEF ReportInv, FL!Forget
<1>3. \A t \in Tasks : TaskInv(t)
  BY DEF TaskInv
<1> QED
  BY <1>1, <1>2, <1>3 DEF FlashInv

TaskType == [pc : {"out", "wait", "enter", "erase"}, n : Pages \cup {FL!Nobody},
             result : BOOLEAN, spoiled : BOOLEAN]

\* Who erases a page that somebody writes hears of it.
LEMMA SpoilsInv ==
  ASSUME FlashInv, NEW p \in Pages, FL!Spoils(p), busy' = busy,
         \A q \in Pages, d \in FL!Doubles : q # p => mem'[<<q, d>>] = mem[<<q, d>>]
  PROVE  task' \in [Tasks -> TaskType] /\ \A t \in Tasks : TaskInv(t)'
<1> DEFINE spoilt(t) == task[t].spoiled \/ (task[t].pc # "out" /\ task[t].n = p)
           new(t) == [task[t] EXCEPT !.spoiled = spoilt(t)]
<1>1. task' = [t \in Tasks |-> new(t)]
  BY DEF FL!Spoils
<1>2. ASSUME NEW t \in Tasks
      PROVE  /\ task[t] \in TaskType /\ new(t) \in TaskType /\ task'[t] = new(t)
             /\ new(t).pc = task[t].pc /\ new(t).n = task[t].n /\ new(t).result = task[t].result
             /\ new(t).spoiled <=> task[t].spoiled \/ (task[t].pc # "out" /\ task[t].n = p)
  <2>1. task[t] \in TaskType
    BY DEF FlashInv, FlashTypes, TaskType
  <2>2. spoilt(t) \in BOOLEAN /\ (spoilt(t) <=> task[t].spoiled \/ (task[t].pc # "out" /\ task[t].n = p))
    BY <2>1 DEF TaskType
  <2>3. task'[t] = new(t)
    BY <1>1
  <2> HIDE DEF spoilt
  <2> QED
    BY <2>1, <2>2, <2>3 DEF TaskType
<1> HIDE DEF new
<1>3. task' \in [Tasks -> TaskType]
  BY <1>1, <1>2
<1>4. ASSUME NEW t \in Tasks PROVE TaskInv(t)'
  <2>1. TaskInv(t)
    BY DEF FlashInv
  <2>2. task[t].pc # "out" /\ task[t].n # p /\ FL!Erased(task[t].n) => FL!Erased(task[t].n)'
    BY <1>2, <2>1 DEF TaskInv, FL!Erased
  <2> QED
    BY <1>2, <2>1, <2>2 DEF TaskInv, FL!Erased
<1> QED
  BY <1>3, <1>4

LEMMA WriteInv ==
  ASSUME FlashInv, NEW p \in Pages, NEW d \in FL!Doubles, NEW len \in FlashLengths, FL!Write(p, d, len)
  PROVE  FlashInv'
<1> USE FlashAssumption
<1> DEFINE count == (len + 7) \div 8
           value(k) == FL!Double(k, len)
           new(k) == FL!Programmed(mem[<<p, d + k>>], value(k))
           good(k) == new(k) = value(k)
<1>1. FL!Spoils(p) /\ busy' = busy /\ d + count - 1 \in FL!Doubles
  BY DEF FL!Write
<1>2. /\ len \in Nat /\ len > 0 /\ d \in Nat /\ count \in Nat /\ count > 0 /\ len <= 8 * count
      /\ 8 * count <= PageSize
      /\ \A k \in 0..(count - 1) : d + k \in FL!Doubles
  <2>1. len \in Nat /\ len > 0 /\ d \in Nat
    BY DEF FL!Doubles
  <2>2. count \in Nat /\ count > 0 /\ len <= 8 * count
    BY <2>1
  <2>3. \A k \in 0..(count - 1) : d + k \in FL!Doubles
    BY <1>1, <2>1, <2>2 DEF FL!Doubles
  <2>4. count <= PageSize \div 8
    BY <1>1, <2>1, <2>2 DEF FL!Doubles
  <2>5. 8 * (PageSize \div 8) <= PageSize /\ PageSize \div 8 \in Int
    OBVIOUS
  <2> HIDE DEF count
  <2> QED
    BY <2>1, <2>2, <2>3, <2>4, <2>5
<1>3. PICK n \in 0..count :
        /\ \A k \in 0..(n - 1) : good(k)
        /\ n < count => ~good(n)
        /\ mem' = [c \in FL!Cells |-> IF c[1] = p /\ c[2] \in d..(d + n) /\ c[2] < d + count
                                      THEN new(c[2] - d) ELSE mem[c]]
        /\ report' = [op |-> "Write", pages |-> {p}, at |-> d, len |-> len, result |-> n = count]
  BY DEF FL!Write, FL!Report
<1> DEFINE here(c) == c[1] = p /\ c[2] \in d..(d + n) /\ c[2] < d + count
<1>4. ASSUME NEW k \in 0..(count - 1)
      PROVE  /\ value(k) = [j \in 0..7 |-> Stored(k, j, len)]
             /\ value(k) \in [0..7 -> FlashByte]
             /\ <<p, d + k>> \in FL!Cells /\ new(k) \in [0..7 -> FlashByte]
  <2>1. value(k) = [j \in 0..7 |-> Stored(k, j, len)]
    BY <1>2, DoubleIs
  <2>2. ASSUME NEW j \in 0..7 PROVE Stored(k, j, len) \in FlashByte
    BY <1>2 DEF Stored, FlashByte
  <2>3. value(k) \in [0..7 -> FlashByte]
    BY <2>1, <2>2
  <2>4. <<p, d + k>> \in FL!Cells
    BY <1>2 DEF FL!Cells
  <2> HIDE DEF value
  <2>5. new(k) \in [0..7 -> FlashByte]
    BY <2>3, <2>4 DEF FL!Programmed, FlashInv, FlashTypes
  <2> QED
    BY <2>1, <2>3, <2>4, <2>5
<1> HIDE DEF count, value, new
<1>5. mem' \in [FL!Cells -> [0..7 -> FlashByte]]
  <2>1. ASSUME NEW c \in FL!Cells PROVE (IF here(c) THEN new(c[2] - d) ELSE mem[c]) \in [0..7 -> FlashByte]
    <3>1. CASE here(c)
      <4>1. c[2] - d \in 0..(count - 1)
        BY <1>2, <3>1
      <4> QED
        BY <1>4, <3>1, <4>1
    <3>2. CASE ~here(c)
      BY <3>2 DEF FlashInv, FlashTypes
    <3> QED
      BY <3>1, <3>2
  <2>2. mem' = [c \in FL!Cells |-> IF here(c) THEN new(c[2] - d) ELSE mem[c]]
    BY <1>3
  <2> HIDE DEF here
  <2> QED
    BY <2>1, <2>2
<1>6. \A q \in Pages, e \in FL!Doubles : q # p => mem'[<<q, e>>] = mem[<<q, e>>]
  BY <1>3 DEF FL!Cells
<1>7. task' \in [Tasks -> TaskType] /\ \A t \in Tasks : TaskInv(t)'
  BY <1>1, <1>6, SpoilsInv
<1>8. report' \in ReportType
  <2> DEFINE result == n = count
  <2>1. result \in BOOLEAN /\ {p} \in SUBSET Pages
    OBVIOUS
  <2>2. report' = [op |-> "Write", pages |-> {p}, at |-> d, len |-> len, result |-> result]
    BY <1>3
  <2> HIDE DEF result
  <2> QED
    BY <1>2, <2>1, <2>2 DEF ReportType
<1>9. ASSUME NEW k \in 0..(count - 1), k <= n PROVE mem'[<<p, d + k>>] = new(k)
  <2>1. (d + k) - d = k /\ d + k \in d..(d + n) /\ d + k < d + count
    BY <1>2, <1>9
  <2>2. here(<<p, d + k>>)
    BY <2>1
  <2> HIDE DEF here
  <2> QED
    BY <1>3, <1>4, <2>1, <2>2
<1>10. n = count <=> \A k \in 0..(count - 1), j \in 0..7 : mem'[<<p, d + k>>][j] = Stored(k, j, len)
  <2>1. ASSUME n = count, NEW k \in 0..(count - 1), NEW j \in 0..7
        PROVE  mem'[<<p, d + k>>][j] = Stored(k, j, len)
    <3>1. k \in 0..(n - 1) /\ k <= n
      BY <1>2, <2>1
    <3>2. mem'[<<p, d + k>>] = value(k)
      BY <1>3, <1>9, <3>1
    <3> QED
      BY <1>4, <3>2
  <2>2. ASSUME n # count PROVE \E k \in 0..(count - 1), j \in 0..7 : mem'[<<p, d + k>>][j] # Stored(k, j, len)
    <3>1. n \in 0..(count - 1) /\ n < count /\ n <= n
      BY <1>2, <2>2
    <3>2. mem'[<<p, d + n>>] = new(n) /\ new(n) # value(n)
      BY <1>3, <1>9, <3>1
    <3>3. new(n) \in [0..7 -> FlashByte] /\ value(n) = [j \in 0..7 |-> Stored(n, j, len)]
      BY <1>4, <3>1
    <3>4. PICK j \in 0..7 : new(n)[j] # Stored(n, j, len)
      BY <3>2, <3>3
    <3> QED
      BY <3>1, <3>2, <3>4
  <2> QED
    BY <2>1, <2>2
<1>11. ReportInv'
  <2>1. /\ report'.op = "Write" /\ report'.pages = {p} /\ report'.at = d /\ report'.len = len
        /\ (report'.result <=> n = count)
    BY <1>3
  <2>2. Holds' <=> \A k \in 0..(count - 1), j \in 0..7 : mem'[<<p, d + k>>][j] = Stored(k, j, len)
    BY <2>1 DEF Holds, count, Stored
  <2> QED
    BY <1>10, <2>1, <2>2 DEF ReportInv
<1> QED
  BY <1>1, <1>5, <1>7, <1>8, <1>11 DEF FlashInv, FlashTypes, TaskType

LEMMA ForgetReport ==
  ASSUME report' = FL!Forget
  PROVE  ReportInv' /\ report' \in ReportType
  BY DEF ReportInv, ReportType, FL!Forget

LEMMA OnesAreBytes == FL!Bytes(FL!Ones) \in [0..7 -> FlashByte] /\ FL!Bytes(0) \in [0..7 -> FlashByte]
  BY FlashAssumption DEF FL!Bytes, FlashByte

LEMMA WriteDoubleInv ==
  ASSUME FlashInv, NEW p \in Pages, NEW d \in FL!Doubles, FL!WriteDouble(p, d)
  PROVE  FlashInv'
<1> DEFINE new == FL!Programmed(mem[<<p, d>>], FL!Bytes(0))
<1>1. /\ mem' = [mem EXCEPT ![<<p, d>>] = new] /\ report' = FL!Forget /\ FL!Spoils(p) /\ busy' = busy
      /\ <<p, d>> \in FL!Cells
  BY DEF FL!WriteDouble, FL!Cells
<1>2. new \in [0..7 -> FlashByte]
  BY <1>1, OnesAreBytes DEF FL!Programmed, FlashInv, FlashTypes
<1> HIDE DEF new
<1>3. mem' \in [FL!Cells -> [0..7 -> FlashByte]]
  BY <1>1, <1>2 DEF FlashInv, FlashTypes
<1>4. \A q \in Pages, e \in FL!Doubles : q # p => mem'[<<q, e>>] = mem[<<q, e>>]
  BY <1>1 DEF FL!Cells, FlashInv, FlashTypes
<1>5. task' \in [Tasks -> TaskType] /\ \A t \in Tasks : TaskInv(t)'
  BY <1>1, <1>4, SpoilsInv
<1> QED
  BY <1>1, <1>3, <1>5, ForgetReport DEF FlashInv, FlashTypes, TaskType

\* Erasing makes no page anything but erased.
LEMMA ErasedStays ==
  ASSUME FlashInv, task' = task, report' \in ReportType, ReportInv',
         NEW gone, mem' = [c \in FL!Cells |-> IF c[1] \in gone THEN FL!Bytes(FL!Ones) ELSE mem[c]],
         busy' \in Pages \cup {FL!Nobody},
         busy' = busy \/ (busy' = FL!Nobody /\ (busy \in gone \/ busy \in Worn))
  PROVE  FlashInv'
<1>1. mem' \in [FL!Cells -> [0..7 -> FlashByte]]
  BY OnesAreBytes DEF FlashInv, FlashTypes
<1>2. \A q \in Pages : q \in gone \/ FL!Erased(q) => FL!Erased(q)'
  BY DEF FL!Erased, FL!Cells
<1>3. ASSUME NEW t \in Tasks PROVE TaskInv(t)'
  <2>1. TaskInv(t) /\ (task[t].pc # "out" => task[t].n \in Pages)
    BY DEF FlashInv, TaskInv
  <2> QED
    BY <1>2, <2>1 DEF TaskInv
<1> QED
  BY <1>1, <1>3 DEF FlashInv, FlashTypes

LEMMA EraseEndsInv ==
  ASSUME FlashInv, FL!EraseEnds
  PROVE  FlashInv'
<1>1. /\ busy # FL!Nobody /\ mem' = FL!AfterErase(mem, busy) /\ busy' = FL!Nobody
      /\ report' = FL!Forget /\ task' = task
  BY DEF FL!EraseEnds
<1> DEFINE gone == {busy} \ Worn
<1>2. mem' = [c \in FL!Cells |-> IF c[1] \in gone THEN FL!Bytes(FL!Ones) ELSE mem[c]]
  BY <1>1 DEF FL!AfterErase
<1>3. busy \in gone \/ busy \in Worn
  OBVIOUS
<1> HIDE DEF gone
<1> QED
  BY <1>1, <1>2, <1>3, ErasedStays, ForgetReport

LEMMA EraseInv ==
  ASSUME FlashInv, NEW p \in Pages, NEW length \in {1, PageSize, PageSize + 1}, FL!Erase(p, length)
  PROVE  FlashInv'
<1> DEFINE last == (p * PageSize + length - 1) \div PageSize
           good(q) == q \notin Worn \/ FL!Erased(q)
<1>0. p \in Int /\ last \in Int
  <2>1. p \in Nat /\ PageSize \in Nat \ {0} /\ length \in Int
    BY FlashAssumption
  <2>2. p * PageSize + length - 1 \in Int
    BY <2>1
  <2> QED
    BY <2>1, <2>2, ModDiv
<1> HIDE DEF last
<1>1. busy' = busy /\ task' = task /\ p..last \subseteq Pages
  BY DEF FL!Erase, last
<1>2. PICK n \in p..(last + 1) :
        /\ \A q \in p..(n - 1) : good(q)
        /\ n <= last => ~good(n)
        /\ mem' = [c \in FL!Cells |-> IF c[1] \in p..(n - 1) THEN FL!Bytes(FL!Ones) ELSE mem[c]]
        /\ report' = [op |-> "Erase", pages |-> p..last, at |-> 0, len |-> 0, result |-> n > last]
  BY DEF FL!Erase, FL!Report, last
<1> DEFINE gone == p..(n - 1)
<1>3. busy' \in Pages \cup {FL!Nobody}
  BY <1>1 DEF FlashInv, FlashTypes
<1>4. report' \in ReportType
  <2> DEFINE result == n > last
             pages == p..last
  <2>1. result \in BOOLEAN /\ pages \in SUBSET Pages
    BY <1>1
  <2>2. report' = [op |-> "Erase", pages |-> pages, at |-> 0, len |-> 0, result |-> result]
    BY <1>2
  <2> HIDE DEF result, pages
  <2> QED
    BY <2>1, <2>2 DEF ReportType
<1>5. ReportInv'
  <2>1. /\ report'.op = "Erase" /\ report'.pages = p..last /\ (report'.result <=> n > last)
    BY <1>2
  <2>3. ASSUME n > last, NEW q \in p..last PROVE FL!Erased(q)'
    <3>1. q \in p..(n - 1)
      BY <1>0, <2>3
    <3> QED
      BY <1>1, <1>2, <3>1 DEF FL!Erased, FL!Cells
  <2>4. ASSUME ~(n > last) PROVE n \in p..last /\ ~FL!Erased(n)'
    <3>1. n \in p..last /\ n <= last /\ n \notin p..(n - 1)
      BY <1>0, <1>2, <2>4
    <3>2. ~FL!Erased(n)
      BY <1>2, <3>1
    <3>3. \A d \in FL!Doubles : mem'[<<n, d>>] = mem[<<n, d>>]
      BY <1>1, <1>2, <3>1 DEF FL!Cells
    <3> QED
      BY <3>1, <3>2, <3>3 DEF FL!Erased
  <2> QED
    BY <2>1, <2>3, <2>4 DEF ReportInv
<1>6. mem' = [c \in FL!Cells |-> IF c[1] \in gone THEN FL!Bytes(FL!Ones) ELSE mem[c]]
  BY <1>2
<1> HIDE DEF gone
<1> QED
  BY <1>1, <1>3, <1>4, <1>5, <1>6, ErasedStays

\* A step of one task that leaves the memory alone.
LEMMA TaskStep ==
  ASSUME FlashInv, NEW t \in Tasks, NEW new \in TaskType, task' = [task EXCEPT ![t] = new],
         mem' = mem, report' \in ReportType, ReportInv', busy' \in Pages \cup {FL!Nobody},
         busy' = busy \/ busy = FL!Nobody,
         TaskInv(t)'
  PROVE  FlashInv'
<1>1. FlashTypes'
  BY DEF FlashInv, FlashTypes, TaskType
<1>2. ASSUME NEW u \in Tasks, u # t PROVE TaskInv(u)'
  <2>1. TaskInv(u) /\ task'[u] = task[u]
    BY <1>2 DEF FlashInv, FlashTypes
  <2>2. FL!Nobody \notin Pages
    BY FlashAssumption DEF FL!Nobody
  <2> QED
    BY <2>1, <2>2 DEF TaskInv, FL!Erased
<1> QED
  BY <1>1, <1>2 DEF FlashInv

LEMMA ReportKept ==
  ASSUME FlashInv, mem' = mem, report' = report
  PROVE  report' \in ReportType /\ ReportInv'
  BY DEF FlashInv, FlashTypes, ReportInv, Holds, FL!Erased

LEMMA CallErasePageInv ==
  ASSUME FlashInv, NEW t \in Tasks, NEW p \in Pages, FL!CallErasePage(t, p)
  PROVE  FlashInv'
<1> DEFINE new == [pc |-> "wait", n |-> p, result |-> TRUE, spoiled |-> FALSE]
<1>1. /\ task' = [task EXCEPT ![t] = new] /\ mem' = mem /\ busy' = busy /\ report' = report
      /\ new \in TaskType
  BY DEF FL!CallErasePage, TaskType
<1>2. TaskInv(t)'
  BY <1>1 DEF TaskInv, FlashInv, FlashTypes
<1>3. busy' \in Pages \cup {FL!Nobody}
  BY <1>1 DEF FlashInv, FlashTypes
<1> QED
  BY <1>1, <1>2, <1>3, ReportKept, TaskStep

LEMMA AwaitIdleInv ==
  ASSUME FlashInv, NEW t \in Tasks, FL!AwaitIdle(t)
  PROVE  FlashInv'
<1> DEFINE new == [task[t] EXCEPT !.pc = "enter"]
<1>1. /\ task' = [task EXCEPT ![t] = new] /\ mem' = mem /\ busy' = busy /\ report' = report
      /\ task[t].pc = "wait"
  BY DEF FL!AwaitIdle
<1>2. /\ new \in TaskType /\ task'[t] = new /\ new.pc = "enter" /\ new.n = task[t].n
      /\ new.result = task[t].result /\ new.spoiled = task[t].spoiled
  BY <1>1 DEF FlashInv, FlashTypes, TaskType
<1> HIDE DEF new
<1>3. TaskInv(t)'
  BY <1>1, <1>2 DEF TaskInv, FlashInv
<1>4. busy' \in Pages \cup {FL!Nobody}
  BY <1>1 DEF FlashInv, FlashTypes
<1> QED
  BY <1>1, <1>2, <1>3, <1>4, ReportKept, TaskStep

LEMMA StartEraseInv ==
  ASSUME FlashInv, NEW t \in Tasks, FL!StartErase(t)
  PROVE  FlashInv'
<1> DEFINE to == IF FL!StillIdle(busy) THEN "erase" ELSE "wait"
           new == [task[t] EXCEPT !.pc = to]
<1>1. /\ task' = [task EXCEPT ![t] = new] /\ mem' = mem /\ report' = report
      /\ task[t].pc = "enter"
  BY DEF FL!StartErase
<1>2. /\ busy = FL!Nobody => to = "erase" /\ busy' = task[t].n
      /\ busy # FL!Nobody => to = "wait" /\ busy' = busy
  BY DEF FL!StartErase, FL!StillIdle
<1>3. to \in {"erase", "wait"}
  OBVIOUS
<1> HIDE DEF to
<1>4. /\ new \in TaskType /\ task'[t] = new /\ new.pc = to /\ new.n = task[t].n
      /\ new.result = task[t].result /\ new.spoiled = task[t].spoiled
  BY <1>1, <1>3 DEF FlashInv, FlashTypes, TaskType
<1> HIDE DEF new
<1>5. TaskInv(t)'
  BY <1>1, <1>2, <1>3, <1>4 DEF TaskInv, FlashInv
<1>6. busy' \in Pages \cup {FL!Nobody}
  BY <1>1, <1>2 DEF FlashInv, FlashTypes, TaskInv
<1> QED
  BY <1>1, <1>2, <1>4, <1>5, <1>6, ReportKept, TaskStep

LEMMA ReturnErasePageInv ==
  ASSUME FlashInv, NEW t \in Tasks, FL!ReturnErasePage(t)
  PROVE  FlashInv'
<1> DEFINE found == FL!Erased(task[t].n)
           new == [task[t] EXCEPT !.pc = "out", !.result = found]
<1>1. /\ task' = [task EXCEPT ![t] = new] /\ mem' = mem /\ busy' = busy
      /\ report' = [op |-> "Erase", pages |-> {task[t].n}, at |-> 0, len |-> 0, result |-> found]
      /\ task[t].pc = "erase" /\ busy = FL!Nobody
  BY DEF FL!ReturnErasePage, FL!Report
<1>2. found \in BOOLEAN /\ (found <=> FL!Erased(task[t].n))
  BY DEF FL!Erased
<1> HIDE DEF found
<1>3. /\ new \in TaskType /\ task'[t] = new /\ new.pc = "out" /\ new.n = task[t].n
      /\ new.result = found /\ new.spoiled = task[t].spoiled
  BY <1>1, <1>2 DEF FlashInv, FlashTypes, TaskType
<1> HIDE DEF new
<1>4. found \/ task[t].spoiled \/ task[t].n \in Worn
  <2>1. TaskInv(t) /\ FL!Nobody \notin Pages
    BY FlashAssumption DEF FlashInv, FL!Nobody
  <2> QED
    BY <1>1, <1>2, <2>1 DEF TaskInv
<1>5. TaskInv(t)'
  BY <1>3, <1>4 DEF TaskInv
<1>6. busy' \in Pages \cup {FL!Nobody}
  BY <1>1 DEF FlashInv, FlashTypes
<1>7. report' \in ReportType
  <2>1. {task[t].n} \in SUBSET Pages
    BY <1>1 DEF FlashInv, TaskInv
  <2> QED
    BY <1>1, <1>2, <2>1 DEF ReportType
<1>8. ReportInv'
  <2>1. FL!Erased(task[t].n)' <=> FL!Erased(task[t].n)
    BY <1>1, <1>3 DEF FL!Erased
  <2>2. /\ report'.op = "Erase" /\ report'.pages = {task[t].n} /\ (report'.result <=> found)
    BY <1>1
  <2>3. (\A p \in {task[t].n} : FL!Erased(p)') <=> found
    BY <1>1, <1>2 DEF FL!Erased
  <2> QED
    BY <2>2, <2>3 DEF ReportInv
<1> QED
  BY <1>1, <1>3, <1>5, <1>6, <1>7, <1>8, TaskStep

LEMMA FlashNext == FlashInv /\ FL!Next => FlashInv'
  BY WriteInv, WriteDoubleInv, EraseInv, EraseEndsInv, CallErasePageInv, AwaitIdleInv, StartEraseInv,
     ReturnErasePageInv DEF FL!Next

LEMMA FlashSame == FlashInv /\ UNCHANGED flash => FlashInv'
  BY DEF FlashInv, FlashTypes, ReportInv, Holds, TaskInv, FL!Erased, flash

LEMMA FlashReports == FlashInv => FL!FlashExact
  BY DEF FlashInv, ReportInv, Holds, TaskInv, Stored, FL!FlashExact
-----------------------------------------------------------------------------
(* SDCard: the data path is idle but for a transfer, and a transfer moves the
   sector that was asked for.                                                 *)
Identifying == {"initialize", "goIdle", "sendIfCond", "goIdleV1", "query", "start", "poll", "cid", "rca",
                "csd", "select"}
Transfer == {"ready", "transfer", "abort"}

CardType == [state : {"off", "absent", "idle", "ready", "ident", "stby", "tran", "data", "rcv"},
             v2 : BOOLEAN, hc : BOOLEAN, sel : Sectors, mem : [Sectors -> Data]]
HostType == [act : {"none", "rx", "tx"}, flags : SUBSET {"DBCKEND", "DCRCFAIL", "DTIMEOUT"}, bad : BOOLEAN]
DmaType == [enabled : BOOLEAN, cndtr : 0..Words]
DrvType == [status : SUBSET {"NODISK", "NOINIT"}, mul : {1, SectorSize}, v2 : BOOLEAN,
            pc : {"out", "return", "stopped"} \cup Identifying \cup Transfer,
            op : {"none", "Init", "Test", "Read", "Write"}, ok : BOOLEAN, i : 1..MaxCount,
            count : 0..MaxCount, sec : Nat, tries : 0..MaxTries, value : Data]
BufType == [1..MaxCount -> [1..Words -> Data \cup {Garbage}]]

SdTypes == card \in CardType /\ host \in HostType /\ dma \in DmaType /\ drv \in DrvType /\ buf \in BufType

\* Outside of a transfer nothing is under way, and nothing is left of the last one.
IdleInv == /\ drv.pc \notin {"transfer", "abort"} => ~dma.enabled /\ host.act = "none"
           /\ drv.pc \notin {"transfer", "abort", "stopped"} => host.flags = {}

\* What Status() says of the card, and how it is addressed.
CardInv ==
    /\ drv.pc \in Transfer => drv.status = {} /\ drv.i <= drv.count /\ drv.op \in {"Test", "Read", "Write"}
    /\ drv.pc \in Identifying => drv.status # {} /\ drv.op = "Init"
    /\ drv.status = {} \/ drv.pc \in {"cid", "rca", "csd", "select"} =>
         drv.mul = IF card.hc THEN 1 ELSE SectorSize
    /\ drv.status = {} /\ drv.pc \notin {"transfer", "abort", "stopped"} => card.state \in {"absent", "idle", "tran"}

\* A sector is moved: the k-th of the call is number `s` of the card.
Moved(k, s) == /\ s \in Sectors
               /\ drv.op = "Read" => \A w \in 1..Words : buf[k][w] = card.mem[s]
               /\ drv.op = "Write" => card.mem[s] = drv.value

\* The sectors before the one under way are moved.
MovedInv == drv.pc \in {"ready", "transfer"} => \A k \in 1..(drv.i - 1) : Moved(k, drv.sec - drv.i + k)

\* The sector under way.
TransferInv == drv.pc = "transfer" =>
    /\ card.state \in {"absent", "idle", "tran", "data", "rcv"}
    /\ card.state = "data" => drv.op = "Read" /\ card.sel = drv.sec
    /\ card.state = "rcv" => drv.op = "Write" /\ card.sel = drv.sec
    /\ host.act = "rx" => drv.op = "Read"
    /\ host.act = "tx" => drv.op = "Write"
    /\ host.act = "rx" /\ ~host.bad => \A w \in 1..(Words - dma.cndtr) : buf[drv.i][w] = card.mem[drv.sec]
    /\ host.act # "none" => host.flags = {}
    /\ "DBCKEND" \in host.flags => card.state \in {"absent", "idle", "tran"} /\ Moved(drv.i, drv.sec)

SdInv == SdTypes /\ IdleInv /\ CardInv /\ MovedInv /\ TransferInv /\ SD!ResultIsTrue

\* What a command makes of the card, and what its answer means, unless it may be the
\* answer to another command.
LEMMA CommandFacts ==
  ASSUME ~Mismatches, NEW c, NEW arg, NEW r \in SD!Command(c, arg)
  PROVE  (r.card = card /\ (r.ok => c \in SD!NoResponse)) \/ r.card \in SD!Obeyed(c, arg)
<1>1. ~SD!Success(SD!Result(c, {"CTIMEOUT"}))
  BY DEF SD!Success, SD!Result
<1> QED
  BY <1>1 DEF SD!Command, SD!NoResponse

IdentifyCommands == {"CmdGoIdleState", "CmdSendIfCond", "QueryOpCond", "ACmdSendOpCond", "PollOpCond",
                     "CmdAllSendCid", "CmdSendRelativeAddr", "CmdSendCsd", "CmdSelectCard", "CmdSendStatus"}

\* The commands that move no data.
LEMMA IdentifyFacts ==
  ASSUME SdTypes, ~Mismatches, NEW c \in IdentifyCommands, NEW r \in SD!Command(c, 0)
  PROVE  /\ r.card \in CardType /\ r.card.hc = card.hc /\ r.card.mem = card.mem
         /\ c = "CmdSelectCard" /\ r.ok => r.card.state = "tran"
         /\ c = "CmdSendStatus" => r.card.state = card.state
<1>1. CASE r.card = card /\ (r.ok => c \in SD!NoResponse)
  BY <1>1 DEF SdTypes, SD!NoResponse
<1>2. CASE r.card \in SD!Obeyed(c, 0)
  <2>1. \A from, to : SD!Move(from, to) \subseteq {[card EXCEPT !.state = to]}
    BY DEF SD!Move
  <2>2. PICK to \in {"idle", "ready", "ident", "stby", "tran"} :
          /\ r.card = [card EXCEPT !.state = to]
          /\ c = "CmdSelectCard" => to = "tran"
          /\ c = "CmdSendStatus" => to = card.state
    BY <1>2 DEF SD!Obeyed, SD!Move, IdentifyCommands
  <2> QED
    BY <2>2 DEF SdTypes, CardType
<1> QED
  BY <1>1, <1>2, CommandFacts

LEMMA SdInit == SD!Init => SdInv
<1> SUFFICES ASSUME SD!Init PROVE SdInv
  OBVIOUS
<1> USE CardAssumption DEF SD!Init
<1>1. SD!Blank \in Data
  BY DEF SD!Blank
<1>2. card \in CardType /\ host \in HostType /\ dma \in DmaType /\ buf \in BufType
  BY <1>1 DEF CardType, HostType, DmaType, BufType, SD!IdleHost, SD!EmptyBuf
<1>3. drv \in DrvType /\ drv.pc = "out" /\ drv.status # {}
  BY <1>1 DEF DrvType
<1>4. IdleInv /\ CardInv /\ MovedInv /\ TransferInv /\ SD!ResultIsTrue
  BY <1>3 DEF IdleInv, CardInv, MovedInv, TransferInv, SD!ResultIsTrue, SD!IdleHost, Identifying, Transfer
<1> QED
  BY <1>2, <1>3, <1>4 DEF SdInv, SdTypes

\* The forms in which the driver's variables change.
LEMMA FinishFacts ==
  ASSUME drv \in DrvType, NEW ok \in BOOLEAN, NEW status \in SUBSET {"NODISK", "NOINIT"},
         SD!Finish(ok, status)
  PROVE  /\ drv' \in DrvType /\ drv'.pc = "return" /\ drv'.ok = ok /\ drv'.status = status
         /\ drv'.op = drv.op /\ drv'.mul = drv.mul /\ drv'.i = drv.i /\ drv'.count = drv.count
         /\ drv'.sec = drv.sec /\ drv'.value = drv.value
  BY DEF SD!Finish, DrvType

LEMMA FailFacts ==
  ASSUME drv \in DrvType, SD!Fail
  PROVE  drv' \in DrvType /\ drv'.pc = "return" /\ ~drv'.ok /\ drv'.status # {} /\ drv'.op = drv.op
<1> DEFINE status == {"NODISK", "NOINIT"}
<1>1. SD!Finish(FALSE, status) /\ status \in SUBSET {"NODISK", "NOINIT"} /\ status # {}
  BY DEF SD!Fail
<1> HIDE DEF status
<1> QED
  BY <1>1, FinishFacts

LEMMA GotoFacts ==
  ASSUME drv \in DrvType, NEW to \in {"out", "return"} \cup Identifying \cup Transfer, SD!Goto(to)
  PROVE  /\ drv' \in DrvType /\ drv'.pc = to /\ drv'.ok = drv.ok /\ drv'.status = drv.status
         /\ drv'.op = drv.op /\ drv'.mul = drv.mul /\ drv'.i = drv.i /\ drv'.count = drv.count
         /\ drv'.sec = drv.sec /\ drv'.value = drv.value
  BY DEF SD!Goto, DrvType

\* A step that has nothing to do with the data path.
LEMMA QuietStep ==
  ASSUME SdInv, SdTypes', drv.pc \notin {"transfer", "abort", "stopped"}, drv'.pc \notin Transfer,
         host' = host \/ host' = SD!IdleHost, dma' = dma, CardInv',
         drv'.pc = "return" /\ drv'.ok => drv'.op \notin {"Read", "Write"}
  PROVE  SdInv'
<1>1. IdleInv'
  BY DEF SdInv, IdleInv, SD!IdleHost
<1>2. MovedInv' /\ TransferInv' /\ SD!ResultIsTrue'
  BY DEF MovedInv, TransferInv, SD!ResultIsTrue, Transfer
<1> QED
  BY <1>1, <1>2 DEF SdInv

LEMMA IdentifyInv ==
  ASSUME SdInv, ~Mismatches, NEW c \in IdentifyCommands, NEW r \in SD!Command(c, 0),
         card' = r.card, host' = host, dma' = dma, buf' = buf,
         drv.pc \in Identifying, drv' \in DrvType, drv'.op = "Init",
         \/ /\ drv'.pc \in Identifying /\ drv'.status = drv.status
            /\ drv'.pc \in {"cid", "rca", "csd", "select"} => drv'.mul = IF card.hc THEN 1 ELSE SectorSize
         \/ drv'.pc = "return" /\ drv'.status # {}
         \/ /\ drv'.pc = "return" /\ c = "CmdSelectCard" /\ r.ok
            /\ drv'.mul = IF card.hc THEN 1 ELSE SectorSize
  PROVE  SdInv'
<1>1. /\ r.card \in CardType /\ r.card.hc = card.hc
      /\ c = "CmdSelectCard" /\ r.ok => r.card.state = "tran"
  BY IdentifyFacts DEF SdInv
<1>2. SdTypes'
  BY <1>1 DEF SdInv, SdTypes
<1>3. drv.pc \notin {"transfer", "abort", "stopped"} /\ drv'.pc \notin Transfer /\ drv.status # {}
  BY DEF SdInv, CardInv, Identifying, Transfer
<1>4. CardInv'
  BY <1>1, <1>3 DEF CardInv, Identifying, Transfer
<1> QED
  BY <1>2, <1>3, <1>4, QuietStep

LEMMA CallInitInv == SdInv /\ SD!CallInit => SdInv'
<1> SUFFICES ASSUME SdInv, SD!CallInit PROVE SdInv'
  OBVIOUS
<1> DEFINE to == IF "NOINIT" \in drv.status THEN "initialize" ELSE IF "NODISK" \in drv.status THEN "goIdle" ELSE "return"
           ready == drv.status = {}
<1>1. /\ drv.pc = "out" /\ card' = card /\ host' = host /\ dma' = dma /\ buf' = buf
      /\ drv' = [drv EXCEPT !.op = "Init", !.pc = to, !.ok = ready]
  BY DEF SD!CallInit
<1>2. /\ to \in {"initialize", "goIdle", "return"} /\ ready \in BOOLEAN
      /\ to # "return" => drv.status # {}
  BY DEF SdInv, SdTypes, DrvType
<1> HIDE DEF to, ready
<1>3. /\ drv' \in DrvType /\ drv'.pc = to /\ drv'.op = "Init" /\ drv'.status = drv.status
      /\ drv'.mul = drv.mul
  BY <1>1, <1>2 DEF SdInv, SdTypes, DrvType, Identifying
<1>4. SdTypes'
  BY <1>1, <1>3 DEF SdInv, SdTypes
<1>5. CardInv'
  BY <1>1, <1>2, <1>3 DEF SdInv, CardInv, Identifying, Transfer
<1> QED
  BY <1>1, <1>2, <1>3, <1>4, <1>5, QuietStep DEF Transfer

LEMMA InitializeInv == SdInv /\ SD!Initialize => SdInv'
<1> SUFFICES ASSUME SdInv, SD!Initialize PROVE SdInv'
  OBVIOUS
<1>1. /\ drv.pc = "initialize" /\ host' = SD!IdleHost /\ dma' = dma /\ buf' = buf
      /\ card' = (IF card.state = "absent" THEN card ELSE [card EXCEPT !.state = "idle"])
      /\ drv' = [drv EXCEPT !.status = {"NODISK"}, !.pc = "goIdle"]
  BY DEF SD!Initialize
<1>2. /\ drv' \in DrvType /\ drv'.pc = "goIdle" /\ drv'.status = {"NODISK"} /\ drv'.op = drv.op
  BY <1>1 DEF SdInv, SdTypes, DrvType, Identifying
<1>3. card' \in CardType /\ host' \in HostType
  BY <1>1 DEF SdInv, SdTypes, CardType, HostType, SD!IdleHost
<1>4. SdTypes'
  BY <1>1, <1>2, <1>3 DEF SdInv, SdTypes
<1>5. CardInv'
  BY <1>1, <1>2 DEF SdInv, CardInv, Identifying, Transfer
<1> QED
  BY <1>1, <1>2, <1>4, <1>5, QuietStep DEF Transfer

LEMMA GoIdleInv == SdInv /\ ~Mismatches /\ SD!GoIdle => SdInv'
<1> SUFFICES ASSUME SdInv, ~Mismatches, SD!GoIdle PROVE SdInv'
  OBVIOUS
<1>1. PICK r \in SD!Command("CmdGoIdleState", 0) :
        /\ card' = r.card
        /\ IF r.ok THEN drv' = [drv EXCEPT !.pc = "sendIfCond", !.v2 = TRUE, !.tries = 0] ELSE SD!Fail
  BY DEF SD!GoIdle
<1>2. drv.pc = "goIdle" /\ host' = host /\ dma' = dma /\ buf' = buf /\ drv \in DrvType
  BY DEF SD!GoIdle, SdInv, SdTypes
<1>3. drv.pc \in Identifying /\ drv.op = "Init" /\ "CmdGoIdleState" \in IdentifyCommands
  BY <1>2 DEF SdInv, CardInv, Identifying, IdentifyCommands
<1>4. CASE r.ok
  <2>1. drv' \in DrvType /\ drv'.pc = "sendIfCond" /\ drv'.op = drv.op /\ drv'.status = drv.status
    <3>1. 0 \in 0..MaxTries
      BY CardAssumption
    <3>2. drv' = [drv EXCEPT !.pc = "sendIfCond", !.v2 = TRUE, !.tries = 0]
      BY <1>1, <1>4
    <3>3. drv' \in DrvType
      BY <1>2, <3>1, <3>2 DEF DrvType, Identifying
    <3> QED
      BY <1>2, <3>2, <3>3 DEF DrvType
  <2> QED
    BY <1>1, <1>2, <1>3, <2>1, IdentifyInv DEF Identifying
<1>5. CASE ~r.ok
  BY <1>1, <1>2, <1>3, <1>5, FailFacts, IdentifyInv
<1> QED
  BY <1>4, <1>5

LEMMA SendIfCondInv == SdInv /\ ~Mismatches /\ SD!SendIfCond => SdInv'
<1> SUFFICES ASSUME SdInv, ~Mismatches, SD!SendIfCond PROVE SdInv'
  OBVIOUS
<1>1. PICK r \in SD!Command("CmdSendIfCond", 0) :
        /\ card' = r.card
        /\ drv' = [drv EXCEPT !.v2 = r.ok, !.pc = IF r.ok THEN "query" ELSE "goIdleV1"]
  BY DEF SD!SendIfCond
<1>2. drv.pc = "sendIfCond" /\ host' = host /\ dma' = dma /\ buf' = buf /\ drv \in DrvType
  BY DEF SD!SendIfCond, SdInv, SdTypes
<1>3. drv.pc \in Identifying /\ drv.op = "Init" /\ "CmdSendIfCond" \in IdentifyCommands
  BY <1>2 DEF SdInv, CardInv, Identifying, IdentifyCommands
<1>4. r.ok \in BOOLEAN
  <2>1. \E res : r.ok = SD!Success(res)
    BY DEF SD!Command
  <2> QED
    BY <2>1 DEF SD!Success
<1>5. drv' \in DrvType /\ drv'.pc \in {"query", "goIdleV1"} /\ drv'.op = drv.op /\ drv'.status = drv.status
  BY <1>1, <1>2, <1>4 DEF DrvType, Identifying
<1> QED
  BY <1>1, <1>2, <1>3, <1>5, IdentifyInv DEF Identifying

LEMMA IdentifyStepInv == SdInv /\ ~Mismatches /\ SD!IdentifyStep => SdInv'
<1> SUFFICES ASSUME SdInv, ~Mismatches, SD!IdentifyStep PROVE SdInv'
  OBVIOUS
<1> DEFINE c == SD!CommandOf[drv.pc]
           to == SD!NextStep[drv.pc]
<1>1. drv.pc \in {"goIdleV1", "query", "start", "cid", "rca", "csd"}
  BY DEF SD!IdentifyStep, SD!CommandOf
<1>2. c \in IdentifyCommands /\ c # "CmdSelectCard"
  BY <1>1 DEF SD!CommandOf, IdentifyCommands
<1>3. /\ to \in Identifying
      /\ to \in {"cid", "rca", "csd", "select"} => drv.pc \in {"cid", "rca", "csd"}
  BY <1>1 DEF SD!NextStep, Identifying
<1>4. PICK r \in SD!Command(c, 0) : card' = r.card /\ IF r.ok THEN SD!Goto(to) ELSE SD!Fail
  BY DEF SD!IdentifyStep
<1>5. host' = host /\ dma' = dma /\ buf' = buf /\ drv \in DrvType
  BY DEF SD!IdentifyStep, SdInv, SdTypes
<1>6. drv.pc \in Identifying /\ drv.op = "Init"
  BY <1>1 DEF SdInv, CardInv, Identifying
<1> HIDE DEF c, to
<1>7. CASE r.ok
  <2>1. /\ drv' \in DrvType /\ drv'.pc = to /\ drv'.status = drv.status /\ drv'.op = drv.op
        /\ drv'.mul = drv.mul
    BY <1>3, <1>4, <1>5, <1>7, GotoFacts
  <2>2. drv'.pc \in {"cid", "rca", "csd", "select"} => drv'.mul = IF card.hc THEN 1 ELSE SectorSize
    BY <1>3, <2>1 DEF SdInv, CardInv
  <2> QED
    BY <1>2, <1>3, <1>4, <1>5, <1>6, <2>1, <2>2, IdentifyInv
<1>8. CASE ~r.ok
  BY <1>2, <1>4, <1>5, <1>6, <1>8, FailFacts, IdentifyInv
<1> QED
  BY <1>7, <1>8

LEMMA PollOpCondInv == SdInv /\ ~Mismatches /\ SD!PollOpCond => SdInv'
<1> SUFFICES ASSUME SdInv, ~Mismatches, SD!PollOpCond PROVE SdInv'
  OBVIOUS
<1> DEFINE mul == IF card.hc THEN 1 ELSE SectorSize
           more == (drv.tries + 1) % (MaxTries + 1)
<1>1. PICK r \in SD!Command("PollOpCond", 0) :
        /\ card' = r.card
        /\ \/ SD!Fail
           \/ drv' = [drv EXCEPT !.pc = "cid", !.mul = mul]
           \/ drv' = [drv EXCEPT !.tries = more]
  BY DEF SD!PollOpCond
<1>2. drv.pc = "poll" /\ host' = host /\ dma' = dma /\ buf' = buf /\ drv \in DrvType
  BY DEF SD!PollOpCond, SdInv, SdTypes
<1>3. drv.pc \in Identifying /\ drv.op = "Init" /\ "PollOpCond" \in IdentifyCommands
  BY <1>2 DEF SdInv, CardInv, Identifying, IdentifyCommands
<1>4. mul \in {1, SectorSize} /\ more \in 0..MaxTries
  <2>1. drv.tries \in Nat /\ MaxTries \in Nat
    BY <1>2, CardAssumption DEF DrvType
  <2> QED
    BY <2>1
<1> HIDE DEF more
<1>5. CASE SD!Fail
  BY <1>1, <1>2, <1>3, <1>5, FailFacts, IdentifyInv
<1>6. CASE drv' = [drv EXCEPT !.pc = "cid", !.mul = mul]
  <2> HIDE DEF mul
  <2>1. /\ drv' \in DrvType /\ drv'.pc = "cid" /\ drv'.mul = mul /\ drv'.op = drv.op
        /\ drv'.status = drv.status
    BY <1>2, <1>4, <1>6 DEF DrvType, Identifying
  <2> QED
    BY <1>1, <1>2, <1>3, <2>1, IdentifyInv DEF Identifying, mul
<1>7. CASE drv' = [drv EXCEPT !.tries = more]
  <2>1. /\ drv' \in DrvType /\ drv'.pc = "poll" /\ drv'.op = drv.op /\ drv'.status = drv.status
    BY <1>2, <1>4, <1>7 DEF DrvType
  <2> QED
    BY <1>1, <1>2, <1>3, <2>1, IdentifyInv DEF Identifying
<1> QED
  BY <1>1, <1>5, <1>6, <1>7

LEMMA SelectCardInv == SdInv /\ ~Mismatches /\ SD!SelectCard => SdInv'
<1> SUFFICES ASSUME SdInv, ~Mismatches, SD!SelectCard PROVE SdInv'
  OBVIOUS
<1>1. PICK r \in SD!Command("CmdSelectCard", 0) :
        card' = r.card /\ IF r.ok THEN SD!Finish(TRUE, {}) ELSE SD!Fail
  BY DEF SD!SelectCard
<1>2. drv.pc = "select" /\ host' = host /\ dma' = dma /\ buf' = buf /\ drv \in DrvType
  BY DEF SD!SelectCard, SdInv, SdTypes
<1>3. drv.pc \in Identifying /\ drv.op = "Init" /\ "CmdSelectCard" \in IdentifyCommands
  BY <1>2 DEF SdInv, CardInv, Identifying, IdentifyCommands
<1>4. CASE r.ok
  <2>1. drv' \in DrvType /\ drv'.pc = "return" /\ drv'.op = drv.op /\ drv'.mul = drv.mul
    <3> DEFINE status == {}
    <3>1. SD!Finish(TRUE, status) /\ status \in SUBSET {"NODISK", "NOINIT"}
      BY <1>1, <1>4
    <3> HIDE DEF status
    <3> QED
      BY <1>2, <3>1, FinishFacts
  <2>2. drv'.mul = IF card.hc THEN 1 ELSE SectorSize
    BY <1>2, <2>1 DEF SdInv, CardInv
  <2> QED
    BY <1>1, <1>2, <1>3, <1>4, <2>1, <2>2, IdentifyInv
<1>5. CASE ~r.ok
  BY <1>1, <1>2, <1>3, <1>5, FailFacts, IdentifyInv
<1> QED
  BY <1>4, <1>5

LEMMA TimedOutInv == SdInv /\ SD!TimedOut => SdInv'
<1> SUFFICES ASSUME SdInv, SD!TimedOut PROVE SdInv'
  OBVIOUS
<1>1. drv.pc = "transfer" /\ card' = card /\ host' = host /\ dma' = dma /\ buf' = buf /\ drv \in DrvType
  BY DEF SD!TimedOut, SdInv, SdTypes
<1>2. /\ drv' \in DrvType /\ drv'.pc = "abort" /\ drv'.status = drv.status /\ drv'.i = drv.i
      /\ drv'.count = drv.count /\ drv'.op = drv.op /\ drv'.mul = drv.mul
  BY <1>1, GotoFacts DEF SD!TimedOut, Transfer
<1>3. SdTypes'
  BY <1>1, <1>2 DEF SdInv, SdTypes
<1>4. CardInv'
  BY <1>1, <1>2 DEF SdInv, CardInv, Transfer, Identifying
<1>5. IdleInv' /\ MovedInv' /\ TransferInv' /\ SD!ResultIsTrue'
  BY <1>2 DEF IdleInv, MovedInv, TransferInv, SD!ResultIsTrue
<1> QED
  BY <1>3, <1>4, <1>5 DEF SdInv

LEMMA SendStatusInv == SdInv /\ ~Mismatches /\ SD!SendStatus => SdInv'
<1> SUFFICES ASSUME SdInv, ~Mismatches, SD!SendStatus PROVE SdInv'
  OBVIOUS
<1>1. PICK r \in SD!Command("CmdSendStatus", 0) :
        card' = r.card /\ IF r.ok THEN SD!Finish(TRUE, {}) ELSE SD!Fail
  BY DEF SD!SendStatus
<1>2. /\ drv.pc = "ready" /\ drv.op = "Test" /\ host' = host /\ dma' = dma /\ buf' = buf /\ drv \in DrvType
      /\ drv.status = {} /\ "CmdSendStatus" \in IdentifyCommands
  BY DEF SD!SendStatus, SdInv, SdTypes, CardInv, Transfer, IdentifyCommands
<1>3. r.card \in CardType /\ r.card.hc = card.hc /\ r.card.state = card.state
  BY <1>2, IdentifyFacts DEF SdInv
<1>4. /\ drv' \in DrvType /\ drv'.pc = "return" /\ drv'.op = drv.op
      /\ drv'.status = {} => drv'.mul = drv.mul
  <2>1. CASE r.ok
    <3> DEFINE status == {}
    <3>1. SD!Finish(TRUE, status) /\ status \in SUBSET {"NODISK", "NOINIT"}
      BY <1>1, <2>1
    <3> HIDE DEF status
    <3> QED
      BY <1>2, <3>1, FinishFacts
  <2>2. CASE ~r.ok
    BY <1>1, <1>2, <2>2, FailFacts
  <2> QED
    BY <2>1, <2>2
<1>5. SdTypes'
  BY <1>1, <1>2, <1>3, <1>4 DEF SdInv, SdTypes
<1>6. CardInv'
  BY <1>1, <1>2, <1>3, <1>4 DEF SdInv, CardInv, Transfer, Identifying
<1> QED
  BY <1>2, <1>4, <1>5, <1>6, QuietStep DEF Transfer

LEMMA CardCallInv ==
  ASSUME SdInv, NEW op \in {"Test", "Read", "Write"}, NEW s \in Sectors, NEW n \in 1..MaxCount,
         NEW x \in Data, SD!Call(op, s, n, x)
  PROVE  SdInv'
<1>1. /\ drv.pc = "out" /\ drv.status = {} /\ card' = card /\ host' = host /\ dma' = dma /\ buf' = buf
      /\ drv' = [drv EXCEPT !.pc = "ready", !.op = op, !.i = 1, !.count = n, !.sec = s, !.value = x]
  BY DEF SD!Call
<1>2. drv \in DrvType /\ s \in Nat /\ 1 \in 1..MaxCount /\ n \in 0..MaxCount
  BY CardAssumption DEF SdInv, SdTypes
<1>3. drv' \in DrvType
  BY <1>1, <1>2 DEF DrvType, Transfer
<1>4. /\ drv'.pc = "ready" /\ drv'.op = op /\ drv'.i = 1 /\ drv'.count = n /\ drv'.status = drv.status
      /\ drv'.mul = drv.mul
  BY <1>1, <1>2 DEF DrvType
<1>5. SdTypes'
  BY <1>1, <1>3 DEF SdInv, SdTypes
<1>6. CardInv'
  BY <1>1, <1>4 DEF SdInv, CardInv, Transfer, Identifying
<1>7. IdleInv' /\ MovedInv' /\ TransferInv' /\ SD!ResultIsTrue'
  BY <1>1, <1>4 DEF SdInv, IdleInv, MovedInv, TransferInv, SD!ResultIsTrue
<1> QED
  BY <1>5, <1>6, <1>7 DEF SdInv

LEMMA CardReturnInv == SdInv /\ SD!Return => SdInv'
<1> SUFFICES ASSUME SdInv, SD!Return PROVE SdInv'
  OBVIOUS
<1>1. /\ drv.pc = "return" /\ card' = card /\ host' = host /\ dma' = dma /\ buf' = SD!EmptyBuf
      /\ drv' = [drv EXCEPT !.pc = "out", !.op = "none", !.ok = FALSE, !.i = 1, !.count = 0, !.sec = 0,
                            !.v2 = FALSE, !.tries = 0, !.value = SD!Blank]
  BY DEF SD!Return
<1>2. /\ drv \in DrvType /\ 0 \in 0..MaxCount /\ 1 \in 1..MaxCount /\ 0 \in 0..MaxTries /\ SD!Blank \in Data
      /\ SD!EmptyBuf \in BufType
  BY CardAssumption DEF SdInv, SdTypes, SD!Blank, SD!EmptyBuf, BufType
<1>3. drv' \in DrvType
  BY <1>1, <1>2 DEF DrvType
<1>4. drv'.pc = "out" /\ drv'.status = drv.status /\ drv'.mul = drv.mul
  BY <1>1, <1>2 DEF DrvType
<1>5. SdTypes'
  BY <1>1, <1>2, <1>3 DEF SdInv, SdTypes
<1>6. CardInv'
  BY <1>1, <1>4 DEF SdInv, CardInv, Transfer, Identifying
<1> QED
  BY <1>1, <1>4, <1>5, <1>6, QuietStep DEF Transfer

LEMMA AbortInv == SdInv /\ SD!AbortDmaTransfer => SdInv'
<1> SUFFICES ASSUME SdInv, SD!AbortDmaTransfer PROVE SdInv'
  OBVIOUS
<1> DEFINE none == SD!Cleared(host.flags)
<1>1. /\ card' = card /\ buf' = buf /\ SD!Fail
      /\ host' = [host EXCEPT !.act = "none", !.flags = none]
      /\ dma' = [dma EXCEPT !.enabled = FALSE]
  BY DEF SD!AbortDmaTransfer
<1>2. none = {}
  BY DEF SD!Cleared
<1> HIDE DEF none
<1>3. drv' \in DrvType /\ drv'.pc = "return" /\ ~drv'.ok /\ drv'.status # {}
  BY <1>1, FailFacts DEF SdInv, SdTypes
<1>4. /\ host' \in HostType /\ host'.act = "none" /\ host'.flags = {}
      /\ dma' \in DmaType /\ ~dma'.enabled
  BY <1>1, <1>2 DEF SdInv, SdTypes, HostType, DmaType
<1>5. SdTypes'
  BY <1>1, <1>3, <1>4 DEF SdInv, SdTypes
<1>6. CardInv' /\ IdleInv' /\ MovedInv' /\ TransferInv' /\ SD!ResultIsTrue'
  BY <1>3, <1>4 DEF CardInv, IdleInv, MovedInv, TransferInv, SD!ResultIsTrue, Transfer, Identifying
<1> QED
  BY <1>5, <1>6 DEF SdInv

\* The card is addressed the way it wants it.
LEMMA AddressIsSector ==
  ASSUME SdInv, drv.status = {}
  PROVE  SD!Addressed(SD!Address) = drv.sec
<1> DEFINE q == drv.sec
           n == SectorSize
<1>1. q \in Nat /\ n \in Nat \ {0} /\ drv.mul = IF card.hc THEN 1 ELSE n
  BY CardAssumption DEF SdInv, SdTypes, DrvType, CardInv
<1> HIDE DEF q, n
<1>2. q * 1 = q /\ (q * n) % n = 0 /\ (q * n) \div n = q
  BY <1>1
<1>3. SD!Address = IF card.hc THEN q * 1 ELSE q * n
  BY <1>1 DEF SD!Address, q
<1>4. CASE card.hc
  BY <1>2, <1>3, <1>4 DEF SD!Addressed, q
<1>5. CASE ~card.hc
  BY <1>2, <1>3, <1>5 DEF SD!Addressed, q, n
<1> QED
  BY <1>4, <1>5

\* What the commands that move data make of the card.
LEMMA BlockFacts ==
  ASSUME SdInv, ~Mismatches, NEW c \in {"CmdReadSingleBlock", "CmdWriteBlock"},
         drv.status = {}, drv.pc = "ready", NEW r \in SD!Command(c, SD!Address)
  PROVE  /\ r.card \in CardType /\ r.card.hc = card.hc /\ r.card.mem = card.mem
         /\ ~r.ok \/ r.card \in SD!Obeyed(c, SD!Address)
         /\ \/ r.card = card
            \/ r.card.state = "tran"
            \/ r.card.sel = drv.sec /\ c = "CmdReadSingleBlock" /\ r.card.state = "data"
            \/ r.card.sel = drv.sec /\ c = "CmdWriteBlock" /\ r.card.state = "rcv"
<1>1. card \in CardType /\ SD!Addressed(SD!Address) = drv.sec
  BY AddressIsSector DEF SdInv, SdTypes
<1>2. CASE r.card = card /\ ~r.ok
  BY <1>1, <1>2
<1>3. CASE r.card \in SD!Obeyed(c, SD!Address)
  <2> DEFINE to == IF c = "CmdReadSingleBlock" THEN "data" ELSE "rcv"
  <2>1. \A x : SD!Move({"tran"}, x) \subseteq {[card EXCEPT !.state = x]}
    BY DEF SD!Move
  <2>2. SD!Obeyed(c, SD!Address) =
          IF drv.sec \notin Sectors THEN SD!Move({"tran"}, "tran")
          ELSE {[k EXCEPT !.sel = drv.sec] : k \in SD!Move({"tran"}, to)}
    BY <1>1 DEF SD!Obeyed
  <2>3. \/ r.card = [card EXCEPT !.state = "tran"]
        \/ drv.sec \in Sectors /\ r.card = [[card EXCEPT !.state = to] EXCEPT !.sel = drv.sec]
    <3>1. CASE drv.sec \notin Sectors
      BY <1>3, <2>1, <2>2, <3>1
    <3>2. CASE drv.sec \in Sectors
      <4>1. PICK k \in SD!Move({"tran"}, to) : r.card = [k EXCEPT !.sel = drv.sec]
        BY <1>3, <2>2, <3>2
      <4>2. k = [card EXCEPT !.state = to]
        BY <2>1, <4>1
      <4> QED
        BY <3>2, <4>1, <4>2
    <3> QED
      BY <3>1, <3>2
  <2>4. to \in {"data", "rcv"}
    OBVIOUS
  <2>5. (c = "CmdReadSingleBlock" /\ to = "data") \/ (c = "CmdWriteBlock" /\ to = "rcv")
    OBVIOUS
  <2> HIDE DEF to
  <2>6. CASE r.card = [card EXCEPT !.state = "tran"]
    BY <1>1, <1>3, <2>6 DEF CardType
  <2>7. CASE drv.sec \in Sectors /\ r.card = [[card EXCEPT !.state = to] EXCEPT !.sel = drv.sec]
    <3>1. /\ r.card \in CardType /\ r.card.hc = card.hc /\ r.card.mem = card.mem
          /\ r.card.sel = drv.sec /\ r.card.state = to
      BY <1>1, <2>4, <2>7 DEF CardType
    <3> QED
      BY <1>3, <2>5, <3>1
  <2> QED
    BY <2>3, <2>6, <2>7
<1> QED
  BY <1>2, <1>3, CommandFacts DEF SD!NoResponse

LEMMA StartReadInv == SdInv /\ ~Mismatches /\ SD!StartRead => SdInv'
<1> SUFFICES ASSUME SdInv, ~Mismatches, SD!StartRead PROVE SdInv'
  OBVIOUS
<1>1. PICK r \in SD!Command("CmdReadSingleBlock", SD!Address) :
        card' = r.card /\ SD!Goto(IF r.ok THEN "transfer" ELSE "abort")
  BY DEF SD!StartRead
<1> DEFINE to == IF r.ok THEN "transfer" ELSE "abort"
<1>2. /\ drv.pc = "ready" /\ drv.op = "Read" /\ buf' = buf /\ drv \in DrvType /\ host \in HostType
      /\ dma \in DmaType /\ drv.status = {} /\ host.act = "none" /\ host.flags = {}
      /\ card.state \in {"absent", "idle", "tran"}
  BY DEF SD!StartRead, SdInv, SdTypes, CardInv, IdleInv, Transfer
<1>3. /\ host' = [host EXCEPT !.act = "rx", !.bad = FALSE] /\ dma' = [enabled |-> TRUE, cndtr |-> Words]
  BY DEF SD!StartRead, SD!Configured
<1>4. /\ r.card \in CardType /\ r.card.hc = card.hc /\ r.card.mem = card.mem
      /\ \/ r.card.state \in {"absent", "idle", "tran"}
         \/ r.card.state = "data" /\ r.card.sel = drv.sec
  <2> DEFINE c == "CmdReadSingleBlock"
  <2>1. c \in {"CmdReadSingleBlock", "CmdWriteBlock"} /\ c # "CmdWriteBlock" /\ r \in SD!Command(c, SD!Address)
    OBVIOUS
  <2> HIDE DEF c
  <2> QED
    BY <1>2, <2>1, BlockFacts
<1>5. to \in {"transfer", "abort"}
  OBVIOUS
<1> HIDE DEF to
<1>6. /\ drv' \in DrvType /\ drv'.pc = to /\ drv'.status = {} /\ drv'.op = drv.op /\ drv'.mul = drv.mul
      /\ drv'.i = drv.i /\ drv'.count = drv.count /\ drv'.sec = drv.sec /\ drv'.value = drv.value
  BY <1>1, <1>2, <1>5, GotoFacts DEF to, Transfer
<1>7. /\ host' \in HostType /\ host'.act = "rx" /\ host'.flags = {}
  BY <1>2, <1>3 DEF HostType
<1>8. dma' \in DmaType /\ dma'.cndtr = Words
  BY <1>3, CardAssumption DEF DmaType
<1>9. SdTypes'
  BY <1>1, <1>2, <1>4, <1>6, <1>7, <1>8 DEF SdInv, SdTypes
<1>10. CardInv'
  BY <1>1, <1>2, <1>4, <1>5, <1>6 DEF SdInv, CardInv, Transfer, Identifying
<1>11. MovedInv'
  BY <1>1, <1>2, <1>4, <1>5, <1>6 DEF SdInv, MovedInv, Moved
<1>12. TransferInv'
  <2>1. 1..(Words - Words) = {}
    BY CardAssumption
  <2> QED
    BY <1>1, <1>2, <1>4, <1>6, <1>7, <1>8, <2>1 DEF TransferInv
<1>13. IdleInv' /\ SD!ResultIsTrue'
  BY <1>5, <1>6 DEF IdleInv, SD!ResultIsTrue
<1> QED
  BY <1>9, <1>10, <1>11, <1>12, <1>13 DEF SdInv

LEMMA StartWriteInv == SdInv /\ ~Mismatches /\ SD!StartWrite => SdInv'
<1> SUFFICES ASSUME SdInv, ~Mismatches, SD!StartWrite PROVE SdInv'
  OBVIOUS
<1>1. PICK r \in SD!Command("CmdWriteBlock", SD!Address) :
        /\ card' = r.card
        /\ IF r.ok THEN SD!Configured("tx") /\ SD!Goto("transfer")
           ELSE SD!Fail /\ UNCHANGED <<host, dma>>
  BY DEF SD!StartWrite
<1>2. /\ drv.pc = "ready" /\ drv.op = "Write" /\ buf' = buf /\ drv \in DrvType /\ host \in HostType
      /\ dma \in DmaType /\ drv.status = {} /\ host.act = "none" /\ host.flags = {} /\ ~dma.enabled
      /\ card.state \in {"absent", "idle", "tran"}
  BY DEF SD!StartWrite, SdInv, SdTypes, CardInv, IdleInv, Transfer
<1>3. /\ r.card \in CardType /\ r.card.hc = card.hc /\ r.card.mem = card.mem
      /\ \/ r.card.state \in {"absent", "idle", "tran"}
         \/ r.card.state = "rcv" /\ r.card.sel = drv.sec
  <2> DEFINE c == "CmdWriteBlock"
  <2>1. c \in {"CmdReadSingleBlock", "CmdWriteBlock"} /\ c # "CmdReadSingleBlock" /\ r \in SD!Command(c, SD!Address)
    OBVIOUS
  <2> HIDE DEF c
  <2> QED
    BY <1>2, <2>1, BlockFacts
<1>4. CASE r.ok
  <2>1. /\ drv' \in DrvType /\ drv'.pc = "transfer" /\ drv'.status = {} /\ drv'.op = drv.op /\ drv'.mul = drv.mul
        /\ drv'.i = drv.i /\ drv'.count = drv.count /\ drv'.sec = drv.sec /\ drv'.value = drv.value
    BY <1>1, <1>2, <1>4, GotoFacts DEF Transfer
  <2>2. /\ host' = [host EXCEPT !.act = "tx", !.bad = FALSE] /\ dma' = [enabled |-> TRUE, cndtr |-> Words]
    BY <1>1, <1>4 DEF SD!Configured
  <2>3. host' \in HostType /\ host'.act = "tx" /\ host'.flags = {}
    BY <1>2, <2>2 DEF HostType
  <2>4. dma' \in DmaType
    BY <2>2, CardAssumption DEF DmaType
  <2>5. SdTypes'
    BY <1>1, <1>2, <1>3, <2>1, <2>3, <2>4 DEF SdInv, SdTypes
  <2>6. CardInv'
    BY <1>1, <1>2, <1>3, <2>1 DEF SdInv, CardInv, Transfer, Identifying
  <2>7. MovedInv'
    BY <1>1, <1>2, <1>3, <2>1 DEF SdInv, MovedInv, Moved
  <2>8. TransferInv'
    BY <1>1, <1>2, <1>3, <2>1, <2>3 DEF TransferInv
  <2>9. IdleInv' /\ SD!ResultIsTrue'
    BY <2>1 DEF IdleInv, SD!ResultIsTrue
  <2> QED
    BY <2>5, <2>6, <2>7, <2>8, <2>9 DEF SdInv
<1>5. CASE ~r.ok
  <2>1. drv' \in DrvType /\ drv'.pc = "return" /\ ~drv'.ok /\ drv'.status # {} /\ host' = host /\ dma' = dma
    BY <1>1, <1>2, <1>5, FailFacts
  <2>2. SdTypes'
    BY <1>1, <1>2, <1>3, <2>1 DEF SdInv, SdTypes
  <2>3. CardInv'
    BY <2>1 DEF CardInv, Transfer, Identifying
  <2> QED
    BY <1>2, <2>1, <2>2, <2>3, QuietStep DEF Transfer
<1> QED
  BY <1>4, <1>5

LEMMA CompletedInv == SdInv /\ SD!TransferIsOver /\ SD!CompleteDmaTransfer => SdInv'
<1> SUFFICES ASSUME SdInv, SD!TransferIsOver, SD!CompleteDmaTransfer PROVE SdInv'
  OBVIOUS
<1> DEFINE none == SD!Cleared(host.flags)
<1>1. /\ drv.pc = "transfer" /\ host.act = "none" /\ card' = card /\ buf' = buf
      /\ host' = [host EXCEPT !.flags = none] /\ dma' = [dma EXCEPT !.enabled = FALSE]
  BY DEF SD!CompleteDmaTransfer, SD!NotBusy
<1>2. none = {}
  BY DEF SD!Cleared
<1> HIDE DEF none
<1>3. /\ drv \in DrvType /\ host \in HostType /\ dma \in DmaType /\ drv.status = {} /\ drv.i <= drv.count
  BY <1>1 DEF SdInv, SdTypes, CardInv, Transfer
<1>4. /\ host' \in HostType /\ host'.act = "none" /\ host'.flags = {}
      /\ dma' \in DmaType /\ ~dma'.enabled
  BY <1>1, <1>2, <1>3 DEF HostType, DmaType
<1>5. CASE ~SD!DataSuccess(host.flags)
  <2>1. drv' \in DrvType /\ drv'.pc = "return" /\ ~drv'.ok /\ drv'.status # {}
    <3>1. SD!Fail
      BY <1>5 DEF SD!CompleteDmaTransfer
    <3> QED
      BY <1>3, <3>1, FailFacts
  <2>2. SdTypes'
    BY <1>1, <1>4, <2>1 DEF SdInv, SdTypes
  <2>3. CardInv' /\ IdleInv' /\ MovedInv' /\ TransferInv' /\ SD!ResultIsTrue'
    BY <1>4, <2>1 DEF CardInv, IdleInv, MovedInv, TransferInv, SD!ResultIsTrue, Transfer, Identifying
  <2> QED
    BY <2>2, <2>3 DEF SdInv
<1>6. ASSUME SD!DataSuccess(host.flags)
      PROVE  /\ card.state \in {"absent", "idle", "tran"}
             /\ \A k \in 1..drv.i : Moved(k, drv.sec - drv.i + k)
  <2>1. card.state \in {"absent", "idle", "tran"} /\ Moved(drv.i, drv.sec)
    BY <1>1, <1>6 DEF SdInv, TransferInv, SD!DataSuccess
  <2>2. \A k \in 1..(drv.i - 1) : Moved(k, drv.sec - drv.i + k)
    BY <1>1 DEF SdInv, MovedInv
  <2>3. drv.i \in Nat /\ drv.sec \in Nat
    BY <1>3 DEF DrvType
  <2>4. \A k \in 1..drv.i : k = drv.i \/ k \in 1..(drv.i - 1)
    BY <2>3
  <2>5. drv.sec - drv.i + drv.i = drv.sec
    BY <2>3
  <2> QED
    BY <2>1, <2>2, <2>4, <2>5
<1>7. CASE SD!DataSuccess(host.flags) /\ SD!LastSector
  <2>1. /\ drv' \in DrvType /\ drv'.pc = "return" /\ drv'.ok /\ drv'.status = {} /\ drv'.op = drv.op
        /\ drv'.mul = drv.mul /\ drv'.count = drv.i /\ drv'.sec = drv.sec /\ drv'.value = drv.value
    <3> DEFINE status == {}
    <3>1. SD!Finish(TRUE, status) /\ status \in SUBSET {"NODISK", "NOINIT"}
      BY <1>7 DEF SD!CompleteDmaTransfer
    <3>2. status = {}
      OBVIOUS
    <3> HIDE DEF status
    <3> QED
      BY <1>3, <1>7, <3>1, <3>2, FinishFacts DEF SD!LastSector
  <2>2. SdTypes'
    BY <1>1, <1>4, <2>1 DEF SdInv, SdTypes
  <2>3. CardInv'
    BY <1>1, <1>3, <1>6, <1>7, <2>1 DEF SdInv, CardInv, Transfer, Identifying
  <2>4. SD!ResultIsTrue'
    BY <1>1, <1>6, <1>7, <2>1 DEF SD!ResultIsTrue, Moved
  <2>5. IdleInv' /\ MovedInv' /\ TransferInv'
    BY <1>4, <2>1 DEF IdleInv, MovedInv, TransferInv
  <2> QED
    BY <2>2, <2>3, <2>4, <2>5 DEF SdInv
<1>8. CASE SD!DataSuccess(host.flags) /\ ~SD!LastSector
  <2> DEFINE i == drv.i + 1
             sec == drv.sec + 1
  <2>1. drv' = [drv EXCEPT !.pc = "ready", !.i = i, !.sec = sec]
    BY <1>8 DEF SD!CompleteDmaTransfer
  <2>2. drv.i \in 1..MaxCount /\ drv.count \in 0..MaxCount /\ drv.sec \in Nat /\ drv.i # drv.count /\ MaxCount \in Nat
    BY <1>3, <1>8, CardAssumption DEF DrvType, SD!LastSector
  <2>3. i \in 1..MaxCount /\ i <= drv.count /\ sec \in Nat
    BY <1>3, <2>2
  <2> HIDE DEF i, sec
  <2>4. drv' \in DrvType
    BY <1>3, <2>1, <2>3 DEF DrvType, Transfer
  <2>5. /\ drv'.pc = "ready" /\ drv'.i = i /\ drv'.sec = sec /\ drv'.count = drv.count /\ drv'.op = drv.op
        /\ drv'.status = {} /\ drv'.mul = drv.mul /\ drv'.value = drv.value
    BY <1>3, <2>1 DEF DrvType
  <2>6. SdTypes'
    BY <1>1, <1>4, <2>4 DEF SdInv, SdTypes
  <2>7. CardInv'
    BY <1>1, <1>3, <1>6, <1>8, <2>3, <2>5 DEF SdInv, CardInv, Transfer, Identifying
  <2>8. MovedInv'
    <3>1. i - 1 = drv.i
      BY <2>2 DEF i
    <3>2. \A k \in 1..drv.i : sec - i + k = drv.sec - drv.i + k
      BY <2>2 DEF i, sec
    <3> QED
      BY <1>1, <1>6, <1>8, <2>5, <3>1, <3>2 DEF MovedInv, Moved
  <2>9. IdleInv' /\ TransferInv' /\ SD!ResultIsTrue'
    BY <1>4, <2>5 DEF IdleInv, TransferInv, SD!ResultIsTrue
  <2> QED
    BY <2>6, <2>7, <2>8, <2>9 DEF SdInv
<1> QED
  BY <1>5, <1>7, <1>8

\* An assertion of CompleteDmaTransfer fails.
LEMMA StopInv == SdInv /\ ~SD!TransferIsOver /\ SD!CompleteDmaTransfer => SdInv'
<1> SUFFICES ASSUME SdInv, ~SD!TransferIsOver, SD!CompleteDmaTransfer PROVE SdInv'
  OBVIOUS
<1>1. /\ drv.pc = "transfer" /\ host.act = "none" /\ card' = card /\ buf' = buf /\ host' = host
      /\ dma' = [dma EXCEPT !.enabled = FALSE] /\ drv' = [drv EXCEPT !.pc = "stopped"]
  BY DEF SD!CompleteDmaTransfer, SD!NotBusy, SD!Goto
<1>2. drv \in DrvType /\ dma \in DmaType
  BY DEF SdInv, SdTypes
<1>3. drv' \in DrvType /\ drv'.pc = "stopped" /\ drv'.status = drv.status /\ drv'.mul = drv.mul
  BY <1>1, <1>2 DEF DrvType
<1>4. dma' \in DmaType
  BY <1>1, <1>2 DEF DmaType
<1>5. SdTypes'
  BY <1>1, <1>3, <1>4 DEF SdInv, SdTypes
<1>6. CardInv'
  BY <1>1, <1>3 DEF SdInv, CardInv, Transfer, Identifying
<1>7. host'.act = "none" /\ ~dma'.enabled
  BY <1>1, <1>2 DEF DmaType
<1>8. IdleInv' /\ MovedInv' /\ TransferInv' /\ SD!ResultIsTrue'
  BY <1>3, <1>7 DEF IdleInv, MovedInv, TransferInv, SD!ResultIsTrue
<1> QED
  BY <1>5, <1>6, <1>8 DEF SdInv

LEMMA CompleteInv == SdInv /\ SD!CompleteDmaTransfer => SdInv'
  BY CompletedInv, StopInv

\* A step of the data path or of the card: the driver does not move.
LEMMA PathStep ==
  ASSUME SdInv, SdTypes', drv' = drv, drv.pc \in {"transfer", "abort"}, card'.hc = card.hc,
         drv.pc = "transfer" => MovedInv' /\ TransferInv'
  PROVE  SdInv'
<1>1. CardInv'
  BY DEF SdInv, CardInv, Transfer, Identifying
<1>2. IdleInv' /\ MovedInv' /\ TransferInv' /\ SD!ResultIsTrue'
  BY DEF IdleInv, MovedInv, TransferInv, SD!ResultIsTrue
<1> QED
  BY <1>1, <1>2 DEF SdInv

LEMMA MoveWordInv == SdInv /\ SD!MoveWord => SdInv'
<1> SUFFICES ASSUME SdInv, SD!MoveWord PROVE SdInv'
  OBVIOUS
<1> DEFINE at == Words + 1 - dma.cndtr
           less == dma.cndtr - 1
<1>1. PICK spoilt \in BOOLEAN :
        /\ buf' = (IF host.act = "tx" THEN buf ELSE
             [buf EXCEPT ![drv.i][at] = IF spoilt THEN Garbage ELSE card.mem[card.sel]])
        /\ host' = [host EXCEPT !.bad = host.bad \/ spoilt]
  BY DEF SD!MoveWord
<1>2. /\ dma.enabled /\ dma.cndtr > 0 /\ dma' = [dma EXCEPT !.cndtr = less] /\ card' = card /\ drv' = drv
      /\ (host.act = "rx" /\ card.state = "data") \/ (host.act = "tx" /\ card.state = "rcv")
  BY DEF SD!MoveWord
<1>3. card \in CardType /\ host \in HostType /\ dma \in DmaType /\ drv \in DrvType /\ buf \in BufType
  BY DEF SdInv, SdTypes
<1>4. dma.cndtr \in 0..Words /\ Words \in Nat
  BY <1>3, CardAssumption DEF DmaType
<1>5. /\ at \in 1..Words /\ less \in 0..Words /\ Words - less = at
      /\ \A w \in 1..at : w = at \/ w \in 1..(Words - dma.cndtr)
  BY <1>2, <1>4
<1> HIDE DEF at, less
<1>6. drv.pc \in {"transfer", "abort"}
  BY <1>2 DEF SdInv, IdleInv
<1>7. host' \in HostType /\ host'.act = host.act /\ host'.flags = host.flags /\ (host'.bad <=> host.bad \/ spoilt)
  <2> DEFINE b == host.bad \/ spoilt
  <2>1. b \in BOOLEAN
    OBVIOUS
  <2>2. host' = [host EXCEPT !.bad = b]
    BY <1>1
  <2>3. b <=> host.bad \/ spoilt
    OBVIOUS
  <2> HIDE DEF b
  <2>4. host' \in HostType /\ host'.act = host.act /\ host'.flags = host.flags /\ host'.bad = b
    BY <1>3, <2>1, <2>2 DEF HostType
  <2> QED
    BY <2>3, <2>4
<1>8. dma' \in DmaType /\ dma'.cndtr = less
  BY <1>2, <1>3, <1>5 DEF DmaType
<1> DEFINE word == IF spoilt THEN Garbage ELSE card.mem[card.sel]
<1>9. word \in Data \cup {Garbage}
  BY <1>3 DEF CardType
<1>10. drv.i \in 1..MaxCount
  BY <1>3 DEF DrvType
<1>11. buf' = (IF host.act = "tx" THEN buf ELSE [buf EXCEPT ![drv.i][at] = word])
  BY <1>1
<1>12. ~spoilt => word = card.mem[card.sel]
  OBVIOUS
<1> HIDE DEF word
<1>13. /\ buf' \in BufType
       /\ \A k \in 1..MaxCount : k # drv.i => buf'[k] = buf[k]
       /\ host.act = "rx" => \A w \in 1..Words : buf'[drv.i][w] = IF w = at THEN word ELSE buf[drv.i][w]
  BY <1>3, <1>5, <1>9, <1>10, <1>11 DEF BufType
<1>14. SdTypes'
  BY <1>2, <1>3, <1>7, <1>8, <1>13 DEF SdTypes
<1>15. ASSUME drv.pc = "transfer" PROVE MovedInv' /\ TransferInv'
  <2>1. MovedInv'
    <3>1. \A k \in 1..(drv.i - 1) : k \in 1..MaxCount /\ k # drv.i
      BY <1>10, CardAssumption
    <3> QED
      BY <1>2, <1>13, <1>15, <3>1 DEF SdInv, MovedInv, Moved
  <2>2. host.act # "none" /\ host.flags = {} /\ (host.act = "rx" => card.state = "data" /\ card.sel = drv.sec)
    BY <1>2, <1>15 DEF SdInv, TransferInv
  <2>3. ASSUME host.act = "rx", ~host'.bad, NEW w \in 1..at PROVE buf'[drv.i][w] = card.mem[drv.sec]
    <3>1. w \in 1..Words
      BY <1>4, <1>5
    <3>2. CASE w = at
      BY <1>5, <1>7, <1>12, <1>13, <2>2, <2>3, <3>2
    <3>3. CASE w # at
      <4>1. w \in 1..(Words - dma.cndtr) /\ ~host.bad
        BY <1>5, <1>7, <2>3, <3>3
      <4>2. buf[drv.i][w] = card.mem[drv.sec]
        BY <1>15, <2>3, <4>1 DEF SdInv, TransferInv
      <4> QED
        BY <1>13, <2>3, <3>1, <3>3, <4>2
    <3> QED
      BY <3>2, <3>3
  <2>4. TransferInv'
    BY <1>2, <1>5, <1>7, <1>8, <1>15, <2>2, <2>3 DEF SdInv, TransferInv
  <2> QED
    BY <2>1, <2>4
<1> QED
  BY <1>2, <1>6, <1>14, <1>15, PathStep

LEMMA EndOfBlockInv == SdInv /\ SD!EndOfBlock => SdInv'
<1> SUFFICES ASSUME SdInv, SD!EndOfBlock PROVE SdInv'
  OBVIOUS
<1> DEFINE flag == IF host.bad THEN "DCRCFAIL" ELSE "DBCKEND"
           flags == {flag}
           good == card.state = "rcv" /\ ~host.bad
           value == IF good THEN drv.value ELSE card.mem[card.sel]
           memory == [card.mem EXCEPT ![card.sel] = value]
<1>1. /\ host.act # "none" /\ card.state \in {"data", "rcv"} /\ dma.cndtr = 0
      /\ host' = [host EXCEPT !.act = "none", !.flags = flags]
      /\ dma' = dma /\ drv' = drv /\ buf' = buf
  BY DEF SD!EndOfBlock
<1>2. card \in CardType /\ host \in HostType /\ dma \in DmaType /\ drv \in DrvType /\ buf \in BufType
  BY DEF SdInv, SdTypes
<1>3. /\ card.sel \in Sectors /\ card.mem \in [Sectors -> Data] /\ drv.value \in Data
  BY <1>2 DEF CardType, DrvType
<1>4. value \in Data /\ memory \in [Sectors -> Data]
  BY <1>3
<1>5. card' = [card EXCEPT !.state = "tran", !.mem = memory]
  BY <1>2 DEF SD!EndOfBlock, CardType
<1>6. drv.pc \in {"transfer", "abort"}
  BY <1>1 DEF SdInv, IdleInv
<1>7. flags \in SUBSET {"DBCKEND", "DCRCFAIL", "DTIMEOUT"} /\ ("DBCKEND" \in flags => ~host.bad)
  OBVIOUS
<1>8. \A s \in Sectors : memory[s] = card.mem[s] \/ (s = card.sel /\ good)
  BY <1>3
<1>9. ~good => memory[card.sel] = card.mem[card.sel]
  BY <1>3
<1>10. good => memory[card.sel] = drv.value
  BY <1>3
<1> HIDE DEF flags, value, memory
<1>11. host' \in HostType /\ host'.act = "none" /\ host'.flags = flags
  BY <1>1, <1>2, <1>7 DEF HostType
<1>12. card' \in CardType /\ card'.hc = card.hc /\ card'.state = "tran" /\ card'.mem = memory /\ card'.sel = card.sel
  BY <1>2, <1>4, <1>5 DEF CardType
<1>13. SdTypes'
  BY <1>1, <1>2, <1>11, <1>12 DEF SdTypes
<1>14. ASSUME drv.pc = "transfer" PROVE MovedInv' /\ TransferInv'
  <2>1. /\ card.state = "data" => drv.op = "Read" /\ card.sel = drv.sec
        /\ card.state = "rcv" => drv.op = "Write" /\ card.sel = drv.sec
        /\ host.act = "rx" => drv.op = "Read"
        /\ host.act = "tx" => drv.op = "Write"
        /\ host.act = "rx" /\ ~host.bad => \A w \in 1..(Words - dma.cndtr) : buf[drv.i][w] = card.mem[drv.sec]
    BY <1>14 DEF SdInv, TransferInv
  <2>2. card.sel = drv.sec /\ (drv.op = "Write" <=> card.state = "rcv") /\ drv.op \in {"Read", "Write"}
    BY <1>1, <2>1
  <2>3. MovedInv'
    <3>1. \A k \in 1..(drv.i - 1) : Moved(k, drv.sec - drv.i + k)
      BY <1>14 DEF SdInv, MovedInv
    <3>2. ASSUME NEW k \in 1..(drv.i - 1) PROVE Moved(k, drv.sec - drv.i + k)'
      <4> DEFINE s == drv.sec - drv.i + k
      <4>1. Moved(k, s)
        BY <3>1
      <4> HIDE DEF s
      <4>2. s \in Sectors /\ (memory[s] = card.mem[s] \/ (s = card.sel /\ good))
        BY <1>8, <4>1 DEF Moved
      <4>3. drv.op = "Read" => memory[s] = card.mem[s]
        BY <2>2, <4>2
      <4>4. drv.op = "Write" => memory[s] = drv.value
        BY <1>10, <4>1, <4>2 DEF Moved
      <4> QED
        BY <1>1, <1>12, <4>1, <4>2, <4>3, <4>4 DEF Moved, s
    <3> QED
      BY <1>1, <3>2 DEF MovedInv
  <2>4. ~host.bad => Moved(drv.i, drv.sec)'
    <3>1. drv.sec \in Sectors
      BY <1>3, <2>2
    <3>2. Words - dma.cndtr = Words
      BY <1>1, CardAssumption
    <3>3. drv.op = "Read" /\ ~host.bad => \A w \in 1..Words : buf[drv.i][w] = memory[drv.sec]
      <4>1. drv.op = "Read" => host.act = "rx" /\ ~good
        BY <1>1, <1>2, <2>1, <2>2 DEF HostType
      <4> QED
        BY <1>9, <2>1, <2>2, <3>2, <4>1
    <3>4. drv.op = "Write" /\ ~host.bad => memory[drv.sec] = drv.value
      BY <1>10, <2>2
    <3> QED
      BY <1>1, <1>12, <3>1, <3>3, <3>4 DEF Moved
  <2>5. TransferInv'
    BY <1>1, <1>7, <1>11, <1>12, <2>4 DEF TransferInv
  <2> QED
    BY <2>3, <2>5
<1> QED
  BY <1>1, <1>6, <1>12, <1>13, <1>14, PathStep

LEMMA DataTimeoutInv == SdInv /\ SD!DataTimeout => SdInv'
<1> SUFFICES ASSUME SdInv, SD!DataTimeout PROVE SdInv'
  OBVIOUS
<1> DEFINE flags == {"DTIMEOUT"}
<1>1. /\ host.act # "none" /\ host' = [host EXCEPT !.act = "none", !.flags = flags]
      /\ card' = card /\ dma' = dma /\ drv' = drv /\ buf' = buf
  BY DEF SD!DataTimeout
<1>2. flags \in SUBSET {"DBCKEND", "DCRCFAIL", "DTIMEOUT"} /\ "DBCKEND" \notin flags
  OBVIOUS
<1> HIDE DEF flags
<1>3. host' \in HostType /\ host'.act = "none" /\ host'.flags = flags
  BY <1>1, <1>2 DEF SdInv, SdTypes, HostType
<1>4. drv.pc \in {"transfer", "abort"}
  BY <1>1 DEF SdInv, IdleInv
<1>5. SdTypes'
  BY <1>1, <1>3 DEF SdInv, SdTypes
<1>6. drv.pc = "transfer" => MovedInv' /\ TransferInv'
  BY <1>1, <1>2, <1>3 DEF SdInv, MovedInv, TransferInv, Moved
<1> QED
  BY <1>1, <1>4, <1>5, <1>6, PathStep

\* The card is pulled, or put back: its memory stays.
LEMMA PullInv ==
  ASSUME SdInv, NEW to \in {"absent", "idle"}, card' = [card EXCEPT !.state = to],
         host' = host, dma' = dma, drv' = drv, buf' = buf
  PROVE  SdInv'
<1>1. card' \in CardType /\ card'.hc = card.hc /\ card'.state = to /\ card'.mem = card.mem /\ card'.sel = card.sel
  BY DEF SdInv, SdTypes, CardType
<1>2. SdTypes'
  BY <1>1 DEF SdInv, SdTypes
<1>3. CardInv'
  BY <1>1 DEF SdInv, CardInv, Transfer, Identifying
<1>4. IdleInv'
  BY DEF SdInv, IdleInv
<1>5. MovedInv'
  BY <1>1 DEF SdInv, MovedInv, Moved
<1>6. TransferInv'
  BY <1>1 DEF SdInv, TransferInv, Moved
<1>7. SD!ResultIsTrue'
  BY <1>1 DEF SdInv, SD!ResultIsTrue
<1> QED
  BY <1>2, <1>3, <1>4, <1>5, <1>6, <1>7 DEF SdInv

LEMMA SdNext == SdInv /\ ~Mismatches /\ SD!Next => SdInv'
<1> SUFFICES ASSUME SdInv, ~Mismatches, SD!Next PROVE SdInv'
  OBVIOUS
<1>1. SD!Blank \in Data
  BY CardAssumption DEF SD!Blank
<1>2. CASE SD!CallInit
  BY <1>2, CallInitInv
<1>3. CASE SD!Driver
  BY <1>3, InitializeInv, GoIdleInv, SendIfCondInv, IdentifyStepInv, PollOpCondInv, SelectCardInv, TimedOutInv,
     SendStatusInv, StartReadInv, StartWriteInv, AbortInv, CompleteInv, CardReturnInv DEF SD!Driver
<1>4. ASSUME NEW op \in {"Test", "Read"}, NEW s \in Sectors, NEW n \in 1..MaxCount,
             SD!Call(op, s, n, SD!Blank)
      PROVE  SdInv'
  <2> DEFINE x == SD!Blank
  <2>1. x \in Data /\ op \in {"Test", "Read", "Write"} /\ SD!Call(op, s, n, x)
    BY <1>1, <1>4
  <2> HIDE DEF x
  <2> QED
    BY <2>1, CardCallInv
<1>5. ASSUME NEW s \in Sectors, NEW n \in 1..MaxCount, NEW x \in Data, SD!Call("Write", s, n, x)
      PROVE  SdInv'
  <2> DEFINE op == "Write"
  <2>1. op \in {"Test", "Read", "Write"} /\ SD!Call(op, s, n, x)
    BY <1>5
  <2> HIDE DEF op
  <2> QED
    BY <2>1, CardCallInv
<1>6. CASE SD!MoveWord \/ SD!EndOfBlock \/ SD!DataTimeout
  BY <1>6, MoveWordInv, EndOfBlockInv, DataTimeoutInv
<1>7. CASE SD!Remove
  <2> DEFINE to == "absent"
  <2>1. to \in {"absent", "idle"} /\ card' = [card EXCEPT !.state = to] /\ host' = host /\ dma' = dma /\ drv' = drv /\ buf' = buf
    BY <1>7 DEF SD!Remove
  <2> HIDE DEF to
  <2> QED
    BY <2>1, PullInv
<1>8. CASE SD!Insert
  <2> DEFINE to == "idle"
  <2>1. to \in {"absent", "idle"} /\ card' = [card EXCEPT !.state = to] /\ host' = host /\ dma' = dma /\ drv' = drv /\ buf' = buf
    BY <1>8 DEF SD!Insert
  <2> HIDE DEF to
  <2> QED
    BY <2>1, PullInv
<1> QED
  BY <1>2, <1>3, <1>4, <1>5, <1>6, <1>7, <1>8 DEF SD!Next

LEMMA SdSame == SdInv /\ UNCHANGED sd => SdInv'
<1> SUFFICES ASSUME SdInv, UNCHANGED sd PROVE SdInv'
  OBVIOUS
<1>1. card' = card /\ host' = host /\ dma' = dma /\ drv' = drv /\ buf' = buf
  BY DEF sd
<1>2. SdTypes' /\ IdleInv' /\ CardInv'
  BY <1>1 DEF SdInv, SdTypes, IdleInv, CardInv
<1>3. MovedInv' /\ TransferInv' /\ SD!ResultIsTrue'
  BY <1>1 DEF SdInv, MovedInv, TransferInv, Moved, SD!ResultIsTrue
<1> QED
  BY <1>2, <1>3 DEF SdInv

\* How a transfer ends: by a data flag, and with words left by the data timeout only.
WordsInv ==
    /\ drv.pc = "transfer" /\ host.act = "none" =>
         host.flags # {} /\ (dma.cndtr = 0 \/ host.flags = {"DTIMEOUT"})
    /\ drv.pc = "stopped" => host.flags = {"DTIMEOUT"} /\ host.act = "none" /\ dma.cndtr > 0

LEMMA WordsInit == SD!Init => WordsInv
  BY DEF SD!Init, WordsInv

\* Most steps of the driver leave it neither in a transfer nor stopped.
LEMMA QuietWords ==
  ASSUME SdInv, \/ SD!Initialize \/ SD!GoIdle \/ SD!SendIfCond \/ SD!SelectCard
                \/ SD!TimedOut \/ SD!SendStatus \/ SD!AbortDmaTransfer \/ SD!Return
  PROVE  WordsInv'
<1>1. drv \in DrvType
  BY DEF SdInv, SdTypes
<1>2. ASSUME NEW to \in {"out", "return"} \cup Identifying \cup Transfer, to # "transfer", SD!Goto(to)
      PROVE  WordsInv'
  BY <1>1, <1>2, GotoFacts DEF WordsInv, Identifying, Transfer
<1>3. ASSUME NEW ok \in BOOLEAN, NEW status \in SUBSET {"NODISK", "NOINIT"}, SD!Finish(ok, status)
      PROVE  WordsInv'
  BY <1>1, <1>3, FinishFacts DEF WordsInv
<1>4. SD!Fail => WordsInv'
  BY <1>1, FailFacts DEF WordsInv
<1>5. CASE SD!Initialize \/ SD!GoIdle \/ SD!SendIfCond \/ SD!Return
  <2>1. \/ SD!Fail
        \/ drv'.pc \in {"goIdle", "sendIfCond", "query", "goIdleV1", "out"}
    BY <1>1, <1>5 DEF SD!Initialize, SD!GoIdle, SD!SendIfCond, SD!Return, DrvType
  <2> QED
    BY <1>4, <2>1 DEF WordsInv
<1>6. CASE SD!SelectCard \/ SD!SendStatus
  <2> DEFINE none == {}
  <2>1. SD!Fail \/ SD!Finish(TRUE, none)
    BY <1>6 DEF SD!SelectCard, SD!SendStatus
  <2>2. none \in SUBSET {"NODISK", "NOINIT"}
    OBVIOUS
  <2> HIDE DEF none
  <2> QED
    BY <1>3, <1>4, <2>1, <2>2
<1>7. CASE SD!TimedOut \/ SD!AbortDmaTransfer
  BY <1>2, <1>4, <1>7 DEF SD!TimedOut, SD!AbortDmaTransfer, Transfer
<1> QED
  BY <1>5, <1>6, <1>7

LEMMA IdentifyWords ==
  ASSUME SdInv, SD!CallInit \/ SD!IdentifyStep \/ SD!PollOpCond
  PROVE  WordsInv'
<1>1. drv \in DrvType
  BY DEF SdInv, SdTypes
<1>2. CASE SD!CallInit
  BY <1>1, <1>2 DEF SD!CallInit, WordsInv, DrvType
<1>3. CASE SD!IdentifyStep
  <2> DEFINE to == SD!NextStep[drv.pc]
  <2>1. drv.pc \in {"goIdleV1", "query", "start", "cid", "rca", "csd"}
    BY <1>3 DEF SD!IdentifyStep, SD!CommandOf
  <2>2. to \in {"query", "start", "poll", "rca", "csd", "select"}
    BY <2>1 DEF SD!NextStep
  <2>3. SD!Fail \/ SD!Goto(to)
    BY <1>3 DEF SD!IdentifyStep
  <2> HIDE DEF to
  <2> QED
    BY <1>1, <2>2, <2>3, FailFacts, GotoFacts DEF WordsInv, Identifying
<1>4. CASE SD!PollOpCond
  <2> DEFINE mul == IF card.hc THEN 1 ELSE SectorSize
             more == (drv.tries + 1) % (MaxTries + 1)
  <2>1. drv.pc = "poll"
    BY <1>4 DEF SD!PollOpCond
  <2>2. \/ SD!Fail
        \/ drv' = [drv EXCEPT !.pc = "cid", !.mul = mul]
        \/ drv' = [drv EXCEPT !.tries = more]
    BY <1>4 DEF SD!PollOpCond
  <2> HIDE DEF mul, more
  <2>3. drv'.pc \in {"return", "cid", "poll"}
    BY <1>1, <2>1, <2>2, FailFacts DEF DrvType
  <2> QED
    BY <2>3 DEF WordsInv
<1> QED
  BY <1>2, <1>3, <1>4

LEMMA TransferWords ==
  ASSUME SdInv, WordsInv, SD!StartRead \/ SD!StartWrite \/ SD!CompleteDmaTransfer
  PROVE  WordsInv'
<1>1. drv \in DrvType /\ host \in HostType /\ dma \in DmaType
  BY DEF SdInv, SdTypes
<1>2. CASE SD!StartRead \/ SD!StartWrite
  <2>1. \/ SD!Fail
        \/ SD!Goto("abort")
        \/ SD!Goto("transfer") /\ host'.act # "none"
    BY <1>1, <1>2 DEF SD!StartRead, SD!StartWrite, SD!Configured, HostType
  <2>2. "abort" \in Transfer /\ "transfer" \in Transfer
    BY DEF Transfer
  <2>3. drv'.pc \in {"return", "abort"} \/ (drv'.pc = "transfer" /\ host'.act # "none")
    BY <1>1, <2>1, <2>2, FailFacts, GotoFacts
  <2> QED
    BY <2>3 DEF WordsInv
<1>3. CASE SD!CompleteDmaTransfer /\ ~SD!TransferIsOver
  <2>1. /\ drv.pc = "transfer" /\ host.act = "none" /\ host' = host
        /\ dma' = [dma EXCEPT !.enabled = FALSE] /\ drv' = [drv EXCEPT !.pc = "stopped"]
    BY <1>3 DEF SD!CompleteDmaTransfer, SD!NotBusy, SD!Goto
  <2>2. drv'.pc = "stopped" /\ dma'.cndtr = dma.cndtr
    BY <1>1, <2>1 DEF DrvType, DmaType
  <2>3. dma.cndtr # 0 /\ host.flags = {"DTIMEOUT"}
    BY <1>3, <2>1 DEF WordsInv, SD!TransferIsOver
  <2>4. dma.cndtr > 0
    <3>1. dma.cndtr \in 0..Words /\ Words \in Nat
      BY <1>1, CardAssumption DEF DmaType
    <3> QED
      BY <2>3, <3>1
  <2> QED
    BY <2>1, <2>2, <2>3, <2>4 DEF WordsInv
<1>4. CASE SD!CompleteDmaTransfer /\ SD!TransferIsOver
  <2> DEFINE none == {}
             i == drv.i + 1
             sec == drv.sec + 1
  <2>1. \/ SD!Fail
        \/ SD!Finish(TRUE, none)
        \/ drv' = [drv EXCEPT !.pc = "ready", !.i = i, !.sec = sec]
    BY <1>4 DEF SD!CompleteDmaTransfer
  <2>2. none \in SUBSET {"NODISK", "NOINIT"}
    OBVIOUS
  <2> HIDE DEF none, i, sec
  <2>3. drv'.pc \in {"return", "ready"}
    BY <1>1, <2>1, <2>2, FailFacts, FinishFacts DEF DrvType
  <2> QED
    BY <2>3 DEF WordsInv
<1> QED
  BY <1>2, <1>3, <1>4

LEMMA PathWords ==
  ASSUME SdInv, WordsInv, SD!MoveWord \/ SD!EndOfBlock \/ SD!DataTimeout \/ SD!Remove \/ SD!Insert
  PROVE  WordsInv'
<1>1. host \in HostType /\ dma \in DmaType /\ drv' = drv
  BY DEF SdInv, SdTypes, SD!MoveWord, SD!EndOfBlock, SD!DataTimeout, SD!Remove, SD!Insert
<1>2. CASE SD!MoveWord
  <2>1. host.act # "none" /\ host'.act = host.act
    BY <1>1, <1>2 DEF SD!MoveWord, HostType
  <2> QED
    BY <1>1, <2>1 DEF WordsInv
<1>3. CASE SD!EndOfBlock
  <2>1. host.act # "none" /\ dma.cndtr = 0 /\ dma' = dma
    BY <1>3 DEF SD!EndOfBlock
  <2>2. host'.flags # {}
    BY <1>1, <1>3 DEF SD!EndOfBlock, HostType
  <2>3. drv.pc # "stopped"
    BY <2>1 DEF WordsInv
  <2> QED
    BY <1>1, <2>1, <2>2, <2>3 DEF WordsInv
<1>4. CASE SD!DataTimeout
  <2>1. host.act # "none" /\ host' = [host EXCEPT !.act = "none", !.flags = {"DTIMEOUT"}]
    BY <1>4 DEF SD!DataTimeout
  <2>2. host'.flags = {"DTIMEOUT"}
    BY <1>1, <2>1 DEF HostType
  <2>3. drv.pc # "stopped"
    BY <2>1 DEF WordsInv
  <2> QED
    BY <1>1, <2>2, <2>3 DEF WordsInv
<1>5. CASE SD!Remove \/ SD!Insert
  BY <1>1, <1>5 DEF SD!Remove, SD!Insert, WordsInv
<1> QED
  BY <1>2, <1>3, <1>4, <1>5

LEMMA SdWords == SdInv /\ WordsInv /\ SD!Next => WordsInv'
<1> SUFFICES ASSUME SdInv, WordsInv, SD!Next PROVE WordsInv'
  OBVIOUS
<1>1. CASE SD!Driver
  BY <1>1, QuietWords, IdentifyWords, TransferWords DEF SD!Driver
<1>2. CASE SD!CallInit \/ SD!MoveWord \/ SD!EndOfBlock \/ SD!DataTimeout \/ SD!Remove \/ SD!Insert
  BY <1>2, IdentifyWords, PathWords
<1>3. ASSUME NEW op, NEW sec, NEW count, NEW value, SD!Call(op, sec, count, value)
      PROVE  WordsInv'
  <2>1. drv'.pc = "ready"
    BY <1>3 DEF SD!Call, SdInv, SdTypes, DrvType
  <2> QED
    BY <2>1 DEF WordsInv
<1> QED
  BY <1>1, <1>2, <1>3 DEF SD!Next

LEMMA WordsSame == WordsInv /\ UNCHANGED sd => WordsInv'
  BY DEF sd, WordsInv

LEMMA SdIsClean == SdInv /\ WordsInv => SD!ReadyIsClean
<1> SUFFICES ASSUME SdInv, WordsInv PROVE SD!ReadyIsClean
  OBVIOUS
<1>1. drv.pc \in {"out", "ready"} => ~dma.enabled /\ host.flags = {} /\ host.act = "none"
  BY DEF SdInv, IdleInv
<1>2. /\ drv.status = {} => drv.mul = IF card.hc THEN 1 ELSE SectorSize
      /\ SectorSize # 1 /\ card.hc \in BOOLEAN
  BY CardAssumption DEF SdInv, CardInv, SdTypes, CardType
<1>3. drv.pc = "stopped" => host.flags = {"DTIMEOUT"} /\ host.act = "none" /\ dma.cndtr > 0
  BY DEF WordsInv
<1> QED
  BY <1>1, <1>2, <1>3 DEF SD!ReadyIsClean

LEMMA SdTypeOK == SdInv => SD!TypeOK
<1> SUFFICES ASSUME SdInv PROVE SD!TypeOK
  OBVIOUS
<1>1. card \in CardType /\ host \in HostType /\ dma \in DmaType /\ drv \in DrvType /\ buf \in BufType
  BY DEF SdInv, SdTypes
<1> QED
  BY <1>1 DEF CardType, HostType, DmaType, DrvType, BufType, SD!TypeOK

LEMMA FlashTypeOK == FlashInv => FL!TypeOK
<1> SUFFICES ASSUME FlashInv PROVE FL!TypeOK
  OBVIOUS
<1>1. /\ mem \in [FL!Cells -> [0..7 -> FlashByte]] /\ busy \in Pages \cup {FL!Nobody}
      /\ task \in [Tasks -> TaskType]
  BY DEF FlashInv, FlashTypes, TaskType
<1>2. \A t \in Tasks : task[t].pc \in {"out", "wait", "enter", "erase"}
  BY <1>1 DEF TaskType
<1> QED
  BY <1>1, <1>2 DEF FL!TypeOK, FlashByte

LEMMA RtcTypeOK == RtcInv => RT!TypeOK
<1> SUFFICES ASSUME RtcInv PROVE RT!TypeOK
  OBVIOUS
<1>1. /\ state.last \in 0..(Period - 1) /\ state.mono \in 0..(MonoPeriod - 1) /\ state.t64 \in Nat
      /\ state.last64 \in 0..(MonoPeriod - 1) /\ now \in 0..MaxTime /\ read.at \in Nat
      /\ alarm.ssr \in {RT!Off} \cup 0..(Period - 1) /\ pc \in {"run", "setup", "check", "sleep", "woken"}
  BY DEF RtcInv, RtcTypes
<1>2. state.t64 <= read.us /\ read.us <= read.at /\ read.at <= now /\ read.us \in Nat
  BY DEF RtcInv, RtcTypes, ReadInv
<1>3. state.t64 \in 0..MaxTime
  BY <1>1, <1>2, RtcAssumption
<1> QED
  BY <1>1, <1>3 DEF RT!TypeOK

LEMMA ClaimTypeOK == ClaimInv => DC!TypeOK
  BY DEF ClaimInv, DC!TypeOK
-----------------------------------------------------------------------------
(* The drivers together.                                                      *)
LEMMA PartSteps ==
  ASSUME [DriversNext]_AllVars
  PROVE  /\ [Next]_vars
         /\ SD!Next \/ UNCHANGED sd
         /\ FL!Next \/ UNCHANGED flash
         /\ RT!Next \/ UNCHANGED rtc
         /\ DC!Next \/ UNCHANGED claim
  BY DEF DriversNext, AllVars

\* Claim and Release (DMA.cpp:13-35, 60-64) give a channel and its link to one user, in
\* any sequence of calls, whatever the users and the channels that each may have.
THEOREM OneOwnerOfAChannel == DriversSpec => []OneOwner
<1>1. DriversInit => ClaimInv
  BY ClaimInit DEF DriversInit
<1>2. ClaimInv /\ [DriversNext]_AllVars => ClaimInv'
  BY PartSteps, ClaimNext, ClaimSame
<1>3. ClaimInv => OneOwner
  BY ClaimOwner DEF OneOwner
<1> QED
  BY <1>1, <1>2, <1>3, PTL DEF DriversSpec, AllVars

\* A Write of the flash that reports success has stored its data, and ErasePage fails
\* for good reasons only (FLASH.cpp:32-142), for any pages and any number of tasks.
THEOREM FlashReportsTrue == DriversSpec => []FlashExact
<1>1. DriversInit => FlashInv
  BY FlashInit DEF DriversInit
<1>2. FlashInv /\ [DriversNext]_AllVars => FlashInv'
  BY PartSteps, FlashNext, FlashSame
<1>3. FlashInv => FlashExact
  BY FlashReports DEF FlashExact
<1> QED
  BY <1>1, <1>2, <1>3, PTL DEF DriversSpec, AllVars

\* The time base (stm32_rtc.cpp:92-154), for any period of the counter: as long as the
\* kernel is prompt, no period goes by unread.
THEOREM RtcInvariant == ASSUME Prompt PROVE DriversSpec => []RtcInv
<1>1. DriversInit => RtcInv
  BY RtcInit DEF DriversInit
<1>2. RtcInv /\ [DriversNext]_AllVars => RtcInv'
  BY PartSteps, RtcNext, RtcSame
<1> QED
  BY <1>1, <1>2, PTL DEF DriversSpec, AllVars

\* No time is lost (stm32_rtc.cpp:92-121).
THEOREM NoTimeIsLost == ASSUME Prompt PROVE DriversSpec => []ClockExact
<1>1. RtcInv => ClockExact
  BY DEF RtcInv, ReadInv, ClockExact, RT!ClockExact
<1> QED
  BY <1>1, RtcInvariant, PTL

\* No alarm is missed, nor one set behind the time it was for
\* (stm32_rtc.cpp:123-154).
THEOREM NoAlarmIsMissed == ASSUME Prompt PROVE DriversSpec => []WakesInTime
<1>1. RtcInv => WakesInTime
  BY RtcWakes DEF WakesInTime
<1> QED
  BY <1>1, RtcInvariant, PTL

\* The SD card (SDMMCDriver.cpp, SDMMC.cpp), for any number of sectors and words: as long
\* as no answer is taken for that of another command.
THEOREM SdInvariant == ASSUME ~Mismatches PROVE DriversSpec => []SdInv
<1>1. DriversInit => SdInv
  BY SdInit DEF DriversInit
<1>2. SdInv /\ [DriversNext]_AllVars => SdInv'
  BY PartSteps, SdNext, SdSame
<1> QED
  BY <1>1, <1>2, PTL DEF DriversSpec, AllVars

\* RES_OK means that every sector was moved (SDMMCDriver.cpp:84-194).
THEOREM SectorsAreMoved == ASSUME ~Mismatches PROVE DriversSpec => []ResultIsTrue
<1>1. SdInv => ResultIsTrue
  BY DEF SdInv, ResultIsTrue
<1> QED
  BY <1>1, SdInvariant, PTL

\* The assertions of ConfigureDmaRead and ConfigureDmaWrite hold (SDMMC.cpp:72-74, 87-89),
\* a sector is addressed the way the card wants it, and those of CompleteDmaTransfer
\* (:112-115) fail behind a data timeout only.
THEOREM NextTransferIsClean == ASSUME ~Mismatches PROVE DriversSpec => []ReadyIsClean
<1>1. DriversInit => WordsInv
  BY WordsInit DEF DriversInit
<1>2. SdInv /\ WordsInv /\ [DriversNext]_AllVars => WordsInv'
  BY PartSteps, SdWords, WordsSame
<1>3. SdInv /\ WordsInv => ReadyIsClean
  BY SdIsClean DEF ReadyIsClean
<1> QED
  BY <1>1, <1>2, <1>3, SdInvariant, PTL DEF DriversSpec, AllVars

\* The types of all of them.
THEOREM DriversTypes ==
  ASSUME 0 \notin Lengths, Prompt, ~Mismatches
  PROVE  DriversSpec => []DriversTypeOK
<1> DEFINE Inv == IInv /\ SdInv /\ FlashInv /\ RtcInv /\ ClaimInv
<1>1. DriversInit => Inv
  BY InitInv, SdInit, FlashInit, RtcInit, ClaimInit DEF DriversInit
<1>2. Inv /\ [DriversNext]_AllVars => Inv'
  <2> SUFFICES ASSUME Inv, [DriversNext]_AllVars PROVE Inv'
    OBVIOUS
  <2>1. IInv'
    BY PartSteps, NextInv
  <2>2. SdInv'
    BY PartSteps, SdNext, SdSame
  <2>3. FlashInv' /\ RtcInv' /\ ClaimInv'
    BY PartSteps, FlashNext, FlashSame, RtcNext, RtcSame, ClaimNext, ClaimSame
  <2> QED
    BY <2>1, <2>2, <2>3
<1>3. Inv => DriversTypeOK
  BY InvTypes, SdTypeOK, FlashTypeOK, RtcTypeOK, ClaimTypeOK DEF DriversTypeOK
<1> QED
  BY <1>1, <1>2, <1>3, PTL DEF DriversSpec, AllVars
=============================================================================
