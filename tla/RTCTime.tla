------------------------------- MODULE RTCTime -------------------------------
(* The time base: a counter of Period ticks that counts down, its extension to
   a clock (_stm32_rtc_mono, _stm32_rtc_us) and the alarm that ends a sleep
   (_stm32_rtc_setup_wake, _stm32_rtc_clean_wake).  `now` is the true time in
   ticks; the counter follows from it.                                        *)
EXTENDS Integers

CONSTANTS Period,       \* MASK(15) + 1
          Close,        \* the 16 ticks within which the alarm counts as missed
          MonoPeriod,   \* the range of mono_t
          Delay,        \* ticks from reading the clock to the alarm being set up
          Latency,      \* ticks from the wake-up to reading the clock
          MaxTime       \* bound on the time

VARIABLES now,      \* the true time
          state,    \* last, mono; last64, t64: the static of _stm32_rtc_us
          alarm,    \* RTC alarm A: the subseconds it matches, or Off; event: the event register
          pc,       \* where the kernel is
          read,     \* history: when the clock was read, when as microseconds, whether that
                    \* was ever too late; and the time to wake at
          until     \* history: when the sleep should have ended

rtc == <<now, state, alarm, pc, read, until>>

Off == -1
SSR == (-now) % Period
Smaller(a, b) == IF a < b THEN a ELSE b

Init == /\ now = 0
        /\ state = [last |-> 0, mono |-> 0, last64 |-> 0, t64 |-> 0]
        /\ alarm = [ssr |-> Off, event |-> FALSE]
        /\ pc = "run" /\ until = 0
        /\ read = [at |-> 0, us |-> 0, late |-> FALSE, wakeAt |-> 0]

----------------------------------------------------------------------------
(* The clock                                                                  *)

\* Mutant: the difference is not cut to 15 bits.
ElapsedWhole(s) == s.last - SSR
Elapsed(s) == (s.last - SSR) % Period

Mono(s) == [s EXCEPT !.last = SSR, !.mono = (@ + Elapsed(s)) % MonoPeriod]

\* The kernel reads the clock while it runs, and before it decides to sleep.
ReadClock ==
    /\ pc = "run"
    /\ state' = Mono(state) /\ read' = [read EXCEPT !.at = now]
    /\ UNCHANGED <<now, alarm, pc, until>>

ReadMicroseconds ==
    /\ pc = "run"
    /\ LET s == Mono(state)
       IN  state' = [s EXCEPT !.last64 = s.mono, !.t64 = @ + ((s.mono - s.last64) % MonoPeriod)]
    /\ read' = [read EXCEPT !.at = now, !.us = now, !.late = @ \/ now - read.us >= MonoPeriod]
    /\ UNCHANGED <<now, alarm, pc, until>>

----------------------------------------------------------------------------
(* Sleeping                                                                   *)

\* The clock has just been read, and the next thing to do is `ticks` away.
DecideToSleep(ticks) ==
    /\ pc = "run" /\ read.at = now
    /\ read' = [read EXCEPT !.wakeAt = state.mono + ticks]
    /\ pc' = "setup"
    /\ UNCHANGED <<now, state, alarm, until>>

SsrSleep == Smaller(Period - 1, read.wakeAt - state.mono)
WakeSsr == (state.last - SsrSleep) % Period

\* Up to the alarm being enabled.
SetAlarm ==
    /\ pc = "setup"
    /\ alarm' = [ssr |-> WakeSsr, event |-> FALSE]
    /\ until' = IF now > read.at + SsrSleep THEN now ELSE read.at + SsrSleep
    /\ pc' = "check"
    /\ UNCHANGED <<now, state, read>>

\* Mutant: as if the counter counted up.
ToGoUp == (SSR - WakeSsr + 1) % Period
ToGo == (WakeSsr - SSR + 1) % Period

\* MASK(14)
Half == Period \div 2 - 1

\* An alarm that is very close, or has just been missed, is made up for by an event.
CheckAlarm ==
    /\ pc = "check"
    /\ alarm' = IF SsrSleep < Half /\ ToGo < Close THEN [alarm EXCEPT !.event = TRUE] ELSE alarm
    /\ pc' = "sleep"
    /\ UNCHANGED <<now, state, read, until>>

\* WFE, and _stm32_rtc_clean_wake behind it; an interrupt ends the sleep as well.
WakeUp ==
    /\ pc = "sleep"
    /\ alarm' = [ssr |-> Off, event |-> FALSE]
    /\ pc' = "woken" /\ until' = now
    /\ UNCHANGED <<now, state, read>>

AfterWakeUp ==
    /\ pc = "woken"
    /\ state' = Mono(state) /\ read' = [read EXCEPT !.at = now]
    /\ pc' = "run"
    /\ UNCHANGED <<now, alarm, until>>

----------------------------------------------------------------------------
(* A tick.  The kernel takes its time as Delay and Latency allow, reads its
   clock often enough while it runs, and wakes up at once by an event.  The
   alarm raises its event when the counter steps to its value.                *)
Tick ==
    /\ now < MaxTime
    /\ CASE pc = "run" -> now < read.at + Period - 1
         [] pc \in {"setup", "check"} -> now < read.at + Delay
         [] pc = "sleep" -> ~alarm.event
         [] pc = "woken" -> now < until + Latency
    /\ now' = now + 1
    /\ alarm' = [alarm EXCEPT !.event = @ \/ (SSR' = alarm.ssr)]
    /\ UNCHANGED <<state, pc, read, until>>

Next == \/ ReadClock \/ ReadMicroseconds
        \/ \E ticks \in 0..Period : DecideToSleep(ticks)
        \/ SetAlarm \/ CheckAlarm \/ WakeUp \/ AfterWakeUp \/ Tick

Spec == Init /\ [][Next]_rtc

----------------------------------------------------------------------------
(* The variables have their types.                                            *)
TypeOK == /\ state.last \in 0..(Period - 1) /\ state.mono \in 0..(MonoPeriod - 1) /\ state.t64 \in 0..MaxTime
          /\ alarm.ssr \in {Off} \cup 0..(Period - 1)
          /\ pc \in {"run", "setup", "check", "sleep", "woken"}

(* Time is never lost: the clock shows the time at which it was read last, also
   behind a sleep of the full period.  The long time, which counts on from one
   call of _stm32_rtc_us to the next, lags by whole ranges of the clock only,
   and by none as long as no two calls are such a range apart.                *)
ClockExact ==
    /\ state.mono = read.at % MonoPeriod
    /\ state.t64 <= read.us /\ state.t64 % MonoPeriod = read.us % MonoPeriod
    /\ ~read.late => state.t64 = read.us

(* A sleep ends when it should: the alarm is never missed, however long setting
   it up took within Delay.                                                   *)
WakesInTime == pc = "sleep" /\ ~alarm.event => now <= until
=============================================================================
