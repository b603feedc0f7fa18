------------------------------ MODULE MCDrivers ------------------------------
(* The drivers that share no state, in one instance: a behaviour exercises one
   of them, its `part`, so that their states add up and do not multiply.      *)
EXTENDS I2C

CONSTANTS Sectors, MaxCount, Words, SectorSize, Data, Garbage, MaxTries, Mismatches,
          Pages, Tasks, PageSize, FlashLengths, Worn,
          Period, Close, MonoPeriod, Delay, Latency, MaxTime,
          Users, Specs

\* The counter and the clock have a range; a delay is a number of ticks.
ASSUME RtcAssumption == /\ Period \in Nat \ {0} /\ MonoPeriod \in Nat \ {0}
                        /\ Close \in Nat /\ Delay \in Nat /\ Latency \in Nat /\ MaxTime \in Nat

\* Pages are numbered from 1, here, and not empty; a Write of nothing returns at once.
ASSUME FlashAssumption == Pages \subseteq Nat \ {0} /\ PageSize \in Nat \ {0} /\ FlashLengths \subseteq Nat \ {0}

\* There is a first sector, and something to hold in it; an address of a byte is
\* not that of a sector.
ASSUME CardAssumption == /\ Sectors \subseteq Nat /\ 0 \in Sectors /\ Data # {}
                         /\ MaxCount \in Nat \ {0} /\ Words \in Nat \ {0} /\ SectorSize \in Nat \ {0, 1}
                         /\ MaxTries \in Nat /\ Mismatches \in BOOLEAN

VARIABLES part,
          card, host, dma, drv, buf,
          mem, busy, task, report,
          now, state, alarm, pc, read, until,
          ccr, csel, holds

sd == <<card, host, dma, drv, buf>>
flash == <<mem, busy, task, report>>
rtc == <<now, state, alarm, pc, read, until>>
claim == <<ccr, csel, holds>>

SD == INSTANCE SDCard
FL == INSTANCE Flash WITH Lengths <- FlashLengths
RT == INSTANCE RTCTime
DC == INSTANCE DMAClaim

\* A peripheral lists channels that there are.
ASSUME SpecsAssumption == \A specs \in Specs : specs \in Seq(DC!Channels)

\* Channels as the first and the last of each DMA.
MCSpecs == {<<<<1, 1>>, <<2, 7>>>>, <<<<2, 7>>, <<1, 1>>>>, <<<<1, 7>>, <<2, 1>>>>, <<<<1, 7>>>>}

DriversInit == /\ part \in {"i2c", "sd", "flash", "rtc", "claim"}
               /\ Init /\ SD!Init /\ FL!Init /\ RT!Init /\ DC!Init
               /\ part # "sd" => card.v2 /\ card.hc      \* nobody looks at the card

DriversNext ==
    /\ UNCHANGED part
    /\ \/ part = "i2c" /\ Next /\ UNCHANGED <<sd, flash, rtc, claim>>
       \/ part = "sd" /\ SD!Next /\ UNCHANGED <<vars, flash, rtc, claim>>
       \/ part = "flash" /\ FL!Next /\ UNCHANGED <<vars, sd, rtc, claim>>
       \/ part = "rtc" /\ RT!Next /\ UNCHANGED <<vars, sd, flash, claim>>
       \/ part = "claim" /\ DC!Next /\ UNCHANGED <<vars, sd, flash, rtc>>

\* The fairness of SDCard.
DriversSpec == /\ DriversInit /\ [][DriversNext]_<<part, vars, sd, flash, rtc, claim>>
               /\ WF_sd(part = "sd" /\ SD!Driver)

(* The variables of every driver have their types (I2C.cpp, SDMMCDriver.cpp,
   FLASH.cpp, stm32_rtc.cpp, DMA.cpp).                                        *)
DriversTypeOK == TypeOK /\ SD!TypeOK /\ FL!TypeOK /\ RT!TypeOK /\ DC!TypeOK

(* SDMMCDriver.cpp:84-194: RES_OK means that every sector was moved.          *)
ResultIsTrue == SD!ResultIsTrue
(* SDMMC.cpp:72-74, 87-89, 112-115: nothing of one transfer is left for the next,
   and only a data timeout ends one with words left.                          *)
ReadyIsClean == SD!ReadyIsClean
(* SDMMCDriver.cpp: every call returns or stops at the assertion, whatever
   becomes of the card; the variables of the other drivers have no part in it. *)
CardCallsReturn == SD!CallsReturn
(* SDMMC.cpp:112: all words are moved.  The code breaks this.                  *)
NoWordsLeft == SD!NoWordsLeft
(* FLASH.cpp:32-142: what Write, Erase and ErasePage report.                  *)
FlashExact == FL!FlashExact
(* stm32_rtc.cpp:92-121: no time is lost, also behind a full-period sleep.    *)
ClockExact == RT!ClockExact
(* stm32_rtc.cpp:123-154: no alarm is missed.                                 *)
WakesInTime == RT!WakesInTime
(* DMA.cpp:13-35, 60-64: a channel and its link belong to one user.           *)
OneOwner == DC!OneOwner
=============================================================================
