SPECIFICATION DriversSpec
CONSTANTS
  Devices = {d1, d2}
  NoDevice = NoDevice
  Lengths = {1, 3}
  MaxChunk = 2
  MaxCalls = 2
  Clock = 4000
  Frequencies = {125}
  Sectors = {0, 1, 2}
  MaxCount = 2
  Words = 2
  SectorSize = 2
  Data = {x1, x2}
  Garbage = spoilt
  MaxTries = 1
  Mismatches = FALSE
  Pages = {1, 2}
  Tasks = {t1, t2}
  PageSize = 16
  FlashLengths = {12, 15}
  Worn = {2}
  Period = 8
  Close = 4
  MonoPeriod = 16
  Delay = 2
  Latency = 0
  MaxTime = 18
  Users = {u1, u2, u3}
  Specs <- MCSpecs
INVARIANTS DriversTypeOK TimingFits BusFollowsLock TransferExact ResultIsTrue ReadyIsClean FlashExact ClockExact WakesInTime OneOwner
PROPERTIES CardCallsReturn
