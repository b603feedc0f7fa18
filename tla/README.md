# lib-stm32 in TLA+

lib-stm32 is the STM32 part of the minuteos framework: C++ drivers for the
peripherals of STM32L4 microcontrollers, written against a cooperative kernel
(`async` functions that wait for a register, a flag or a timeout), plus a small
host tool. This directory specifies its drivers in TLA+, checks the
specifications with TLC on small instances and proves theorems about them, for
all values of the constants, with TLAPS.

## 1. The system

Three kinds of actors meet in every driver:

* the **thread**: tasks of the cooperative kernel. Only one runs at a time and it
  is interrupted by nothing but interrupts; it loses control at an `await`. The
  kernel itself, the `io` pipes and the `base` types are other repositories.
* **interrupt handlers**. All drivers give theirs the highest priority
  (`CORTEX_MAXIMUM_PRIO`), so one handler never interrupts another.
* the **hardware**: DMA engines, shift registers, the USB core. It works on its own
  between any two instructions of the software.

Hence what is hard: which instruction of the thread a handler gets in front of,
what the hardware does between two register accesses, what a polled register
misses between two polls, what a timeout leaves behind.

| Component (src/targets unless noted) | State | Operations | What makes it correct |
|---|---|---|---|
| DMA channel linking: stm32/hw/DMA | channel registers, one link (the next transfer), `CNDTR0` | `TryLinkBuffer`, `LinkHandler` (interrupt), `GetStatus`, `LinkPointer`, `LinkPointerNot`, `Unlink` | bytes move in the order linked, each once; none stays behind; the pointer reported is real; Unlink stops |
| DMA allocation: stm32/hw/DMA | a channel is free while `CCR` is 0; `CSELR` | `ClaimChannel`, `Release` | one owner per channel, request line and link |
| DMA strategies: stm32l/io/DMAReceiver, DMATransmitter | a channel | add buffer, get pointer, wait, close | as the channel |
| Circular receiver: stm32l/io/DMAReceiverCircular | ring, `r`, `end` | `GetWritePointer` (copies), `Wait` | no loss or repetition as long as the caller keeps up |
| Interrupt USART: stm32l/io/USARTInterrupt and its strategies | two slots per direction, `CR1` | `Handler` (interrupt), `AddBuffer`, `Reset`, `Wait` | order, no sleeping transmitter, no drop while there is room |
| USART pipes: stm32l/io/USART*.h | strategy and pipe | start, connect | none of their own |
| USB device, control endpoint: stm32-otgfs/usb/Device | control state, setup packet, `tasks` | interrupt handler, `HandleControl` task, `ControlSuccess`, standard requests | an answer belongs to the request it answers; every request is answered or stalled |
| USB device, standard requests: stm32-otgfs/usb/Device | address, state, configuration; per endpoint: active, halt, data toggle | the handlers of `HandleControl`, `ConfigureEndpoints`, bus reset | host and device agree on all of these |
| USB device, data endpoints: usb/DeviceEndpoints, hw/USB | `txWords`, `packetBuffer`, completion flags | `SendPacket`, `ReceivePacket`, `HandleInterrupts`, `PacketReceived`, bus reset | packets are reported once, with their length; a buffer is let alone once its call is over |
| I2C: stm32l/hw/I2C | lock per peripheral, `active`, `reloaded` | `Acquire`, `Release`, `Read`, `Write`, `Reset`, `OutputFrequency` | exclusive use, release on every path, exactly the bytes asked for on the bus, chunks of 255 |
| SD host and FAT driver: stm32l/hw/SDMMC, stm32l/fatfs | `Status()`, address unit, flags in `STA`, DMA channel | identify, test, read, write, abort | `RES_OK` only if the data was moved; nothing of a failed transfer is left for the next; every call returns |
| Flash: stm32l/hw/FLASH, nvram | busy flag | write, erase, erase by a task | what is reported is what is stored, also when tasks meet |
| RTC time base: stm32-rtc-timing | last counter value, 32- and 64-bit time, alarm | read time, set alarm, clean up behind it | no time is lost, no wake-up is missed |
| GPIO: stm32l/hw/GPIO | none | configure, wait, debounce | the level was stable for the debounce time |
| Registers, clocks, watchdog, reset cause | hardware only | straight-line code | values computed |
| src/elf2dfuse | list of sections | sort, tabulate, write DfuSe file | announced sizes match the bytes, every byte gets to its address |

The components interact through few channels: a strategy calls its DMA channel or
`USARTInterrupt`; the pipe calls the strategy; interrupt handlers share registers
and members with the thread, guarded by masking one interrupt in the NVIC; waiting
is polling of one register or member by the scheduler.

The hazards, each at its line, are listed in `PROJECT.json` with the properties that
would catch them, or the configuration of section 3 that shows the code does not stand up to them.

## 2. What is modelled

### BufferStream

The contract all transfer engines share. A caller hands over runs of addresses
(`accepted`), the engine visits them one by one (`touched`), and the caller may take
back the rest. Nothing else can happen: no address is skipped, repeated,
reordered or visited without being handed over. `FairSpec` adds that the engine
never stops for good while something is left.

### DMALink (stm32/hw/DMA.cpp)

One channel. The thread's calls are split at every access of a register or of the
link (`pc` names the next step), `LinkHandler` is one action, and `Transfer` moves one
byte. A register or struct member has its own name: `CCR` is the set of flags that
matter (`CFG` stands for the constant configuration), `link` is the channel's
`DMAChannelLink`, `status` the locals of `GetStatus`. A buffer is `[start, len]`.

`masked` is the NVIC enable bit cleared by `irq.Disable()`, `pend` the software pend
of `irq.Trigger()`. After the pend the handler precedes the next instruction.
A completion interrupt may take a while (`Latency = TRUE`): it crosses from the DMA
clock domain, and the thread may execute some instructions before it is taken.
`Latency = FALSE` is the ideal in which it is taken at once; what holds only then
is a race in practice.

Assumed of the chip: clearing and setting `EN` suspends and resumes a transfer where
it was (GetStatus is built on this), `EN` stays set at the end of a transfer, and
an enabled channel with `CNDTR = 0` does nothing. `CCR |= x` and `CCR &= ~x` are one
step: the interrupt can change only `EN` in between, which is the bit they write.
Callers offer at least one byte.

### DMAReceiverCircular (stm32l/io/DMAReceiverCircular.cpp)

Offsets into the ring for the pointers `r`, `w`, `end`; bytes are numbered as they
arrive. `Receive` is the circular channel (it reloads `CNDTR` at the end).
`GetWritePointer` samples the counter once (`Sample`) and copies byte by byte, up to
the end of the ring (`StartTail`), then from its start (`StartHead`, `CopyHead`),
and stores `r` (`Commit`). The code cannot notice an overrun, so that the caller must
keep up: `MaxBacklog`, at most N - 1, is that assumption, and the model receives
nothing beyond it. One place must stay free since a full ring looks like an empty one.

### USARTInterrupt (stm32l/io/USARTInterrupt.cpp)

Both directions in one module, since they share the interrupt, its masking and `CR1`.
`buf.tx` and `buf.rx` are the two `Buf` members. `Handle(ReadData)` and
`Handle(WriteData)` are the branches of `Handler` in the order the code tests them;
`Handle(NoData)` is the path on which nothing is done. `AddBuffer` is split between
its test, its stores, `CR1 |=` and the unmasking, where a handler that was not masked
would get in. `OverrunDetection` is the reset state of `CR3.OVRDIS`.

### ControlTransfer and UsbControl (stm32-otgfs/usb/Device.cpp, hw/USB)

`ControlTransfer` is what the control endpoint owes the host: a supported request is
carried out once and then answered with its own data, cut to what was asked for; any
other is refused; none waits for ever.

`UsbControl` has three parts. The **host** (`Ask`, `SeeStall`, `TakePacket`, `SendPacket`,
`ResetBus`) follows the stages of a control transfer. The **core** is in the same
actions: it answers the host from the endpoint registers and FIFOs kept in `dev`, which
also holds the members of `Device` that the handler shares with the thread. The
**device** is `IRQHandler`, one step composed of `HandleRx`, `HandleReset`, `HandleIn` and
`HandleOut` in the order of the code, and the thread: `TakeTasks` and `StartControl`
(`Task`, `HandleControl`), `CarryOut`, `Check`, `Commit`, `Transmit`, `Write` (`ControlSuccess`),
`Finish` and `Stall` (`ControlStall`, statement by statement, since the thread does not mask
the interrupt). Between `CarryOut` and `Check` a callback may be suspended.

Data is counted in units, each of which carries the identity of the request it answers,
so that data of the wrong request is visible. A request is a record: direction, length,
what the host sends, whether anybody supports it, how much answer there is, and
whether it sets the address or the configuration. Identities go around in 1..3; 0 is that
of an entry of `setupBuffer` that no SETUP packet was written to.

Assumed of the core (outside the repository): a SETUP packet is always accepted, ends a
stall and disables the transfers of endpoint 0; its counter `STUPCNT` falls with
each and stays 0 at 0; stalling an endpoint and resetting the bus leave the transmit
FIFO as it is (the code has a flush command and uses it in `Task` only). Two SETUP packets
that arrive as one interrupt (`B2BSTUP`, "TODO" in the code) are not modelled. The model
starts behind the first reset, and a later reset includes the enumeration behind it.

### UsbDevice (stm32-otgfs/usb/Device.cpp) and UsbEndpoint (usb/DeviceEndpoints.cpp, hw/USB.h)

`UsbControl` shows how a request travels; `UsbDevice` takes that for granted and models what
the requests do. Each handler of `HandleControl` is an action; `SetAddress` and
`SetConfiguration` have several, for a bus reset may come between their statements (`SetState`,
`ConfigureEndpoints`, one endpoint at a time, `ConfigurationDone`). `live` says whether
`ctrl.state` is still that of the request under way, that is whether `ControlSuccess` has
any effect (`Finish`). An endpoint is its `USBAEP`, `STALL` and data toggle, changed by the functions of
hw/USB.h: `Activate`, `Deactivate`, `Stall`, `Unstall`. The host (`HostRequest`, `HostTransfer`) believes
what the USB specification lets it believe after a success; it may also name endpoints that the device
does not have (`Strangers`), which `NoFeature` refuses, all but the number `EndpointCount`
(`StrangersRefused` of `usb_device`). A packet whose toggle is not the expected one is acknowledged and thrown away;
`host.apart` notes the endpoints whose toggle the host has started again and the device has not.

`UsbEndpoint` is one endpoint of each direction. `SendPacket` and `ReceivePacket` are split at
every wait and at the register accesses between which the core may act; interrupt handlers
precede the next step of the thread (`ThreadRuns`). IN data is the numbers of its words, so
that a word sent twice or out of order is visible; OUT data is counted in bytes, and
`host.skew` notes words that `PacketReceived` takes from the shared FIFO too few or too many.
`HostIn` and `HostOut` move a packet; `EPDIS` is acknowledged by `InDisabled` and `OutDisabled`.
The host may get through between a timeout and the reset of the endpoint. An assertion that fails
(DeviceEndpoints.cpp:46, 132 and 150) stops the device (`Stopped`); what ASSERT does is defined outside the
repository, and a build without assertions goes on. `host.reported` sums up what `SendPacket` has returned.
`MCUsbEndpoints` has both modules in one instance, of which a behaviour exercises one.

### I2C (stm32l/hw/I2C.cpp)

Several devices share `locked`, the bit of the peripheral in `s_locks`. `Read` and `Write` differ in the
direction of the byte only, so that one set of actions models both: `Call`, `Acquire`, then per
chunk `StartChunk` (CR2 is written), `EnableInterrupt`, `Awake` (the flags or the timeout, at any
time), `DisableInterrupt`, `CheckOk` or `CheckFailed`, and `Return`. `EventHandler` moves one byte as long
as the interrupt is enabled; `EndOfChunk` and `BusError` are the peripheral. `wire` notes what
was on the bus since it was acquired, `owed` what the calls asked for. A caller follows the
comments on `I2C::Next`: it goes on after `Continue` with the same direction, and ends with `Stop`.
A transfer has at least one byte: a call with an empty buffer writes nothing to CR2, so that with
`Stop` it releases a bus it may still hold.
`CheckFailed` resets the peripheral (`ResetBus`): it lets go of the bus, but the other side may hold the
lines on (`held`), for which the code has a TODO (I2C.cpp:33-39); both paths release the lock. A transfer
then waits (`Runs`) for the other side to let go (`BusFreed`), or times out again.
`OutputFrequency` is the search for the prescaler, with the code's own comparison: it passes
over a closer match that is not close enough to the best so far (`diff(best, res)` where
the comment "best frequency match" would need `diff(best, freq)`).

### SDCard (stm32l/hw/SDMMC.cpp, stm32l/fatfs/SDMMCDriver.cpp)

The driver, the host's data path, the DMA channel and a card. `Command(c, arg)` is the set of what
may come of a command: the card obeys and answers, its answer is garbled, or nobody answers.
The identification is a step per command (`GoIdle`, `SendIfCond`, `IdentifyStep`, `PollOpCond`,
`SelectCard`), a sector of `Read` or `Write` is `StartRead` or `StartWrite`, words moved one by one, each perhaps
spoilt, and `CompleteDmaTransfer` or `TimedOut` and `AbortDmaTransfer`. An assertion that fails in
`CompleteDmaTransfer` (SDMMC.cpp:112-115, `TransferIsOver`) stops the device. Cards are of version 1 or
2 and addressed by byte or by block; `Remove` and `Insert` may happen at any time.
`SectorSize` is the address unit of byte-addressed cards. `Mismatches` adds answers with another command's
index: `Command` then returns `CCRCFAIL` beside the `CMDREND` that is still set in `state`
(SDMMC.cpp:56), which counts as success. `InitialisedIsSelected` states that this cannot make a
card pass for initialised; it holds only without mismatches, as the runs are.

### Flash, RTCTime, DMAClaim

`Flash`: what runs in a critical section is one step. A double word takes a value if it is
erased, or zeros. `Write` computes the double words as the code does (`MaskLast`) and stops at the
first that does not read back; `ErasePage` is four steps, of which the wait for the busy flag
is outside the critical section, so that tasks may meet there. `Worn` pages do not erase. `report` holds
what the last call has returned, until somebody changes the memory.

`RTCTime`: `now` is the true time, the counter `SSR` follows from it; `state` and `alarm` are the code's
variables and the alarm's registers. The kernel reads the clock at least once per period
while it runs, sets the alarm up within `Delay` ticks of reading it, sleeps, and reads it
again within `Latency` ticks of waking up. `ReadMicroseconds` is called when the application likes; `read.late`
notes that two calls were a range of the 32-bit clock apart, which the 64-bit time cannot see.

`DMAClaim`: `ccr` and `csel` of all 14 channels, users that claim one of a list, program it,
and release it. `LinkBytes` is the address arithmetic of `GetLink`. `LinksInside` states that
links stay inside `s_linkInfo`; it does not hold for channel 7 of DMA2, whose link ends 8 bytes
behind it.

`MCDrivers` has I2C, SDCard, Flash, RTCTime and DMAClaim in one instance. They share no state
in the code, and a behaviour exercises one of them (`part`), so that their states add up.

### Elf2Dfuse (src/elf2dfuse/elf2dfuse.c)

`main` from the checked header on: a step per section header (`ReadSection`, with `find_blob`'s sorted
insertion), per element of the first pass (`CountElement`) and of the second
(`WriteElement`). A header field counts as one byte, the bytes of a section carry its identity,
and the CRC is the sequence of bytes it was calculated over. `Loaded` is a DfuSe loader, written
from the file format, which `ImageLoads` runs on the result. Which files a linker makes is `WellLinked`,
in terms of where the segments place a section (`Places`), not of what the program does with it.

## 3. What is checked

Every passing run names its properties in `PROJECT.json`, together with a mutant of
the code that each of them detects.

| Run | Question | Answer |
|---|---|---|
| `dma_link_live` | linking only, late interrupt, fairness | every linked byte is moved, in order and once (`NotStranded`, `RefinesFairStream`); the ASSERT in `LinkHandler` (`CompletedAtHandler`) |
| `dma_link_prompt` | all calls but the wait, prompt interrupt | `LinkPointerExact`, `UnlinkStops`, and the stream contract with `Unlink` as `Drop` |
| `circular` | the ring, fairness | nothing lost, repeated or read while it is written (`CopyIsSafe`, `RefinesFairStream`) |
| `usart` | both directions, overruns, fairness | both implement `BufferStream` (`RefinesRx`; `RefinesFairTx`: everything is sent), `TransmitterAwake`, `CallsReturnUntilOverrun` |
| `usb_control` | a host that waits until the device is done, callbacks that suspend, fairness | `UsbControl` implements `ControlTransfer`; `AnswersItsRequest` |
| `usb_reset` | the same with two bus resets at any time, no suspension | `SetupReceived`, `RequestsEnd` |
| `usb_abort` | SETUP packets and resets at any time, requests given up | `NoRequestLost` |
| `usb_endpoints` | packets against timeouts and resets; requests against resets | `PacketsExact`, `CallOwnsBuffer`, `CallsReturn`; `AgreesWithHost`, `TogglesAgree` |
| `drivers` | I2C and its timing, SD card, flash, clock and DMA claims, one at a time | `BusFollowsLock`, `TransferExact`; `ResultIsTrue`, `ReadyIsClean`, `CardCallsReturn`; `FlashExact`; `ClockExact`, `WakesInTime`; `OneOwner`; `TimingFits` |
| `elf2dfuse` | every small file that does not end an element with an empty section | `ImageLoads`, `Terminates` |

Where the code does not do what its own comments or assertions say, a configuration
ends in a violation. Two of these are runs of the project, and `PROJECT.json`
"findings" gives the lines: `dma_unlink_race` and `elf2dfuse_endless`. The other
configurations are beside them, to be run by hand (`tlc -config dma_wait_aba.cfg
MCDMALink`; the module follows from the name: MCDMALink, MCUSARTInterrupt, MCUsbControl,
MCUsbEndpoints for `usb_calls` and `usb_device`, which name several properties, to be taken one at a
time; I2C, SDCard, RTCTime):

* `dma_unlink_race`: `Unlink` does not mask the interrupt. `LinkHandler` between its two
  statements starts the linked transfer, which then survives `Unlink`.
* `dma_pointer_torn`: `GetStatus` does not mask it either; `LinkPointer` can mix two
  transfers and name a location the engine never stood at.
* `dma_link_stranded`: `GetStatus` clears `EN` for a moment and restores what it had read.
  If the transfer completes in that moment and nothing is linked, the handler stops
  the channel and `GetStatus` enables it again: a later `TryLinkBuffer` finds it
  enabled, does not trigger the handler, and its buffer waits for ever.
* `dma_assert_after_unlink`: `Unlink` leaves `CNDTR`; the next `TryLinkBuffer` trips
  the handler's own ASSERT.
* `dma_wait_aba`: `LinkPointerNot` polls the counter, which the next transfer may bring
  back to the same value between two polls.
* `usart_overrun`: nothing clears `ORE`; after one overrun the handler is re-entered for
  ever and the thread gets no instruction.
* `usb_stale_answer`: a callback is suspended, the bus is reset, the host asks again; the
  first request's answer then passes the test in `ControlSuccess`, which is for any request.
* `usb_left_in_fifo`: a reset does not flush the FIFO of endpoint 0, and the next
  answer has the old packet in front.
* `usb_setup_count`: SETUP packets are read to the first entry of `setupBuffer` and taken
  from the one the counter points at; if endpoint 0 was not prepared again in time
  these differ.
* `usb_out_data`: data sent on the control endpoint runs into the ASSERT of `Device::Out`.
* `usb_out_length`: a request with data of the wrong length is stalled, then processed.
* `usb_full_packet`: an answer shorter than asked for that ends with a full packet needs
  an empty one behind it, which is never sent.
* `usb_calls`, `CallsAlwaysReturn`: the transfer ends between the timeout of `SendPacket` or `ReceivePacket` and
  the reset of the endpoint. `Reset` writes `EPDIS` only to an enabled endpoint, so that the
  interrupt that the call then waits for, without a timeout, never comes.
* `usb_device`, `ForgottenAtReset`: `config` stays set over a bus reset, and a reset in the middle of a
  SET_CONFIGURATION does not stop it: a host that has configured nothing is told of a
  configuration, and finds endpoints active.
* `usb_device`, `NoPacketLost`: activating an OUT endpoint does not reset its data toggle
  (`SD0PID` is written for IN endpoints only), and CLEAR_FEATURE on an endpoint that is not
  halted does not either; host and device then disagree, and the next packet is lost (`NoPacketLost`).
* `usb_device`, `StrangersRefused`: the number of an endpoint is compared with `>` (Device.cpp:636), so that one past the
  last is let through, and the request is answered as if it had worked.
* `usb_calls`, `NothingLeftToSend`: a bus reset ends `SendPacket` and leaves `txWords` (DeviceEndpoints.cpp:15-22); the next
  call stops at its assertion (:46).
* `usb_calls`, `PacketIsAwaited`: a packet is in the receive FIFO when the bus is reset; once the reset has set
  `transferComplete`, the assertion of `PacketReceived` (:150) meets it.
* `usb_empty_read`: behind a read with wLength 0 the host sends no status packet but the next
  SETUP. `ControlSuccess` answers with an empty packet all the same, and `HandleIn` behind it
  prepares a status stage (Device.cpp:463-469) that lowers the count of SETUP packets without
  one having come; the next request is then taken from an entry of `setupBuffer` nothing was written to.
* `usb_calls`, `PacketsExact`: an OUT packet of no bytes is not passed to `PacketReceived` (Device.cpp:287),
  and `ReceivePacket` takes the untouched buffer for a full one (DeviceEndpoints.cpp:142).
* `i2c_busy`: after an error another device holds the lines, and the lock is released all the same
  (I2C.cpp:33-39, 186-187): the next device is given a peripheral whose bus is not free.
* `sd_timeout_assert`: the host's data timer expires before the driver's second, with words left in the
  channel. `WaitNotBusy` takes that for the end, and `CompleteDmaTransfer` asserts that none are left (SDMMC.cpp:112).
* `rtc_late`: a sleep of the full period is cut to `MASK(15)` ticks; if the clock is read one
  tick late behind it, the counter has come round and the period is lost.
* `elf2dfuse_endless`: an empty section that closes a run of contiguous ones is counted with them
  in the first pass and left over in the second, where it starts an element of no bytes that
  never gets past it: the program writes prefixes without end.

### Bounds

`DMALink`: two or three overlapping and adjacent buffers (`MCSpans`), counter width
`MaxTransfer = 3`, `MaxAccepted` 4 to 6 bytes: enough for a current transfer, a linked
one extended up to the counter's limit, and a third. The thread's calls are a
constant, `Ops`, so that each run has just the calls its question is about.
`DMAReceiverCircular`: a ring of 5 with at most 4 waiting and 12 bytes in all goes
around more than twice with every block length. `USARTInterrupt`: two adjacent
one-byte buffers and an empty one fill, extend and exhaust both slots
(`AdjacentSpans`). The run has a prompt interrupt; the safety properties are proved for
a late one as well. `WaitReturns` is stated and not run: it holds for buffers none of which
ends where another begins (`ApartSpans`) and not otherwise, for if the last buffer
ends where the first began, the pointer that `Wait` polls is back at its old value.

`UsbControl`: packets of two units and a FIFO of two packets; answers of one, two and three
units cover the single short packet, the full one and the one behind it. `MaxRude`
bounds how often the host aborts or resets, two being enough for a second one in the
middle of the recovery from the first. `MaxTimes` stops a history counter at "more than
once". `Prompt` keeps SETUP packets (not resets) from coming before the device is done with
what it can do at once; without it `SetupReceived` fails (`usb_setup_count`). No request of the
passing runs brings data, because of `usb_out_data`, nor has an answer that `usb_full_packet` is
about; nor does one ask for no data at all, because of `usb_empty_read`.

`usb_endpoints`: a FIFO of one packet of two words, sends of none, one and three words (so that
a packet is pushed in two batches), OUT packets of one, two and no whole words, each with a byte at least (`PacketsExact` of `usb_calls`), into buffers that
are too short by bytes and by words, and two of them.
Two configurations share an endpoint, a third value exists for none; six endpoints of each direction, as on
the STM32L4, make 6 and 7 the numbers next to the limit. Otherwise nothing is excluded of
what `usb_calls` and `usb_device` show: `CallsReturn` speaks of the calls that are not
`Stranded` (ended by themselves between timeout and reset) nor stopped by an assertion, and `TogglesAgree` says
on which endpoints the toggles differ, and that they do on no other. After a bus reset `PacketsExact`
says less: `SendPacket` reports as sent what a reset ended, and `ReceivePacket` the whole buffer.
`AgreesWithHost` speaks of a host that has configured the device since the last reset.

`drivers`: two devices, one frequency to search the prescaler for (125 kHz from a clock of 4 MHz), transfers of one and of three bytes with `MaxChunk = 2` for 255, and
two calls between START and STOP meet every combination of `Stop`, `Continue` and `Restart` with and
without a seam; three sectors of two words, calls of up to two, one retry of the identification;
two tasks that erase a sound and a worn page of two double words, data that ends inside the second
word and one byte short; a counter of 8 ticks with `Close = 4` for 16 and `Delay = 2` below it, over
more than two periods and one range of `MonoPeriod = 16`, so that two calls of `_stm32_rtc_us` may be a range apart; three users for lists whose channels overlap. `Latency = 0` keeps
`rtc_late` away.

`elf2dfuse`: up to three sections out of every size 0..3 at six addresses in two segments, in any
order, adjacent, apart and with gaps smaller than `Alignment`, which pads. Those that are `WellLinked` are
the input (`Linked`): no two overlap, in either address space, all end by `MaxAddress`, and an empty one
has another behind it at its address. `elf2dfuse_endless` takes the files with up to two sections
without that condition.

Deadlock is not checked where the system may really stop. In `dma_link_live` the thread only links, and stops
once `MaxAccepted` bytes were taken on and moved. In `usb_abort` the host may wait for what
an answer to an earlier request has taken the place of, and has no more resets to spend.
In `usb_endpoints` the words and packets to be sent are bounded; `elf2dfuse` (with
`elf2dfuse_endless`) is a program that ends. In `usb_full_packet` the standstill is what the run shows.

### Fairness

* Steps of a call (`Continue`): the processor goes on. Strong where the handler keeps
  interrupting it.
* `LinkHandler`, `Handle(..)`: strong, because calls mask the interrupt for a moment
  again and again and the NVIC remembers it.
* `Transfer`, `Shift`: the peripheral keeps asking, the baud clock runs. Not assumed
  in `SoftwareFair`, and nothing is assumed of `Receive`.
* `Handle(ReadData)` and `Handle(WriteData)` separately: a character on the line takes
  far longer than the handler, so that the transmitter's branch gets its turn.
* `CallGetWritePointer`: the receiver's loop comes back, since that is what it does after
  every `Wait`.
* `IRQHandler`, `Thread` of `UsbControl`: interrupts are taken, the task runs and callbacks come
  back. The host polls for what it waits for; it need not ask, abort or reset.
* `UsbEndpoint`: handlers run, the core acknowledges `EPDIS`, each task gets its turn between
  interrupts, and a timeout expires (here, other than elsewhere, it is what ends the wait).
  Nothing is assumed of the host.
* `Driver` of `SDCard`: the task runs, and the wait with a timeout of a second ends. Nothing is assumed of the card.
* `Next` of `Elf2Dfuse`: the program goes on.

Waiting for a register (`WaitDone`) is fair only in the sense of polling: the condition
may hold and pass again unnoticed. Timeouts may come at any time and are never
required.

## 4. What is proved

Proofs are in the modules named `...Proofs`; `PROJECT.json` lists the theorems. Each
holds for all values of the constants that the assumptions of the modules allow
(`DMALinkAssumption`, `CircularAssumption`, `USARTAssumption`, `UsbAssumption`, `EndpointAssumption`,
`DeviceAssumption`, `ChunkAssumption`, `DevicesAssumption`, `RtcAssumption`, `FlashAssumption`,
`CardAssumption`, `SpecsAssumption`, `FrequencyAssumption`, `OutputAssumption`, `InputsAssumption`: sizes and lengths are natural numbers, identities differ from
their absence, tables list what exists), and under the further condition it names. Such a
condition is one under which the code is used, or one without which the code does not do it:
then a configuration of section 3 shows the counterexample.

* `DMALinkProofs`, for any set of buffers and any counter width. Four invariants, by what is
  called and how late the interrupt is:
  - any calls, any latency: `DMALinkTypes`. The engine, the handler and `TryLinkBuffer` keep the
    counters within the width of `CNDTR`, whatever precedes them.
  - without `Unlink`, any latency: `DMALinkInvariant` and from it `HandlerAfterCompletion`
    (with `Unlink` it is false: `dma_assert_after_unlink`), `StatusIsExact` and
    `DMALinkRefinesStream`. The invariant says that the bytes accepted and not moved are the rest of
    the current transfer followed by the link (`StreamInv`), that `cur = CMAR + CNDTR0 - CNDTR` whether
    or not the channel is enabled (`AddressInv`), that a channel with bytes left is disabled only
    inside `GetStatus`, which will enable it again (`ChannelInv`), and which steps run with the
    interrupt masked (`ThreadInv`). Without `ChannelInv` the handler could meet a transfer that is not
    over; without `AddressInv` neither `StatusExact` nor the addresses in `StreamInv` survive a step.
  - `TryLinkBuffer` alone, any latency: `NothingStranded`. `StrandInv` says that an idle channel with
    something linked owes an interrupt or is about to raise it. `dma_link_stranded` shows that
    `GetStatus` breaks it, which is why `Ops` is restricted.
  - any calls, an interrupt that is taken at once (`~Latency`): `PointersArePlaces` and
    `UnlinkRefinesStream`. Here the link's count may be stale behind `Unlink`, so that `LinkedInv` speaks of
    started channels only; `OrderInv` counts what an enabled channel has left, or one that
    `GetStatus` will enable again. `dma_pointer_torn` and `dma_unlink_race` show the need of
    the condition.

  `StreamInOrder` is what `BufferStream` gives whoever uses an implementation of it, and with the two
  refinements `MovedInOrder`: the bytes moved are an initial part of those linked.
* `DMAReceiverCircularProofs`, for a ring, a caller's buffer and a backlog of any size:
  `CircularInvariant` and from it `CircularTypes`, `EmptyMeansEmpty`, `AssertHolds`,
  `CopySafety` and `CircularRefinesStream`. The invariant places the bytes not yet handed
  over in the ring, consecutively from the read position, and bounds the block being
  copied by them.
* `USARTInterruptProofs`, for any buffers, empty ones included, with or without overrun
  detection and interrupt latency: `USARTInvariant` and from it `USARTTypes`, `USARTUsedUp`,
  `USARTStaysAwake`, `USARTRefinesTx` and `USARTRefinesRx`. The invariant says that what
  was accepted and is not done is the rest of the first slot followed by the second, which
  is used only behind a first that is not used up (`Fits`); that the branch `AddBuffer`
  has taken is still the right one when it stores, since the interrupt is masked
  (`BranchInv`); and that a transmitter with bytes left has `TXEIE` set or is about to
  (`AwakeInv`, which holds while masked too, as `TransmitterAwake` alone would not be
  inductive).
* `UsbControlProofs`, three invariants:
  - for any requests and packet size, with or without suspended callbacks, aborted requests and
    resets: `UsbInvariant` and from it `UsbNoRequestLost`. Each part of `IRQHandler` is shown to be `Careful`
    (it enters the state Processing only together with setting `tasks`, and never clears it), so
    that their composition is; the invariant adds where the thread may be while `tasks` is clear, and
    that `hasResult` is false from the start of a request until its answer, without which
    `Finish` might skip the stall.
  - for a host that waits until the device is done (`Polite`), any packet size and callbacks that may be
    suspended: `UsbPhases` and from it `UsbTypes`, `UsbSetupReceived`, `UsbAnswersItsRequest` and
    `UsbImplementsTransfer`, the safety part of the refinement of `ControlTransfer`. At every moment the
    transfer is in one of seven phases (`Resting` ... `Sending`), each of which says whose turn it is and what
    registers, FIFOs and members may then hold; `SendInv` ties `inSize` and the transmit FIFO to what
    `ControlSuccess` still has to write. The requests are of any length but for those that the
    configurations show to go wrong: `Proper` excludes reads of no data (`usb_empty_read`), data to the device
    of a length other than announced (`usb_out_length`), and more than a packet of it (`usb_out_data`) unless
    the request is refused; `Prompt` excludes `usb_setup_count`, and no resets `usb_stale_answer` and `usb_left_in_fifo`.
  - for a host that also resets the bus whenever no interrupt is due, and sends whatever it likes of its
    data, while callbacks do not suspend (`Resetting`, as `usb_reset` has it): `UsbResetPhases` and from it
    `UsbSetupSurvivesResets`. The thread does not notice a reset: it goes on with a request that nobody
    waits for, and may transmit or stall for it. Of the seven phases (`Cleared` ... `Answering`), those in
    which nobody waits or the request is refused (`Cleared`, `Free`, `Refused`) therefore say nothing of
    where the thread is but that it does not disturb the count of SETUP packets; all that is owed to the
    host comes from the other four. A write whose data has the wrong length is `Refused` too: it is
    stalled, and processed all the same.
  - for any requests, and a host that gives them up and resets the bus, as long as a SETUP packet finds the
    device done and callbacks do not suspend (`Undisturbed`): `UsbSetupIsStable` and from it
    `UsbAnswersUndisturbed`. It needs no phases: as long as a SETUP packet is still to be read the thread waits
    with no task (`SetupPending`), and `HandleOut` takes a request only after one. With callbacks that
    suspend, the statement is false: `usb_stale_answer` shows how.
* `EndpointsProofs`, for any endpoints and configurations, packet and FIFO sizes:
  - `DeviceInvariant` and from it `HostAndDeviceAgree`, with bus resets anywhere: what the host believes is
    what the device has, or what SET_CONFIGURATION leaves behind on the endpoints that it is done with
    (`ProgressInv`). A step that still works for a host from before the reset is `~live`, and the host
    then believes nothing (`RequestInv`), which is what makes `BeliefInv` inductive.
    `HostAndDeviceToggle` adds the data toggles, for any host: they differ on exactly the endpoints that it
    restarted and the device did not (`apart`), which `NoPacketLost` of `usb_device` shows to exist.
  - `TransferInvariant` and from it `EndpointTypes` and `BuffersAreReturned`, with timeouts, resets and packets
    between a timeout and the reset of the endpoint anywhere. Only behind a fault does an assertion fail
    (`NothingLeftToSend` and `PacketIsAwaited` of `usb_calls` show the two that do). The place of the call says what `EPENA`, `EPDIS`, the FIFOs and the flags
    may hold (`InInv`, `OutInv`), the words in the FIFO and those sent ascend to `txPtr` (`WordsInv`), and without
    faults none is missing (`FaultlessInv`). `TransfersAreExact` needs packets of a byte at least
    (`PacketsExact` of `usb_calls`).
* `I2CProofs`, for any devices, transfer lengths and chunk size: `I2CInvariant` and from it `I2CTypes`,
  `OneDeviceOnTheBus` and `TransferIsExact`. The former is about the peripheral and its lock; that the lines are
  free is not so (`i2c_busy`). `LockInv` ties the lock, the one active device and the
  handler; per device, the bus is what the place in the transfer says (`OutInv`, `TurnInv`, `ChunkInv`:
  RELOAD and AUTOEND are what the end of the chunk calls for), and the wire is what was owed up to
  what NBYTES and the chunks behind it still owe (`WireInv`), through errors and timeouts. `0 \notin Lengths`: a
  call with an empty buffer writes nothing to CR2. `TimingStaysInRange`, for any clock and frequencies: the
  search of `OutputFrequency` is a fold over the prescalers, whose result is either none or one that was
  tried (`BestFits`), and what is tried fits the register.
* `DriversProofs`, one invariant per driver, each kept by the steps of the others (`PartSteps`):
  - `OneOwnerOfAChannel`: a held channel has `CCR` other than zero and its holder's request line.
  - `FlashReportsTrue`, for any pages and any number of tasks: a page whose erase was started is being
    erased, or erased, but for the cells written since (`TaskInv`), since the wait for the busy flag
    is repeated in the critical section; reports are compared with the memory both ways. `DoubleIs` is what the masks of the last double word amount to.
  - `RtcInvariant` and from it `NoTimeIsLost` and `NoAlarmIsMissed`, for any period, as long as the kernel is
    `Prompt`: it reads the clock at once when it wakes (else `rtc_late`) and sets the alarm up within less
    than `MASK(14)` ticks, half a period less one, and than `Close`. The 32-bit time is exact at every reading;
    the 64-bit time lags by whole ranges only, and by none unless two calls of `_stm32_rtc_us` are a range
    apart. The invariant is that the counter has not come round since
    the last reading (`ReadInv`), and that an alarm whose time has passed has left its event (`SleepInv`).
  - `SdInvariant` and from it `SectorsAreMoved` and `NextTransferIsClean`, for any number of sectors, words and
    retries, with cards removed and changed, garbled answers and timeouts at any time, but no answer with
    another command's index (`~Mismatches`). A device stopped by an assertion has had a data timeout with
    words left (`sd_timeout_assert`), and nothing else stops it. Outside of a transfer no flag, word or channel is left
    (`IdleInv`), the sectors before the one under way are moved (`MovedInv`), and a read that was not
    spoilt has what `cndtr` says is done (`TransferInv`).
  - `DriversTypes`, the types of all of them.
* `Elf2DfuseProofs`, for any number of files, sections and segments, any alignment and memory, if the files are
  `WellLinked` (else `elf2dfuse_endless`): `ImageInvariant` and from it `ImageKeepsItsSize` and `ImageIsLoaded`.
  The list of blobs is what the segments place of the sections read so far, sorted (`Entered`), from which it
  follows that the blobs lie apart and no empty one ends an element (`Sorted`). A layout `L` says where each
  element starts, in the list and in the file (`Layout`). The first pass has counted a layout, the second has
  written the elements of one up to its entry `n` (`Elements`), each with its address, its padded size and
  the bytes of all its blobs (`Holds`). The layout is what ties the two passes together: `ImageFits` alone
  does not survive a step, since it does not say that what is left to write is what was counted. After
  `n` elements the loader is at entry `n + 1` with all blobs before it in memory (`LoadIs`), as the padding behind
  an element only reaches addresses that later elements fill.

  These proofs are inductive over data. The induction theorems of the library take an operator, which
  the provers cannot instantiate; `Induct` takes a set in its place and follows from the well-foundedness of the
  naturals (`WFMin`), and `FoldExists` gives the folds of the community modules their equation.

Only model-checked:

* liveness and the fair refinements, since temporal reasoning with fairness is out of the prover's
  reach: `RefinesFairStream`, `RefinesFairTx` and `RefinesTransfer` as far as they promise progress
  (their safety parts are proved), `CallsReturnUntilOverrun`, `CallsReturn`, `RequestsEnd`,
  `CardCallsReturn`, `Terminates`.

`StatusExact`, `EmptyIsEmpty`, `HeadInsideRing`, `UsedUpMeansDone` and `RefinesTx` are proved and not run:
the proofs cover what a run would show.

## 5. Not modelled

* Register accessors, pin tables, clock set-up, reset cause, watchdog (USART.h, TIM, PWR, RCC, SPI, GPIO,
  base/, kernel/): no state of their own and no sequence; a model would repeat the register
  names. `GPIOPort::WaitForWithDebounce` is one loop around one wait.
* The USART pipes: they connect a strategy to a pipe of the io library, which is in another
  repository, as are the kernel, the base types and CMSIS.
* Descriptor contents, class and vendor requests (callbacks of the application), suspend, resume and
  remote wake-up signalling, and the division of the USB FIFO memory, which is computed once.
* `IoCtl` and the decoding of CID and CSD; ELF decoding, file errors and the CRC-32 polynomial.
* `DMAChannel::WaitForComplete`, which nothing calls.
* Build files.

## 6. Plan

The types with bus resets, on top of `UsbResetPhases`: what is left of the answer (`SendInv`) has to be
tied to what is in the FIFO from before the reset.
