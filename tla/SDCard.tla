------------------------------- MODULE SDCard -------------------------------
(* The SD card driver of FatFs on the SDMMC host: identification, and sectors
   read and written by DMA, against a card that may be pulled and put back,
   answers that are lost or garbled, data errors and timeouts.  A command spins
   until it is answered; the task suspends where it waits for data.  FatFs
   reads, writes and tests only while Status() is zero.                       *)
EXTENDS Integers, FiniteSets

CONSTANTS Sectors,      \* sector numbers
          MaxCount,     \* bound on the sectors of one call
          Words,        \* words of a sector
          SectorSize,   \* FF_MAX_SS
          Data,         \* contents of a sector
          Garbage,      \* a word spoilt on the way
          MaxTries,     \* bound on the turns before the timeout of 1500 ms
          Mismatches    \* whether the index of a response may be wrong

VARIABLES card,    \* the card and its memory
          host,    \* the data path of the host: its state and flags in STA
          dma,     \* the DMA channel
          drv,     \* the driver: Status, card info, and the frame of its call
          buf      \* the buffer of the caller, in sectors

vars == <<card, host, dma, drv, buf>>

IdleHost == [act |-> "none", flags |-> {}, bad |-> FALSE]
EmptyBuf == [k \in 1..MaxCount |-> [w \in 1..Words |-> Garbage]]
Blank == CHOOSE x \in Data : TRUE

Init == /\ card \in [state : {"off"}, v2 : BOOLEAN, hc : BOOLEAN, sel : {0}, mem : [Sectors -> {Blank}]]
        /\ card.hc => card.v2
        /\ host = IdleHost
        /\ dma = [enabled |-> FALSE, cndtr |-> 0]
        /\ drv = [status |-> {"NODISK", "NOINIT"}, mul |-> 1, v2 |-> FALSE, pc |-> "out", op |-> "none",
                  ok |-> FALSE, i |-> 1, count |-> 0, sec |-> 0, tries |-> 0, value |-> Blank]
        /\ buf = EmptyBuf

Goto(pc) == drv' = [drv EXCEPT !.pc = pc]
Finish(ok, status) == drv' = [drv EXCEPT !.pc = "return", !.ok = ok, !.status = status]
\* Status(STA_NODISK | STA_NOINIT); async_return(RES_ERROR)
Fail == Finish(FALSE, {"NODISK", "NOINIT"})

----------------------------------------------------------------------------
(* Commands.  Obeyed(c) is the card after a command that it obeys in its state *)
NoResponse == {"CmdGoIdleState"}
RespNoCRC == {"QueryOpCond", "ACmdSendOpCond", "PollOpCond"}

Move(from, to) == IF card.state \in from THEN {[card EXCEPT !.state = to]} ELSE {}
Addressed(arg) == IF card.hc THEN arg
                  ELSE IF arg % SectorSize = 0 THEN arg \div SectorSize ELSE -1

Obeyed(c, arg) ==
    CASE c = "CmdGoIdleState" -> IF card.state \in {"off", "absent"} THEN {} ELSE Move({card.state}, "idle")
      [] c = "CmdSendIfCond" -> IF card.v2 THEN Move({"idle"}, "idle") ELSE {}
      [] c \in {"QueryOpCond", "ACmdSendOpCond"} -> Move({"idle"}, "idle")
      \* the answer says whether the card is done; a high capacity card that is
      \* not told that the host knows of them never is
      [] c = "PollOpCond" -> Move({"idle"}, "idle") \cup (IF card.hc /\ ~drv.v2 THEN {} ELSE Move({"idle"}, "ready"))
      [] c = "CmdAllSendCid" -> Move({"ready"}, "ident")
      [] c = "CmdSendRelativeAddr" -> Move({"ident"}, "stby")
      [] c = "CmdSendCsd" -> Move({"stby"}, "stby")
      [] c = "CmdSelectCard" -> Move({"stby"}, "tran")
      [] c = "CmdSendStatus" -> Move({"tran"}, "tran")
      [] c \in {"CmdReadSingleBlock", "CmdWriteBlock"} ->
            IF Addressed(arg) \notin Sectors THEN Move({"tran"}, "tran")
            ELSE {[k EXCEPT !.sel = Addressed(arg)] :
                    k \in Move({"tran"}, IF c = "CmdReadSingleBlock" THEN "data" ELSE "rcv")}

\* What Command returns of the status bits.
Result(c, sta) == IF c \in RespNoCRC /\ "CCRCFAIL" \in sta THEN {"CMDREND"} ELSE sta
\* CommandResult::Success
Success(res) == res \cap {"CMDSENT", "CMDREND"} # {}

\* What may come of Command(c, arg): the card after it, and the result.
Command(c, arg) ==
    {[card |-> card, ok |-> Success(Result(c, IF c \in NoResponse THEN {"CMDSENT"} ELSE {"CTIMEOUT"}))]}
    \cup {[card |-> k, ok |-> Success(Result(c, sta))] : k \in Obeyed(c, arg),
            sta \in IF c \in NoResponse THEN {{"CMDSENT"}}
                    ELSE IF c \in RespNoCRC THEN {{"CCRCFAIL"}} ELSE {{"CMDREND"}, {"CCRCFAIL"}}}
    \cup (IF Mismatches /\ c \notin NoResponse THEN {[card |-> card, ok |-> Success({"CMDREND", "CCRCFAIL"})]} ELSE {})

----------------------------------------------------------------------------
(* SDMMCDriver::Init and SDMMC::IdentifyCard                                   *)
CallInit ==
    /\ drv.pc = "out"
    /\ drv' = [drv EXCEPT !.op = "Init", !.pc = IF "NOINIT" \in drv.status THEN "initialize"
                                                ELSE IF "NODISK" \in drv.status THEN "goIdle" ELSE "return",
                          !.ok = (drv.status = {})]
    /\ UNCHANGED <<card, host, dma, buf>>

\* The reset of the peripheral, and SDMMC::Initialize: power off and on.
Initialize ==
    /\ drv.pc = "initialize"
    /\ host' = IdleHost
    /\ card' = IF card.state = "absent" THEN card ELSE [card EXCEPT !.state = "idle"]
    /\ drv' = [drv EXCEPT !.status = {"NODISK"}, !.pc = "goIdle"]
    /\ UNCHANGED <<dma, buf>>

\* The step after a command of the identification has succeeded.
NextStep == [sendIfCond |-> "query", goIdleV1 |-> "query", query |-> "start", start |-> "poll",
             cid |-> "rca", rca |-> "csd", csd |-> "select"]
CommandOf == [goIdleV1 |-> "CmdGoIdleState", query |-> "QueryOpCond", start |-> "ACmdSendOpCond",
              cid |-> "CmdAllSendCid", rca |-> "CmdSendRelativeAddr", csd |-> "CmdSendCsd"]

GoIdle ==
    /\ drv.pc = "goIdle"
    /\ \E r \in Command("CmdGoIdleState", 0) :
         /\ card' = r.card
         /\ IF r.ok THEN drv' = [drv EXCEPT !.pc = "sendIfCond", !.v2 = TRUE, !.tries = 0] ELSE Fail
    /\ UNCHANGED <<host, dma, buf>>

SendIfCond ==
    /\ drv.pc = "sendIfCond"
    /\ \E r \in Command("CmdSendIfCond", 0) :
         /\ card' = r.card
         /\ drv' = [drv EXCEPT !.v2 = r.ok, !.pc = IF r.ok THEN "query" ELSE "goIdleV1"]
    /\ UNCHANGED <<host, dma, buf>>

IdentifyStep ==
    /\ drv.pc \in DOMAIN CommandOf
    /\ \E r \in Command(CommandOf[drv.pc], 0) :
         /\ card' = r.card
         /\ IF r.ok THEN Goto(NextStep[drv.pc]) ELSE Fail
    /\ UNCHANGED <<host, dma, buf>>

\* Mutant: the timeout is not looked at.
ElapsedNever(e) == FALSE
Elapsed(e) == e

\* One turn of the loop that waits for the card: done, timeout, or once more.
PollOpCond ==
    /\ drv.pc = "poll"
    /\ \E r \in Command("PollOpCond", 0), elapsed \in BOOLEAN :
         /\ drv.tries = MaxTries => elapsed
         /\ card' = r.card
         /\ CASE ~r.ok -> Fail
              [] r.ok /\ r.card.state = "ready" ->
                    drv' = [drv EXCEPT !.pc = "cid", !.mul = IF card.hc THEN 1 ELSE SectorSize]
              [] OTHER -> IF Elapsed(elapsed) THEN Fail
                          ELSE drv' = [drv EXCEPT !.tries = (@ + 1) % (MaxTries + 1)]
    /\ UNCHANGED <<host, dma, buf>>

SelectCard ==
    /\ drv.pc = "select"
    /\ \E r \in Command("CmdSelectCard", 0) :
         /\ card' = r.card
         /\ IF r.ok THEN Finish(TRUE, {}) ELSE Fail
    /\ UNCHANGED <<host, dma, buf>>

----------------------------------------------------------------------------
(* SDMMCDriver::Test, Read and Write                                          *)
Call(op, sec, count, value) ==
    /\ drv.pc = "out" /\ drv.status = {} /\ sec + count - 1 \in Sectors
    /\ drv' = [drv EXCEPT !.pc = "ready", !.op = op, !.i = 1, !.count = count, !.sec = sec, !.value = value]
    /\ UNCHANGED <<card, host, dma, buf>>

\* Mutant: sectors for every card.
AddressOfSector == drv.sec
Address == drv.sec * drv.mul

\* WaitNotBusy has its wait: the card is not busy, or a second is over.
NotBusy == host.act = "none"
TimedOut ==
    /\ drv.pc = "transfer" /\ ~NotBusy
    /\ Goto("abort")
    /\ UNCHANGED <<card, host, dma, buf>>

SendStatus ==
    /\ drv.pc = "ready" /\ NotBusy /\ drv.op = "Test"
    /\ \E r \in Command("CmdSendStatus", 0) :
         /\ card' = r.card
         /\ IF r.ok THEN Finish(TRUE, {}) ELSE Fail
    /\ UNCHANGED <<host, dma, buf>>

Configured(act) == /\ host' = [host EXCEPT !.act = act, !.bad = FALSE]
                   /\ dma' = [enabled |-> TRUE, cndtr |-> Words]

\* ConfigureDmaRead comes before the command, ConfigureDmaWrite after it.
StartRead ==
    /\ drv.pc = "ready" /\ NotBusy /\ drv.op = "Read"
    /\ Configured("rx")
    /\ \E r \in Command("CmdReadSingleBlock", Address) :
         card' = r.card /\ Goto(IF r.ok THEN "transfer" ELSE "abort")
    /\ UNCHANGED buf

StartWrite ==
    /\ drv.pc = "ready" /\ NotBusy /\ drv.op = "Write"
    /\ \E r \in Command("CmdWriteBlock", Address) :
         /\ card' = r.card
         /\ IF r.ok THEN Configured("tx") /\ Goto("transfer")
            ELSE Fail /\ UNCHANGED <<host, dma>>
    /\ UNCHANGED buf

\* Mutant: the flags of the transfer stay.
ClearedNot(flags) == flags
\* ICR = SDMMC_STA_DMASK
Cleared(flags) == {}

AbortDmaTransfer ==
    /\ drv.pc = "abort"
    /\ host' = [host EXCEPT !.act = "none", !.flags = Cleared(@)]
    /\ dma' = [dma EXCEPT !.enabled = FALSE]
    /\ Fail
    /\ UNCHANGED <<card, buf>>

\* DataResult::Success
DataSuccess(flags) == "DBCKEND" \in flags

LastSector == drv.i = drv.count

\* The assertions of CompleteDmaTransfer; one that fails stops the device.
TransferIsOver == dma.cndtr = 0 /\ host.flags # {}

CompleteDmaTransfer ==
    /\ drv.pc = "transfer" /\ NotBusy
    /\ dma' = [dma EXCEPT !.enabled = FALSE]
    /\ IF TransferIsOver
       THEN /\ host' = [host EXCEPT !.flags = Cleared(@)]
            /\ IF ~DataSuccess(host.flags) THEN Fail
               ELSE IF LastSector THEN Finish(TRUE, {})
               ELSE drv' = [drv EXCEPT !.pc = "ready", !.i = @ + 1, !.sec = @ + 1]
       ELSE Goto("stopped") /\ UNCHANGED host
    /\ UNCHANGED <<card, buf>>

\* The call returns, its frame is gone.
Return ==
    /\ drv.pc = "return"
    /\ drv' = [drv EXCEPT !.pc = "out", !.op = "none", !.ok = FALSE, !.i = 1, !.count = 0, !.sec = 0,
                          !.v2 = FALSE, !.tries = 0, !.value = Blank]
    /\ buf' = EmptyBuf
    /\ UNCHANGED <<card, host, dma>>

----------------------------------------------------------------------------
(* The data path and the card                                                 *)
MoveWord ==
    /\ dma.enabled /\ dma.cndtr > 0
    /\ \/ host.act = "rx" /\ card.state = "data"
       \/ host.act = "tx" /\ card.state = "rcv"
    /\ \E spoilt \in BOOLEAN :
         /\ buf' = IF host.act = "tx" THEN buf ELSE
                [buf EXCEPT ![drv.i][Words + 1 - dma.cndtr] = IF spoilt THEN Garbage ELSE card.mem[card.sel]]
         /\ host' = [host EXCEPT !.bad = @ \/ spoilt]
    /\ dma' = [dma EXCEPT !.cndtr = @ - 1]
    /\ UNCHANGED <<card, drv>>

\* The CRC of the block, checked by the host or by the card.
EndOfBlock ==
    /\ host.act # "none" /\ card.state \in {"data", "rcv"} /\ dma.cndtr = 0
    /\ host' = [host EXCEPT !.act = "none", !.flags = {IF host.bad THEN "DCRCFAIL" ELSE "DBCKEND"}]
    /\ card' = [card EXCEPT !.state = "tran",
                            !.mem[card.sel] = IF card.state = "rcv" /\ ~host.bad THEN drv.value ELSE @]
    /\ UNCHANGED <<dma, drv, buf>>

DataTimeout ==
    /\ host.act # "none"
    /\ host' = [host EXCEPT !.act = "none", !.flags = {"DTIMEOUT"}]
    /\ UNCHANGED <<card, dma, drv, buf>>

Remove ==
    /\ card.state # "absent"
    /\ card' = [card EXCEPT !.state = "absent"]
    /\ UNCHANGED <<host, dma, drv, buf>>

Insert ==
    /\ card.state = "absent"
    /\ card' = [card EXCEPT !.state = "idle"]
    /\ UNCHANGED <<host, dma, drv, buf>>

Driver == \/ Initialize \/ GoIdle \/ SendIfCond \/ IdentifyStep \/ PollOpCond \/ SelectCard
          \/ TimedOut \/ SendStatus \/ StartRead \/ StartWrite
          \/ AbortDmaTransfer \/ CompleteDmaTransfer \/ Return

Next == \/ CallInit \/ Driver
        \/ \E op \in {"Test", "Read"}, s \in Sectors, n \in 1..MaxCount : Call(op, s, n, Blank)
        \/ \E s \in Sectors, n \in 1..MaxCount, x \in Data : Call("Write", s, n, x)
        \/ MoveWord \/ EndOfBlock \/ DataTimeout \/ Remove \/ Insert

Spec == Init /\ [][Next]_vars
\* The scheduler runs the task; WaitNotBusy gives up when its time is over.
FairSpec == Spec /\ WF_vars(Driver)

----------------------------------------------------------------------------
(* The variables have their types.                                            *)
TypeOK ==
    /\ card.state \in {"off", "absent", "idle", "ready", "ident", "stby", "tran", "data", "rcv"}
    /\ card.sel \in Sectors /\ card.mem \in [Sectors -> Data]
    /\ host.act \in {"none", "rx", "tx"} /\ host.flags \subseteq {"DBCKEND", "DCRCFAIL", "DTIMEOUT"}
    /\ dma.cndtr \in 0..Words /\ dma.enabled \in BOOLEAN
    /\ drv.status \subseteq {"NODISK", "NOINIT"} /\ drv.mul \in {1, SectorSize}
    /\ drv.i \in 1..MaxCount /\ drv.tries \in 0..MaxTries
    /\ buf \in [1..MaxCount -> [1..Words -> Data \cup {Garbage}]]

(* A call that returns RES_OK has moved every sector it was asked for
   (SDMMCDriver.cpp:84-194), whatever kind of card it is and whatever went
   wrong on the way: what Read leaves in the buffer is what the card holds
   there, what Write was given is on the card.                                 *)
ResultIsTrue == drv.pc = "return" /\ drv.ok =>
    \A k \in 1..drv.count : LET s == drv.sec - drv.count + k IN
        /\ drv.op = "Read" => \A w \in 1..Words : buf[k][w] = card.mem[s]
        /\ drv.op = "Write" => card.mem[s] = drv.value

(* Whenever the driver may be called again while it is initialised, and when it
   is about to program the next transfer, the assertions of ConfigureDmaRead
   and ConfigureDmaWrite (SDMMC.cpp:72-74, 87-89) hold: the channel is
   disabled, no data flag is left of an earlier transfer, none is under way;
   and a sector is addressed the way the card wants it.  Those of
   CompleteDmaTransfer (:112-115) fail in one case only, a transfer that the
   host's data timeout has ended with words still to move.                     *)
ReadyIsClean ==
    /\ drv.status = {} /\ drv.pc \in {"out", "ready"} =>
         /\ ~dma.enabled /\ host.flags = {} /\ host.act = "none"
         /\ drv.mul = 1 <=> card.hc
    /\ drv.pc = "stopped" => host.flags = {"DTIMEOUT"} /\ host.act = "none" /\ dma.cndtr > 0

(* Every call of the driver returns, unless an assertion stops the device:
   WaitNotBusy and the loop of the identification give up when the card does
   not answer.                                                                 *)
CallsReturn == drv.pc # "out" ~> drv.pc \in {"out", "stopped"}

(* SDMMC.cpp:112: the channel has moved all words when a transfer is over.  The
   code breaks this when the data timer expires before the driver's second.    *)
NoWordsLeft == drv.pc # "stopped"

(* Status() is zero only for a card that was selected, or has been pulled
   since: a failed command is noticed.                                        *)
InitialisedIsSelected == drv.status = {} =>
    card.state \in {"absent", "idle", "tran", "data", "rcv"}
=============================================================================
