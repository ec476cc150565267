-------------------------------- MODULE Boot --------------------------------
(***************************************************************************)
(* What the operations of the start-up code do: a processor that runs the  *)
(* functions of Loader, Bringup and Display on the state of the board.     *)
(*                                                                         *)
(* A register access to a module whose clock is not running, or through a  *)
(* page table without its section, aborts; so does every step whose code   *)
(* or stack is not mapped.  A wait ends when its event comes; one event of *)
(* the board may be odd: it never comes ("dead"), or comes at the very     *)
(* last poll ("last").  After the start a task reads and writes sectors.   *)
(***************************************************************************)
EXTENDS Bringup, SdCard, SequencesExt

CONSTANTS
  Oddities,       \* what may be odd about the board: [kind, c, from]
  Media,          \* the cards and memories: see Init
  ACMD41_TRIES,   \* how often the operating condition is asked for (2000)
  LostResponses,  \* the commands whose answer may be lost on the wire
  MAX_FAULTS,     \* bound on lost answers and data errors
  MAX_CALLS,      \* bound on the sector transfers of the task
  Sectors         \* the sectors the task reads and writes

ASSUME BootAssumption ==
  /\ ACMD41_TRIES \in Nat \ {0} /\ MAX_FAULTS \in Nat /\ MAX_CALLS \in Nat

VARIABLES
  mode,      \* "boot", "run" (tasks are running), "stop" (a named halt) or
             \* "lost" (the loader has jumped into what is not the kernel)
  frames,    \* the call stack: [f, pc, a], a = <<device, register or sector, value or count>>
  ret,       \* what the last call returned: "none" (no return pending), "ok" or "err"
  odd,       \* what is odd about the board
  hw,        \* clocks, watchdog, timer, interrupt lines
  cpu,       \* MMU, page table, vector base, and where code and stack are addressed
  mmc,       \* the SD host controller
  card, disk, medium,   \* the card, the sectors written since, its contents and the memory
  prog,      \* what the program remembers
  buf,       \* the sectors the current transfer has moved
  disp,      \* the display controller and the HDMI framer
  faults, calls

ctl  == <<mode, frames, ret>>
rest == <<odd, medium, faults, calls>>
vars == <<ctl, rest, hw, cpu, mmc, card, disk, prog, buf, disp>>

-----------------------------------------------------------------------------
(* Sector transfers.  The kernel's functions return an error, the loader's *)
(* panic; only a failed write command resets the lines.                    *)
mmc_read_sectors ==
  <<Op("each", "", "on"), Reg("MMC0"), Op("start", "CMD17", "fail"), Op("data", "CMD17", "fail"),
    Op("done", "CMD17", "fail")>>
mmc_write_sectors ==
  <<Op("each", "", "on"), Reg("MMC0"), Op("start", "CMD24", "fail"), Op("data", "CMD24", "fail"),
    Op("done", "CMD24", "fail")>>
loader_read_sectors ==
  <<Op("each", "", "on"), Reg("MMC0"), Op("start", "CMD17", "stop"), Op("data", "CMD17", "stop"),
    Op("done", "CMD17", "stop")>>
Transfers == [mmc_read_sectors |-> mmc_read_sectors, mmc_write_sectors |-> mmc_write_sectors,
              loader_read_sectors |-> loader_read_sectors]

Code == LoaderCode @@ KernelCode @@ DisplayCode @@ Transfers

NoArgs == <<"", 0, 0>>
Frame(f, a) == [f |-> f, pc |-> 1, a |-> a]
Top == frames[Len(frames)]
Now == Code[Top.f][Top.pc]

(* The kernel runs from the moment the loader has jumped.                  *)
InKernel == cpu.pc # "sram"
Running == mode \in {"boot", "run"} /\ frames # <<>> /\ ret = "none"
Ended == Top.pc > Len(Code[Top.f])

(* The program's memory is reachable; a register access also needs the     *)
(* clock of its module.                                                    *)
Section(a) == IF a = "va" THEN KERNEL_VA ELSE KERNEL_PA
Mapped(s) == cpu.mmu => IsMapped(cpu.pgd, s)
Reachable == Mapped(Section(cpu.pc)) /\ Mapped(Section(cpu.sp))
Polled == [clk |-> "CM", cm |-> "CM", ctrl |-> "CTRL", wdt |-> "WDT1", uart |-> "UART0",
           mmc |-> "MMC0", i2c |-> "I2C0", timer |-> "TIMER2", mdio |-> "CPSW", cpsw |-> "CPSW"]
Module == CASE Now.op \in {"reg", "say", "delay"} -> Now.x
            [] Now.op \in {"until", "within", "sloppy"} -> Polled[Now.x[1]]
            [] OTHER -> "CM"
Legal == /\ Reachable
         /\ Module \in hw.on
         /\ Mapped(SectionOf[Module])

(* Where control goes: to the next statement, out of the function, into    *)
(* another one, or to a halt.                                              *)
Onward ==
  /\ frames' = [frames EXCEPT ![Len(frames)].pc = @ + 1]
  /\ ret' = "none" /\ mode' = mode
(* A call that went well lets its caller go on at once; an error code      *)
(* waits in ret for the caller to look at it.                              *)
Leave(r) ==
  /\ mode' = mode
  /\ IF r = "ok" /\ Len(frames) > 1
     THEN ret' = "none" /\ frames' = [Front(frames) EXCEPT ![Len(frames) - 1].pc = @ + 1]
     ELSE ret' = r /\ frames' = Front(frames)
Enter(f, a) == frames' = Append(frames, Frame(f, a)) /\ UNCHANGED <<ret, mode>>
Halt == mode' = "stop" /\ frames' = <<>> /\ ret' = "none"
Failing(e) ==
  CASE e = "on"    -> Onward
    [] e = "fail"  -> Leave("err")
    [] e = "quit"  -> Leave("ok")
    [] e = "stop"  -> Halt
    [] e = "flush" -> /\ frames' = Append(Front(frames), Frame("i2c_fail", NoArgs))
                      /\ ret' = "none" /\ mode' = mode

-----------------------------------------------------------------------------
(* Waits.                                                                  *)

(* Who answers on the I2C bus: both halves of the framer.                  *)
Answering == Top.a[1] \in {"TDA", "CEC"} \/ Top.a[2] \in {52, 112}

Dead(c) == odd.kind = "dead" /\ odd.c = c /\ (odd.from = "kernel" => InKernel)
Comes(c) ==
  /\ ~Dead(c)
  /\ c[1] = "clk" => c[2] \in hw.req
  /\ c = <<"i2c", "ack">> => Answering
Granted(c) == IF c[1] = "clk" THEN [hw EXCEPT !.on = @ \cup {c[2]}] ELSE hw

Others == <<rest, cpu, mmc, card, disk, prog, buf, disp>>

WaitEnds(o) ==
  /\ o.op = "until" \/ o.op = "within" \/ o.op = "sloppy"
  /\ Comes(o.x)
  /\ (o.op = "sloppy" /\ odd.kind = "last") => odd.c # o.x
  /\ hw' = Granted(o.x) /\ Onward
  /\ UNCHANGED Others

WaitGivesUp(o) ==
  /\ o.op = "within" /\ ~Comes(o.x)
  /\ Failing(o.e)
  /\ UNCHANGED <<hw, Others>>

(* The counter has wrapped: the timeout goes unnoticed.                    *)
WaitMissed(o) ==
  /\ o.op = "sloppy" /\ ~Comes(o.x)
  /\ Onward
  /\ UNCHANGED <<hw, Others>>

(* The event came with the last poll and is taken for a timeout.           *)
WaitMistaken(o) ==
  /\ o.op = "sloppy" /\ Comes(o.x) /\ odd.kind = "last" /\ odd.c = o.x
  /\ hw' = Granted(o.x) /\ Failing(o.e)
  /\ UNCHANGED Others

Talks(o) ==
  /\ o.op = "reg" \/ (o.op = "say" /\ Comes(<<"uart", "tx">>)) \/ (o.op = "delay" /\ hw.timer = "free")
  /\ Onward
  /\ UNCHANGED <<hw, Others>>

ClockRequest(o) ==
  /\ o.op = "enable"
  /\ hw' = [hw EXCEPT !.req = @ \cup {o.x}] /\ Onward
  /\ UNCHANGED Others

-----------------------------------------------------------------------------
(* Calls.                                                                  *)

CallFunction(o) ==
  /\ o.op = "call" \/ o.op = "with"
  /\ IF o.op = "call" THEN Enter(o.x, Top.a)
     ELSE Enter(o.x[1], <<IF o.x[1] = "scan_one" THEN "SCAN" ELSE "TDA", o.x[2], o.x[3]>>)
  /\ UNCHANGED <<hw, Others>>

Return ==
  /\ Running /\ Ended
  /\ Leave("ok")
  /\ UNCHANGED <<hw, Others>>

(* The caller looks at an error code; try_bind takes the driver off a      *)
(* device whose probe failed.                                              *)
Resume ==
  /\ ret # "none"
  /\ IF frames = <<>> THEN ret' = "none" /\ UNCHANGED <<mode, frames>> ELSE Failing(Now.e)
  /\ prog' = IF frames # <<>> /\ Now.op = "driver" THEN [prog EXCEPT !.bound = @ \ {Now.x}]
             ELSE prog
  /\ UNCHANGED <<rest, hw, cpu, mmc, card, disk, buf, disp>>

(* bus_add_driver: the driver is recorded, then every unbound device of    *)
(* the same name is given it and probed (the bus has one of each).         *)
bus_add_driver(o) ==
  /\ o.op = "driver"
  /\ LET full == Cardinality(prog.drivers) >= BUS_MAX_DRIVERS
         match == o.x \in prog.devices /\ o.x \notin prog.bound IN
     /\ prog' = IF full THEN prog
                ELSE [prog EXCEPT !.drivers = @ \cup {o.x},
                                  !.bound = IF match THEN @ \cup {o.x} ELSE @]
     /\ IF full THEN Failing(o.e)
        ELSE IF match THEN Enter(Probe[o.x], NoArgs)
        ELSE Onward
  /\ UNCHANGED <<rest, hw, cpu, mmc, card, disk, buf, disp>>

(* irq_register_handler refuses a line out of range or one that has a      *)
(* handler already.                                                        *)
irq_register_handler(o) ==
  /\ o.op = "handler"
  /\ IF o.x >= MAX_IRQS \/ o.x \in hw.handlers
     THEN Failing(o.e) /\ UNCHANGED hw
     ELSE Onward /\ hw' = [hw EXCEPT !.handlers = @ \cup {o.x}]
  /\ UNCHANGED Others

intc_enable_irq(o) ==
  /\ o.op = "unmask"
  /\ hw' = [hw EXCEPT !.unmasked = @ \cup {o.x}] /\ Onward
  /\ UNCHANGED Others

-----------------------------------------------------------------------------
(* Steps of the processor and of the devices.                              *)

HwAfter(x) ==
  CASE x = "wdt_aaaa" -> [hw EXCEPT !.wdt = IF @ = "armed" THEN "half" ELSE @]
    [] x = "wdt_5555" -> [hw EXCEPT !.wdt = IF @ = "half" THEN "off" ELSE @]
    [] x = "pause_GPIO1" -> [hw EXCEPT !.on = @ \cup {"GPIO1"}]
    [] x = "intc_init" -> [hw EXCEPT !.unmasked = {}]
    [] x = "irq_init" -> [hw EXCEPT !.handlers = {}]
    [] x = "timer_free" -> [hw EXCEPT !.timer = "free"]
    [] x = "timer_stop" -> [hw EXCEPT !.timer = "off"]
    [] x = "timer_tick" -> [hw EXCEPT !.timer = "tick"]
    [] OTHER -> hw

CpuAfter(x) ==
  CASE x = "vbar_loader" -> [cpu EXCEPT !.vbar = "sram"]
    [] x = "stacks_pa" -> [cpu EXCEPT !.sp = "pa"]
    [] x = "vbar_pa" -> [cpu EXCEPT !.vbar = "pa"]
    [] x = "build_table" -> [cpu EXCEPT !.pgd = mmu_build_page_table_boot]
    [] x = "mmu_enable" -> [cpu EXCEPT !.mmu = TRUE]
    [] x = "stacks_va" -> [cpu EXCEPT !.sp = "va"]
    [] x = "jump_high" -> [cpu EXCEPT !.pc = "va"]
    [] x = "unmap_identity" -> [cpu EXCEPT !.pgd = unmap_identity(@)]
    [] x = "vbar_va" -> [cpu EXCEPT !.vbar = "va"]
    [] OTHER -> cpu

HostOff == [hz |-> "off", cen |-> FALSE, ie |-> FALSE, volt |-> FALSE, pwr |-> FALSE,
            wedged |-> {}, rsp |-> "none"]
MmcAfter(x) ==
  CASE x = "mmc_reset" -> HostOff
    [] x = "mmc_lines" -> [mmc EXCEPT !.wedged = {}]
    [] x = "mmc_volt" -> [mmc EXCEPT !.volt = TRUE]
    [] x = "mmc_power" -> [mmc EXCEPT !.pwr = mmc.volt]
    [] x = "mmc_400k" -> [mmc EXCEPT !.hz = "400k"]
    [] x = "mmc_24m" -> [mmc EXCEPT !.hz = IF mmc.cen THEN @ ELSE "24m"]
    [] x = "mmc_cen" -> [mmc EXCEPT !.cen = TRUE]
    [] x = "mmc_cen_off" -> [mmc EXCEPT !.cen = FALSE]
    [] x = "mmc_ie" -> [mmc EXCEPT !.ie = TRUE]
    [] OTHER -> mmc

(* Eighty clocks wake a powered card.                                      *)
CardAfter(x) ==
  IF x = "mmc_80clk" /\ mmc.pwr /\ mmc.cen /\ card.st = "off" THEN [card EXCEPT !.st = "idle"]
  ELSE card

ProgAfter(x) ==
  CASE x = "bss" -> [prog EXCEPT !.sdhc = FALSE]
    [] x = "opcond_start" -> [prog EXCEPT !.tries = 0, !.heard = FALSE]
    [] x = "take_rca" -> [prog EXCEPT !.rca = mmc.rsp]
    [] x = "bus_register" -> [prog EXCEPT !.devices = {}, !.drivers = {}]
    [] x = "add_devices" -> [prog EXCEPT !.devices =
         {bbb_devices[i] : i \in {i \in 1 .. Len(bbb_devices) : i <= BUS_MAX_DEVICES}}]
    [] x = "take_lba" -> [prog EXCEPT !.part = medium.lba]
    [] OTHER -> [prog EXCEPT !.facts = @ \cup {x}]

Bit(v, b) == (v \div b) % 2 = 1
DispAfter(x) ==
  CASE x = "i2c_deliver" /\ Top.a[1] = "TDA" ->
         IF Top.a[2] = 255 THEN [disp EXCEPT !.page = Top.a[3]]
         ELSE [disp EXCEPT !.regs = (TDA_MKREG(disp.page, Top.a[2]) :> Top.a[3]) @@ @]
    [] x = "i2c_fetch" ->
         LET r == TDA_MKREG(disp.page, Top.a[2]) IN
         [disp EXCEPT !.acc = IF r \in DOMAIN disp.regs THEN disp.regs[r] ELSE disp.reset]
    [] x = "note_page" -> [disp EXCEPT !.cached = TDA_PAGE(Top.a[2])]
    [] x = "forget_page" -> [disp EXCEPT !.cached = 255]
    [] x = "acc_zero" -> [disp EXCEPT !.acc = 0]
    [] x = "raster_off" -> [disp EXCEPT !.raster = FALSE]
    [] x = "raster_on" -> [disp EXCEPT !.raster = TRUE]
    [] x = "raster_timing" -> [disp EXCEPT !.timing = RasterTiming(DISPLAY)]
    [] OTHER -> disp

Control == {"jump_kernel", "scheduler_start", "return_fail", "skip_if_page", "acc_set", "acc_clear"}

Step_do(o) ==
  /\ o.op = "do" /\ o.x \notin Control
  /\ Onward
  /\ hw' = HwAfter(o.x) /\ cpu' = CpuAfter(o.x) /\ mmc' = MmcAfter(o.x)
  /\ card' = CardAfter(o.x) /\ prog' = ProgAfter(o.x) /\ disp' = DispAfter(o.x)
  /\ UNCHANGED <<rest, disk, buf>>

(* The processor runs whatever was read; only when that is the kernel is   *)
(* reset_handler at the address jumped to.  The kernel's own variables are *)
(* in memory nobody has cleared yet.                                       *)
Image == [i \in 1 .. KERNEL_SIZE_SECTORS |-> KERNEL_START_SECTOR + i - 1]
JumpKernel(o) ==
  /\ o.op = "do" /\ o.x = "jump_kernel"
  /\ IF medium.kernel /\ buf = Image
     THEN frames' = <<Frame("reset_handler", NoArgs)>> /\ UNCHANGED <<mode, ret>>
     ELSE frames' = <<>> /\ mode' = "lost" /\ UNCHANGED ret
  /\ cpu' = [cpu EXCEPT !.pc = "pa"]
  /\ \E junk \in BOOLEAN : prog' = [prog EXCEPT !.sdhc = junk, !.entered = TRUE]
  /\ UNCHANGED <<rest, hw, mmc, card, disk, buf, disp>>

SchedulerStart(o) ==
  /\ o.op = "do" /\ o.x = "scheduler_start"
  /\ mode' = "run" /\ frames' = <<>> /\ UNCHANGED ret
  /\ UNCHANGED <<hw, Others>>

ReturnFail(o) ==
  /\ o.op = "do" /\ o.x = "return_fail"
  /\ Leave("err")
  /\ UNCHANGED <<hw, Others>>

(* tda_set_page: nothing to do when the cached page is the wanted one.     *)
SkipPage(o) ==
  /\ o.op = "do" /\ o.x = "skip_if_page"
  /\ IF disp.cached = TDA_PAGE(Top.a[2]) THEN Leave("ok") ELSE Onward
  /\ UNCHANGED <<hw, Others>>

(* The value read, with the bits set or cleared, is what will be written.  *)
Modify(o) ==
  /\ o.op = "do" /\ o.x \in {"acc_set", "acc_clear"}
  /\ LET b == Top.a[3]
         v == CASE o.x = "acc_set" /\ ~Bit(disp.acc, b) -> disp.acc + b
                [] o.x = "acc_clear" /\ Bit(disp.acc, b) -> disp.acc - b
                [] OTHER -> disp.acc IN
     frames' = [frames EXCEPT ![Len(frames)] = [@ EXCEPT !.pc = @ + 1, !.a[3] = v]]
  /\ UNCHANGED <<mode, ret, hw, Others>>

(* The framer's I2C transactions.                                          *)
I2cTransaction(o) ==
  \/ /\ o.op = "i2c_page" /\ Enter("i2c_write_reg", <<"TDA", 255, TDA_PAGE(Top.a[2])>>)
     /\ UNCHANGED <<hw, Others>>
  \/ /\ o.op = "i2c_data" /\ Enter("i2c_write_reg", <<o.x, TDA_ADDR(Top.a[2]), Top.a[3]>>)
     /\ UNCHANGED <<hw, Others>>
  \/ /\ o.op = "i2c_get" /\ Enter("i2c_read_reg", <<"TDA", TDA_ADDR(Top.a[2]), 0>>)
     /\ UNCHANGED <<hw, Others>>

-----------------------------------------------------------------------------
(* mmc_send_cmd.  A command succeeds, raises ERRI (nobody answered, or the *)
(* answer was lost; the command line is reset), or, on a line that is      *)
(* still wedged, times out.                                                *)
HostReady == mmc.pwr /\ mmc.cen /\ mmc.hz # "off" /\ mmc.ie
Arg(cmd) == IF cmd \in {"CMD9", "CMD7"} THEN prog.rca ELSE "0"
(* A card is identified at 400 kHz only; CMD0 has no answer to miss.       *)
Answered(cmd) ==
  /\ HostReady
  /\ cmd \in {"CMD0", "CMD8", "CMD55", "ACMD41", "CMD2", "CMD3"} => mmc.hz = "400k"
  /\ cmd = "CMD0" \/ Answers(card, cmd, Arg(cmd))
CardHears(cmd) == Answers(card, cmd, Arg(cmd)) /\ HostReady

Succeeds(cmd) ==
  /\ "cmd" \notin mmc.wedged /\ Answered(cmd)
  /\ card' = IF CardHears(cmd) THEN Accepted(card, cmd) ELSE card
  /\ mmc' = [mmc EXCEPT !.rsp = Response(card, cmd)]
  /\ UNCHANGED faults
NotAnswered(cmd) ==
  /\ "cmd" \in mmc.wedged \/ ~Answered(cmd)
  /\ UNCHANGED <<card, mmc, faults>>
AnswerLost(cmd) ==
  /\ "cmd" \notin mmc.wedged /\ Answered(cmd) /\ cmd \in LostResponses
  /\ faults < MAX_FAULTS /\ faults' = faults + 1
  /\ card' = Accepted(card, cmd)
  /\ UNCHANGED mmc

Untouched == <<odd, medium, calls, hw, cpu, disk, buf, disp>>

mmc_send_cmd(o) ==
  /\ o.op = "send"
  /\ Succeeds(o.x) \/ NotAnswered(o.x) \/ AnswerLost(o.x)
  /\ Onward
  /\ UNCHANGED <<prog, Untouched>>

(* The operating-condition loop: CMD55, ACMD41, until the card is ready or *)
(* the tries are used up; either way the identification goes on.  When the *)
(* answer "ready" is lost the card no longer answers CMD55 and the driver  *)
(* never learns the kind of the card (prog.heard stays FALSE).             *)
Goto(d) == frames' = [frames EXCEPT ![Len(frames)].pc = @ + d] /\ UNCHANGED <<mode, ret>>
TryAgain_uncounted(o) ==
  /\ o.op = "try"
  /\ IF prog.tries = ACMD41_TRIES THEN Goto(3) ELSE Goto(1)
  /\ UNCHANGED <<prog, mmc, card, faults, Untouched>>
TryAgain(o) ==
  /\ o.op = "try"
  /\ IF prog.tries = ACMD41_TRIES THEN Goto(3) /\ UNCHANGED prog
     ELSE Goto(1) /\ prog' = [prog EXCEPT !.tries = @ + 1]
  /\ UNCHANGED <<mmc, card, faults, Untouched>>
AppCommand(o) ==
  /\ o.op = "app"
  /\ \/ Succeeds(o.x) /\ Goto(1)
     \/ NotAnswered(o.x) /\ Goto(-1)
     \/ AnswerLost(o.x) /\ Goto(-1)
  /\ UNCHANGED <<prog, Untouched>>
OperatingCondition(o) ==
  /\ o.op = "opcond"
  /\ \/ Succeeds(o.x) /\ Response(card, o.x) = "busy" /\ Goto(-2) /\ UNCHANGED prog
     \/ /\ Succeeds(o.x) /\ Response(card, o.x) # "busy" /\ Goto(1)
        /\ prog' = [prog EXCEPT !.heard = TRUE, !.sdhc = @ \/ Response(card, o.x) = "ccs"]
     \/ AnswerLost(o.x) /\ Goto(-2) /\ UNCHANGED prog
  /\ UNCHANGED Untouched

(* Every initialisation error path before a transfer is a wait that gives  *)
(* up; Read enters the transfer with the partition's sector for -1.        *)
ReadSectors(o) ==
  /\ o.op = "read"
  /\ Enter(IF InKernel THEN "mmc_read_sectors" ELSE "loader_read_sectors",
           <<"", IF o.x[1] = -1 THEN prog.part ELSE o.x[1], o.x[2]>>)
  /\ buf' = <<>>
  /\ UNCHANGED <<rest, hw, cpu, mmc, card, disk, prog, disp>>

(* The contents of a sector: its own number until it is written.           *)
Contents(s) == IF s \in DOMAIN disk THEN disk[s] ELSE s

(* The next sector of the transfer and how it is addressed: in bytes       *)
(* unless the card was found to be an SDHC card.                           *)
Next_sector == Top.a[2] + Len(buf)
Argument_bytes == Next_sector * SECTOR
Argument == IF prog.sdhc THEN Next_sector ELSE Next_sector * SECTOR

EachSector(o) ==
  /\ o.op = "each"
  /\ IF Len(buf) = Top.a[3] THEN Leave("ok") ELSE Onward
  /\ UNCHANGED <<hw, Others>>

Reset(cmd) == IF cmd = "CMD24" THEN {} ELSE {"cmd"}
StartTransfer(o) ==
  /\ o.op = "start"
  /\ LET heard == /\ HostReady /\ mmc.wedged = {}
                  /\ Answers(card, o.x, "0") /\ Addressable(card, Argument) IN
     \/ /\ heard /\ Onward /\ UNCHANGED <<mmc, faults>>
     \/ /\ ~heard /\ mmc.wedged = {} /\ Failing(o.e)
        /\ mmc' = [mmc EXCEPT !.wedged = Reset(o.x)] /\ UNCHANGED faults
     \/ /\ mmc.wedged # {} /\ Failing(o.e) /\ UNCHANGED <<mmc, faults>>
     \/ /\ heard /\ faults < MAX_FAULTS /\ faults' = faults + 1 /\ Failing(o.e)
        /\ mmc' = [mmc EXCEPT !.wedged = Reset(o.x)]
  /\ UNCHANGED <<odd, medium, calls, hw, cpu, card, disk, prog, buf, disp>>

(* A read fills the buffer; a write puts the task's words on the wire.     *)
DataPhase(o) ==
  /\ o.op = "data"
  /\ \/ /\ Onward /\ UNCHANGED <<mmc, faults>>
        /\ buf' = IF o.x = "CMD17" THEN Append(buf, Contents(SectorOf(card, Argument))) ELSE buf
     \/ /\ faults < MAX_FAULTS /\ faults' = faults + 1 /\ Failing(o.e)
        /\ mmc' = [mmc EXCEPT !.wedged = {"dat"}] /\ UNCHANGED buf
  /\ UNCHANGED <<odd, medium, calls, hw, cpu, card, disk, prog, disp>>

(* Transfer complete: the written sector is on the card.  When the         *)
(* completion is missed it may be, may not be, or may be torn.             *)
TORN == -100
Done(o) ==
  /\ o.op = "done"
  /\ \/ /\ frames' = [frames EXCEPT ![Len(frames)].pc = 1] /\ UNCHANGED <<mode, ret, mmc, faults>>
        /\ IF o.x = "CMD17" THEN UNCHANGED <<disk, buf>>
           ELSE /\ disk' = (SectorOf(card, Argument) :> -calls) @@ disk
                /\ buf' = Append(buf, Next_sector)
     \/ /\ faults < MAX_FAULTS /\ faults' = faults + 1 /\ Failing(o.e)
        /\ mmc' = [mmc EXCEPT !.wedged = {"dat"}] /\ UNCHANGED buf
        /\ IF o.x = "CMD17" THEN UNCHANGED disk
           ELSE \E v \in {Contents(SectorOf(card, Argument)), -calls, TORN} :
                  disk' = (SectorOf(card, Argument) :> v) @@ disk
  /\ UNCHANGED <<odd, medium, calls, hw, cpu, card, prog, disp>>

(* The tests on what was read, or on what the board reports.  Of the       *)
(* kernel only the first word is looked at: a branch, or a load of pc.     *)
Holds(x) ==
  CASE x = "ddr" -> medium.ddr
    [] x = "magic" -> buf[1] \in medium.vectors
    [] x = "signature" -> medium.signed /\ buf = <<0>>
    [] x = "fat32" -> medium.lba # 0
    [] x = "bpb" -> buf[1] \in medium.bpbs
    [] x = "cpsw_clock" -> "CPSW" \in hw.on
    [] x = "mmc0" -> "block_register" \in prog.facts
    [] x = "procfs" -> "mount_/proc" \in prog.facts
Test(o) ==
  /\ o.op = "check"
  /\ IF Holds(o.x) THEN Onward ELSE Failing(o.e)
  /\ prog' = IF Holds(o.x) THEN [prog EXCEPT !.facts = @ \cup {o.x}] ELSE prog
  /\ UNCHANGED <<rest, hw, cpu, mmc, card, disk, buf, disp>>

-----------------------------------------------------------------------------
(* The task: block_read and block_write on mmc0, one call at a time.       *)
Transfer ==
  /\ mode = "run" /\ frames = <<>> /\ ret = "none" /\ calls < MAX_CALLS
  /\ odd.kind = "none"
  /\ \E f \in {"mmc_read_sectors", "mmc_write_sectors"}, s \in Sectors, n \in 1 .. 2 :
       frames' = <<Frame(f, <<"", s, n>>)>>
  /\ calls' = calls + 1 /\ buf' = <<>>
  /\ UNCHANGED <<mode, ret, odd, medium, faults, hw, cpu, mmc, card, disk, prog, disp>>

Init ==
  /\ mode = "boot" /\ frames = <<Frame("start", NoArgs)>> /\ ret = "none"
  /\ odd \in Oddities /\ medium \in Media
  /\ odd.kind # "none" => medium.typical
  /\ hw = [on |-> {"CM", "CTRL", "WDT1", "INTC", "FB", "USER"}, req |-> {}, wdt |-> "armed",
           timer |-> "off", handlers |-> {}, unmasked |-> {}]
  /\ cpu = [mmu |-> FALSE, pgd |-> <<>>, vbar |-> "rom", sp |-> "sram", pc |-> "sram"]
  /\ mmc = HostOff /\ card = FreshCard(medium.kind) /\ disk = <<>> /\ buf = <<>>
  /\ \E junk \in BOOLEAN :
       prog = [sdhc |-> junk, rca |-> "none", tries |-> 0, heard |-> FALSE, part |-> 0, devices |-> {},
               drivers |-> {}, bound |-> {}, facts |-> {}, entered |-> FALSE]
  /\ disp = [page |-> 0, cached |-> 255, regs |-> <<>>, reset |-> medium.reset, acc |-> 0,
             raster |-> FALSE, timing |-> <<>>]
  /\ faults = 0 /\ calls = 0

(* One statement.                                                          *)
Statement(o) ==
  \/ WaitEnds(o) \/ WaitGivesUp(o) \/ WaitMissed(o) \/ WaitMistaken(o) \/ Talks(o)
  \/ ClockRequest(o)
  \/ CallFunction(o) \/ bus_add_driver(o) \/ irq_register_handler(o) \/ intc_enable_irq(o)
  \/ Step_do(o) \/ JumpKernel(o) \/ SchedulerStart(o) \/ ReturnFail(o) \/ SkipPage(o) \/ Modify(o)
  \/ I2cTransaction(o)
  \/ mmc_send_cmd(o) \/ TryAgain(o) \/ AppCommand(o) \/ OperatingCondition(o)
  \/ ReadSectors(o) \/ EachSector(o) \/ StartTransfer(o) \/ DataPhase(o) \/ Done(o) \/ Test(o)

(* The processor's steps, each of which moves control; the task's calls    *)
(* are not forced.                                                         *)
Execute == Running /\ ~Ended /\ Legal /\ \E o \in {Now} : Statement(o)
Step == Execute \/ Return \/ Resume

Next == Step \/ Transfer
Spec == Init /\ [][Next]_vars /\ WF_ctl(Step)

-----------------------------------------------------------------------------
(* No step of the start-up touches a module whose clock is not running or  *)
(* an address that is not mapped at that point: not the frame buffer after *)
(* mmu_init has dropped the identity map it lay in, not the stack between  *)
(* mmu_enable and the jump to high addresses.                              *)
NoBootAbort == (Running /\ ~Ended) => Legal

(* The sector of the card that a transfer of sector s moves: s itself,     *)
(* except on an SDHC card whose answer "ready" the driver has not heard.   *)
(* Then mmc_init has gone on with sdhc_card = 0, and the byte address      *)
(* 512 * s is taken by the card for the number of a sector.                *)
Unheard == card.kind = "SDHC" /\ ~prog.heard
Reached(s) == IF Unheard THEN s * SECTOR ELSE s

(* When the loader jumps, the watchdog no longer runs, the memory it jumps *)
(* into has passed ddr_test and holds, in their order, all the sectors     *)
(* that a transfer from KERNEL_START_SECTOR reaches, and the first word is *)
(* a branch or a load of pc.  Nothing more was tested: an image that only  *)
(* begins like a kernel is entered as well.  A kernel that is on the card  *)
(* is what runs, unless the card's answer "ready" was lost.                *)
KernelEntrySound ==
  (mode = "lost" \/ (frames # <<>> /\ Top.f = "reset_handler" /\ Top.pc = 1)) =>
    /\ hw.wdt = "off"
    /\ medium.ddr /\ {"core_m5", "emif_config"} \subseteq prog.facts
    /\ buf = [i \in 1 .. KERNEL_SIZE_SECTORS |-> Reached(KERNEL_START_SECTOR + i - 1)]
    /\ buf[1] \in medium.vectors
    /\ (mode = "lost") = (~medium.kernel \/ Unheard)

(* Every sector mmc_read_sectors or mmc_write_sectors (and the loader's)   *)
(* has moved so far is the sector the caller asked for, on either kind of  *)
(* card and whatever was lost during the identification, with the one      *)
(* exception Reached names; a write touches no other sector of the card.   *)
Transferring == frames # <<>> /\ Top.f \in DOMAIN Transfers
TransfersSound ==
  /\ Transferring /\ Top.pc = 1 =>
       \A i \in 1 .. Len(buf) :
         LET s == Top.a[2] + i - 1 IN
         IF Top.f = "mmc_write_sectors" THEN buf[i] = s /\ Contents(Reached(s)) = -calls
         ELSE buf[i] = Contents(Reached(s))
  /\ DOMAIN disk \subseteq {Reached(s) : s \in UNION {s .. s + 1 : s \in Sectors}}

(* When the scheduler starts, exactly the lines whose handlers are         *)
(* registered are unmasked, every device of the board has its driver, the  *)
(* timer ticks, the vectors are the high ones, nothing is mapped at the    *)
(* physical addresses any more, and an address space made by mmu_new_pgd   *)
(* maps every device the kernel touches.                                   *)
ReadyAtStart ==
  (mode = "run") =>
    /\ hw.handlers = {UART0_IRQ, TIMER2_IRQ} /\ hw.unmasked = hw.handlers
    /\ hw.timer = "tick" /\ hw.wdt = "off"
    /\ cpu.vbar = "va" /\ cpu.sp = "va" /\ cpu.pc = "va"
    /\ prog.bound = prog.devices /\ prog.part = medium.lba
    /\ Entry(cpu.pgd, KERNEL_PA)[1] = "fault"
    /\ \A m \in DOMAIN SectionOf \ {"USER", "EMIF"} :
         LET s == SectionOf[m] IN
         /\ mmu_new_pgd(cpu.pgd, s) = Entry(cpu.pgd, s)
         /\ Entry(cpu.pgd, s) \in {<<"dev", s>>, <<"fb", s>>}

(* What the boot loader hands to the kernel and the kernel to its tasks is *)
(* complete: KernelEntrySound at the jump, ReadyAtStart at the scheduler.  *)
HandOversSound == KernelEntrySound /\ ReadyAtStart

(* The picture: the raster the LCD controller sends is the one the framer  *)
(* was told to expect (totals, sync pulses, windows), the output is on     *)
(* with its InfoFrame, whose bytes sum to 0 modulo 256, and the pixel      *)
(* clock draws about 60 frames a second.  All of it through the page       *)
(* register and its cached copy, whatever the registers held before.       *)
Tda(page, addr) ==
  LET r == TDA_MKREG(page, addr) IN IF r \in DOMAIN disp.regs THEN disp.regs[r] ELSE disp.reset
Tda16(addr) == Tda(0, addr) * 256 + Tda(0, addr + 1)
DisplayAgrees ==
  (mode = "run" /\ odd.kind = "none") =>
    LET m == RasterMode(disp.timing)
        htotal == m.width + m.hfp + m.hsw + m.hbp
        vtotal == m.height + m.vfp + m.vsw + m.vbp IN
    /\ disp.raster
    /\ Tda16(165) = htotal /\ Tda16(167) = vtotal
    /\ Tda16(185) = m.hfp /\ Tda16(187) - Tda16(185) = m.hsw
    /\ Tda16(169) = m.vfp /\ Tda16(173) - Tda16(169) = m.vsw
    /\ Tda16(199) - Tda16(197) = m.width /\ Tda16(191) - Tda16(189) = m.height
    /\ PALETTE_SIZE + FB_SIZE <= FB_MB * 2^20
    /\ PixelClock \div (htotal * vtotal) = 60
    /\ ~Bit(Tda(0, 203), 64) /\ ~Bit(Tda(0, 202), 64) /\ ~Bit(Tda(0, 202), 128)
    /\ Bit(Tda(18, 184), 2) /\ Bit(Tda(17, 15), 2) /\ Bit(Tda(0, 13), 1) /\ ~Bit(Tda(0, 1), 1)
    /\ FoldFunction(+, 0, [i \in 0 .. 16 |-> Tda(16, 64 + i)]) % 256 = 0

(* The start-up always ends: in running tasks, in one of its named halts   *)
(* or in a jump to what is not the kernel, with any card, any answer lost, *)
(* any event missing that is waited for with a bound; otherwise it is the  *)
(* unbounded wait for a dead event.                                        *)
WaitsForEver ==
  /\ Running /\ ~Ended
  /\ \/ Now.op = "until" /\ Dead(Now.x)
     \/ Now.op = "say" /\ Dead(<<"uart", "tx">>)
BootEnds == <>(mode \in {"run", "stop", "lost"} \/ WaitsForEver)
=============================================================================
