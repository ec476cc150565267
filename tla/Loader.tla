------------------------------- MODULE Loader -------------------------------
(***************************************************************************)
(* The boot loader (bootloader/src), function by function: from the reset  *)
(* entry _start that the ROM code jumps to, to the jump into the kernel.   *)
(***************************************************************************)
EXTENDS BootOps

CONSTANT KERNEL_SIZE_SECTORS    \* sectors of the kernel image (2048)

KERNEL_START_SECTOR == 2048

ASSUME LoaderAssumption == KERNEL_SIZE_SECTORS \in Nat \ {0}

(* start.S: stacks of every mode, then the first watchdog sequence (its    *)
(* second write is not waited for), then VBAR, then .bss.                  *)
start ==
  <<Do("stacks"), Reg("WDT1"), Do("wdt_aaaa"), Until(<<"wdt", "wspr">>), Do("wdt_5555"),
    Do("vbar_loader"), Do("bss"), Call("bootloader_main", "stop")>>

uart_flush == <<Until(<<"uart", "tx">>)>>

(* The receive FIFO is drained by at most 16 reads, then the divisor, the  *)
(* line format and the mode are written.                                   *)
loader_uart_init ==
  <<Enable("UART0"), UntilClock("UART0"), Reg("CTRL"), Reg("UART0"), Until(<<"uart", "tx">>)>>

config_ddr_pll ==
  <<Within(<<"cm", "ddr_bypass">>, "on"), Within(<<"cm", "ddr_lock">>, "on")>>

(* The last statement forces the 125 MHz output that MDIO needs.           *)
enable_peripheral_clocks ==
  <<Enable("EMIF"), UntilClock("EMIF"), Enable("MMC0"), UntilClock("MMC0"),
    Enable("UART0"), UntilClock("UART0"), Do("core_m5")>>

clock_init == <<Call("config_ddr_pll", "on"), Call("enable_peripheral_clocks", "on")>>

(* VTP calibration is polled with a bound and the result is not looked at. *)
ddr_init ==
  <<Say, Reg("CTRL"), Within(<<"ctrl", "vtp">>, "on"), Say, Reg("CTRL"), Reg("EMIF"),
    Do("emif_config"), Say, Reg("EMIF")>>

(* Both patterns over 1024 words: fails when any word reads back wrong.    *)
ddr_test_once == <<Say, Say, Say>>
ddr_test == <<Say, Check("ddr", "fail"), Say, Check("ddr", "fail"), Say>>

(* Controller reset, lines reset, voltage before power, 400 kHz, 80 clocks,*)
(* then the identification commands: only the operating-condition loop     *)
(* looks at what a command returned.                                       *)
HostUp ==
  <<Reg("MMC0"), Do("mmc_reset"), Within(<<"mmc", "reset">>, "fail"),
    Do("mmc_lines"), Within(<<"mmc", "lines">>, "fail"),
    Do("mmc_volt"), Do("mmc_power"), Within(<<"mmc", "power">>, "fail"),
    Do("mmc_400k"), Within(<<"mmc", "ics">>, "fail"), Do("mmc_cen"), Do("mmc_ie"),
    Do("mmc_80clk"), Within(<<"mmc", "cc0">>, "fail"), Do("mmc_80end")>>
Identify ==
  <<Send("CMD0"), Send("CMD8"), Do("opcond_start"), Op("try", "", "on"),
    Op("app", "CMD55", "on"), Op("opcond", "ACMD41", "on"), Send("CMD2"), Send("CMD3"), Do("take_rca"),
    Send("CMD9"), Send("CMD7")>>
FullSpeed ==
  <<Do("mmc_cen_off"), Do("mmc_24m"), Within(<<"mmc", "ics24">>, "fail"), Do("mmc_cen"),
    Send("CMD16")>>

loader_mmc_init == <<Say, Reg("CTRL")>> \o HostUp \o Identify \o FullSpeed

(* The order of the stages is the order of the comments STAGE 0 .. 8.      *)
bootloader_main ==
  <<Do("interconnect"), Enable("GPIO1"), Do("pause_GPIO1"), Reg("GPIO1"),
    Reg("WDT1"), Do("wdt_aaaa"), Until(<<"wdt", "wspr">>), Do("wdt_5555"), Until(<<"wdt", "wspr">>),
    Call("loader_uart_init", "on"), Say, Call("clock_init", "on"), Say,
    Call("ddr_init", "on"), Say, Call("ddr_test", "stop"), Say,
    Call("loader_mmc_init", "stop"), Say,
    Read(KERNEL_START_SECTOR, KERNEL_SIZE_SECTORS, "stop"), Say,
    Check("magic", "stop"), Say, Call("uart_flush", "on"), Do("jump_kernel")>>

LoaderCode ==
  [start |-> start, bootloader_main |-> bootloader_main, uart_flush |-> uart_flush,
   loader_uart_init |-> loader_uart_init, clock_init |-> clock_init,
   config_ddr_pll |-> config_ddr_pll, enable_peripheral_clocks |-> enable_peripheral_clocks,
   ddr_init |-> ddr_init, ddr_test |-> ddr_test, loader_mmc_init |-> loader_mmc_init]
=============================================================================
