------------------------------- MODULE Bringup ------------------------------
(***************************************************************************)
(* The kernel's start-up, function by function: reset_handler and entry,   *)
(* kernel_main and the initialisation of the drivers it calls.             *)
(***************************************************************************)
EXTENDS Loader, Display, TLC

(* The section numbers (address / 1 MB) of the platform's memory map.      *)
KERNEL_VA == 3072          \* 0xC0000000
KERNEL_PA == 2048          \* 0x80000000
KERNEL_DDR_MB == 5
USER_VA == 1024            \* 0x40000000
POOL_VA == 3088            \* 0xC1000000
POOL_PA == 2064            \* 0x81000000
POOL_MB == 112
FB_PA == 2056              \* 0x80800000
FB_MB == 4
IDENTITY_MB == 128
L4_WKUP == 1102            \* 0x44E00000
L4_PER == 1152             \* 0x48000000
L4_PER_SECTIONS == 4
CPSW == 1185               \* 0x4A100000

(* The section in which the registers of each module lie.                  *)
SectionOf ==
  [CM |-> 1102, UART0 |-> 1102, I2C0 |-> 1102, CTRL |-> 1102, WDT1 |-> 1102,
   TIMER2 |-> 1152, MMC0 |-> 1152, GPIO1 |-> 1152, INTC |-> 1154, LCDC |-> 1155,
   CPSW |-> 1185, FB |-> 2056, EMIF |-> 1216, USER |-> 1024]

(* A run of page-table entries written by one loop.                        *)
Map(va, pa, n, attr) == [va |-> va, pa |-> pa, n |-> n, attr |-> attr]

(* mmu_build_page_table_boot: the identity map of the whole DDR is written *)
(* last, over the frame buffer's own entries.                              *)
mmu_build_page_table_boot ==
  <<Map(L4_WKUP, L4_WKUP, 1, "dev"), Map(L4_PER, L4_PER, L4_PER_SECTIONS, "dev"),
    Map(CPSW, CPSW, 1, "dev"), Map(FB_PA, FB_PA, FB_MB, "fb"),
    Map(USER_VA, KERNEL_PA + KERNEL_DDR_MB, 1, "user"),
    Map(KERNEL_VA, KERNEL_PA, KERNEL_DDR_MB, "kernel"),
    Map(POOL_VA, POOL_PA, POOL_MB, "kernel"),
    Map(KERNEL_PA, KERNEL_PA, IDENTITY_MB, "kernel")>>

(* The entry of section s is what the last loop over it wrote, or a fault. *)
Covers(w, s) == s >= w.va /\ s < w.va + w.n
Decides(pgd, i, s) == Covers(pgd[i], s) /\ \A j \in i + 1 .. Len(pgd) : ~Covers(pgd[j], s)
IsMapped(pgd, s) == \E i \in 1 .. Len(pgd) : pgd[i].attr # "fault" /\ Decides(pgd, i, s)
Entry(pgd, s) ==
  IF ~IsMapped(pgd, s) THEN <<"fault", 0>>
  ELSE LET w == pgd[CHOOSE i \in 1 .. Len(pgd) : Decides(pgd, i, s)] IN
       <<w.attr, w.pa + (s - w.va)>>

(* mmu_init, first half: the identity map goes, the frame buffer returns.  *)
unmap_identity_all(pgd) == Append(pgd, Map(KERNEL_PA, 0, IDENTITY_MB, "fault"))
unmap_identity(pgd) ==
  pgd \o <<Map(KERNEL_PA, 0, IDENTITY_MB, "fault"), Map(FB_PA, FB_PA, FB_MB, "fb")>>

(* mmu_new_pgd: the entry of section s in a fresh address space made from  *)
(* the kernel's table: the kernel half and the listed device sections.     *)
mmu_new_pgd_no_cpsw(pgd, s) ==
  IF \/ s >= KERNEL_VA
     \/ s = L4_WKUP
     \/ s \in L4_PER .. L4_PER + L4_PER_SECTIONS - 1
     \/ s \in FB_PA .. FB_PA + FB_MB - 1
  THEN Entry(pgd, s) ELSE <<"fault", 0>>
mmu_new_pgd(pgd, s) ==
  IF \/ s >= KERNEL_VA
     \/ s = L4_WKUP
     \/ s \in L4_PER .. L4_PER + L4_PER_SECTIONS - 1
     \/ s \in FB_PA .. FB_PA + FB_MB - 1
     \/ s = CPSW
  THEN Entry(pgd, s) ELSE <<"fault", 0>>

-----------------------------------------------------------------------------
reset_handler == <<Do("stacks_pa"), Do("vbar_pa"), Call("entry", "stop")>>

(* mmu_enable returns at the physical address, through the identity map.   *)
entry == <<Do("bss"), Do("build_table"), Do("mmu_enable"), Do("stacks_va"), Do("jump_high"),
           Call("kernel_main", "stop")>>

mmu_init == <<Do("unmap_identity"), Do("vbar_va"), Say>>

watchdog_disable ==
  <<Enable("WDT1"), UntilClock("WDT1"), Reg("WDT1"), Do("wdt_aaaa"), Until(<<"wdt", "wspr">>),
    Do("wdt_5555"), Until(<<"wdt", "wspr">>)>>

(* The bus: devices first, in the order of bbb_devices, then each driver.  *)
bbb_devices == <<"omap-uart", "omap-intc", "omap-dmtimer", "omap-hsmmc">>
BUS_MAX_DEVICES == 16
BUS_MAX_DRIVERS == 16
platform_init == <<Do("bus_register"), Do("add_devices")>>

omap_uart_probe == <<Say, Do("uart_ring")>>
omap_intc_probe == <<Say, Reg("INTC"), Do("intc_init")>>
omap_hsmmc_probe == <<Say, Call("mmc_init", "fail"), Do("block_register")>>
omap_dmtimer_probe == <<Say, Call("timer_init", "on")>>
Probe == ("omap-uart" :> "omap_uart_probe" @@ "omap-intc" :> "omap_intc_probe" @@
          "omap-dmtimer" :> "omap_dmtimer_probe" @@ "omap-hsmmc" :> "omap_hsmmc_probe")

(* An error while the PHY is looked for only loses the network.            *)
mdio_init ==
  <<Enable("CPSW"), ClockWithin("CPSW", "fail"), Reg("CTRL"), Reg("CPSW"),
    Within(<<"mdio", "alive">>, "on"), Say>>

(* The switch is left alone unless the clock domain reports its clocks;    *)
(* each reset is waited for with a bound, and a timeout ends cpsw_init.    *)
cpsw_clock_verify == <<Check("cpsw_clock", "fail")>>
cpsw_pinmux_init == <<Reg("CTRL"), Say>>
cpsw_ss_reset == <<Reg("CPSW"), Within(<<"cpsw", "ss_reset">>, "fail"), Reg("CPSW"), Say>>
cpsw_cpdma_init == <<Reg("CPSW"), Within(<<"cpsw", "cpdma_reset">>, "fail"), Reg("CPSW"), Say>>
cpsw_mac_init == <<Reg("CPSW"), Within(<<"cpsw", "mac_reset">>, "fail"), Reg("CPSW"), Say>>
cpsw_ale_init == <<Reg("CPSW"), Say>>
cpsw_bd_init == <<Reg("CPSW"), Say, Reg("CPSW"), Say>>
cpsw_init ==
  <<Say, Call("cpsw_clock_verify", "fail"), Call("cpsw_pinmux_init", "on"),
    Call("cpsw_ss_reset", "fail"), Call("cpsw_cpdma_init", "fail"), Call("cpsw_mac_init", "fail"),
    Call("cpsw_ale_init", "on"), Call("cpsw_bd_init", "on"), Reg("CPSW"), Say>>

UART0_IRQ == 72
TIMER2_IRQ == 68
MAX_IRQS == 128

uart_enable_rx_interrupt ==
  <<Enable("UART0"), UntilClock("UART0"), Reg("UART0"), Handler(UART0_IRQ), Reg("INTC"),
    Unmask(UART0_IRQ)>>

mmc_enable_clocks == <<Enable("MMC0"), ClockWithin("MMC0", "fail")>>
mmc_init ==
  <<Say, Call("mmc_enable_clocks", "fail"), Reg("CTRL")>> \o HostUp \o Identify \o FullSpeed
  \o <<Say>>

(* read sector 0, check its signature, take the first FAT32 entry.         *)
mbr_find_fat32 ==
  <<Say, Read(0, 1, "fail"), Check("signature", "fail"), Check("fat32", "fail"), Do("take_lba")>>

(* block_find, then the boot sector of the partition (parse_bpb); the rest *)
(* of the mount is module Fat32.                                           *)
fat32_init == <<Say, Check("mmc0", "fail"), Read(-1, 1, "fail"), Check("bpb", "fail")>>

(* The counter free-running from 0, every wait unbounded.                  *)
timer_early_init ==
  <<Until(<<"cm", "timer2_source">>), Enable("TIMER2"), UntilClock("TIMER2"), Reg("TIMER2"),
    Until(<<"timer", "reset">>), Do("timer_free")>>

timer2_clock_enable ==
  <<Sloppy(<<"cm", "l4ls">>, "stop"), Enable("TIMER2"), ClockWithin("TIMER2", "stop")>>

(* Reload for 10 ms at 24 MHz, handler, unmask, start.                     *)
timer_init ==
  <<Call("timer2_clock_enable", "on"), Reg("TIMER2"), Sloppy(<<"timer", "reset">>, "stop"),
    Do("timer_stop"), Within(<<"timer", "posted">>, "on"), Handler(TIMER2_IRQ), Reg("INTC"),
    Unmask(TIMER2_IRQ), Within(<<"timer", "posted">>, "on"), Do("timer_tick"), Say>>

(* The boot log and the splash draw into the frame buffer and pause on the *)
(* timer between their parts; the home screen is drawn at once.            *)
show_boot_log == <<Reg("FB"), DelayMs, Reg("FB"), DelayMs>>
show_splash == <<Reg("FB"), DelayMs, Reg("FB"), DelayMs>>
show_home == <<Reg("FB")>>
boot_screen_run == <<Call("show_boot_log", "on"), Call("show_splash", "on"), Call("show_home", "on")>>

(* bread of sector 8192 (the second read hits the cache), then /proc.      *)
selftest_run_all == <<Check("mmc0", "stop"), Read(8192, 1, "stop"), Check("procfs", "stop")>>

kernel_main ==
  <<Call("watchdog_disable", "on"), Call("platform_init", "on"), AddDriver("omap-uart", "on"), Say,
    Call("mmu_init", "on"), Call("mdio_init", "on"), Call("cpsw_init", "on"), Do("netcore_init"),
    Do("page_alloc_init"), Do("slab_init"), Do("vmm_init"), Do("sync_selftest"),
    Call("i2c_init", "on"), Call("i2c_scan", "on"), Call("lcdc_init", "on"),
    Call("lcdc_start_raster", "on"), Call("tda19988_init", "on"), Do("fb_init"),
    AddDriver("omap-intc", "on"), Do("irq_init"), Call("uart_enable_rx_interrupt", "on"), Say,
    Do("bcache_init"), Do("vfs_init"), AddDriver("omap-hsmmc", "stop"),
    Call("mbr_find_fat32", "stop"), Call("fat32_init", "stop"),
    Do("mount_/"), Do("mount_/dev"), Do("mount_/proc"), Say, Reg("USER"), Do("payload"), Say,
    Do("scheduler_init"), Do("add_idle"), Do("add_init"), Say,
    Call("timer_early_init", "on"), Call("boot_screen_run", "on"),
    AddDriver("omap-dmtimer", "on"), Call("selftest_run_all", "stop"), Say,
    Do("irq_enable"), Do("scheduler_start")>>
KernelCode ==
  [reset_handler |-> reset_handler, entry |-> entry, kernel_main |-> kernel_main,
   mmu_init |-> mmu_init, watchdog_disable |-> watchdog_disable, platform_init |-> platform_init,
   omap_uart_probe |-> omap_uart_probe, omap_intc_probe |-> omap_intc_probe,
   omap_hsmmc_probe |-> omap_hsmmc_probe, omap_dmtimer_probe |-> omap_dmtimer_probe,
   mdio_init |-> mdio_init, cpsw_init |-> cpsw_init,
   cpsw_clock_verify |-> cpsw_clock_verify, cpsw_pinmux_init |-> cpsw_pinmux_init,
   cpsw_ss_reset |-> cpsw_ss_reset, cpsw_cpdma_init |-> cpsw_cpdma_init,
   cpsw_mac_init |-> cpsw_mac_init, cpsw_ale_init |-> cpsw_ale_init,
   cpsw_bd_init |-> cpsw_bd_init,
   uart_enable_rx_interrupt |-> uart_enable_rx_interrupt,
   mmc_enable_clocks |-> mmc_enable_clocks, mmc_init |-> mmc_init,
   mbr_find_fat32 |-> mbr_find_fat32, fat32_init |-> fat32_init,
   timer_early_init |-> timer_early_init, timer2_clock_enable |-> timer2_clock_enable,
   timer_init |-> timer_init, show_boot_log |-> show_boot_log, show_splash |-> show_splash,
   show_home |-> show_home, boot_screen_run |-> boot_screen_run,
   selftest_run_all |-> selftest_run_all]
=============================================================================
