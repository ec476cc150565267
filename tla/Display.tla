------------------------------- MODULE Display ------------------------------
(***************************************************************************)
(* The graphics half of kernel_main: the I2C master, the LCD controller    *)
(* and the TDA19988 HDMI framer, function by function in the vocabulary of *)
(* BootOps, and the encoding of the raster timing registers.               *)
(***************************************************************************)
EXTENDS BootOps

CONSTANT Scanned        \* the addresses i2c_scan probes (0x08 .. 0x77), in order

(* A call with arguments: the register, the bits or the value it is given. *)
With(f, reg, v) == Op("with", <<f, reg, v>>, "on")

(* The poll "while (cond && timeout--); if (!timeout) e": when the         *)
(* condition never comes the counter has wrapped and the test misses it;   *)
(* when it comes at the very last poll the test takes it for a timeout.    *)
Sloppy(c, e) == Op("sloppy", c, e)

-----------------------------------------------------------------------------
(* I2C (i2c.c).  Every failed transaction is flushed before -1 is returned.*)

i2c_flush == <<Reg("I2C0")>>
i2c_fail == <<Call("i2c_flush", "on"), Do("return_fail")>>
i2c_wait_bus_free == <<Sloppy(<<"i2c", "free">>, "fail")>>

i2c_init ==
  <<Say, Reg("CTRL"), Enable("I2C0"), Sloppy(<<"clk", "I2C0">>, "fail"), Say, Reg("I2C0"),
    Sloppy(<<"i2c", "reset">>, "fail"), Say, Reg("I2C0"), Say>>

i2c_write_reg ==
  <<Call("i2c_wait_bus_free", "flush"), Within(<<"i2c", "ack">>, "flush"),
    Within(<<"i2c", "ack">>, "flush"), Within(<<"i2c", "ardy">>, "flush"), Do("i2c_deliver")>>

i2c_read_reg ==
  <<Call("i2c_wait_bus_free", "flush"), Within(<<"i2c", "ack">>, "flush"),
    Within(<<"i2c", "ardy">>, "flush"), Within(<<"i2c", "rrdy">>, "flush"), Do("i2c_fetch"),
    Within(<<"i2c", "ardy">>, "on")>>

(* One address of the scan: whatever happens the module is flushed.        *)
scan_one ==
  <<Call("i2c_wait_bus_free", "flush"), Within(<<"i2c", "ack">>, "flush"),
    Within(<<"i2c", "ardy">>, "on"), Call("i2c_flush", "on")>>
i2c_scan == <<Say>> \o [i \in 1 .. Len(Scanned) |-> With("scan_one", Scanned[i], 0)] \o <<Say>>

-----------------------------------------------------------------------------
(* TDA19988 (tda19988.c): registers are paged; the driver remembers which  *)
(* page it selected last.                                                  *)

TDA_MKREG(page, addr) == page * 256 + addr
TDA_PAGE(reg) == reg \div 256
TDA_ADDR(reg) == reg % 256

(* The page register is written only when the page changes; the cached     *)
(* page is updated whether or not the write got through.                   *)
tda_set_page_once == <<Do("skip_if_page"), Do("note_page")>>
tda_set_page == <<Do("skip_if_page"), Op("i2c_page", "TDA", "on"), Do("note_page")>>

tda_write == <<Call("tda_set_page", "on"), Op("i2c_data", "TDA", "fail")>>
tda_read == <<Call("tda_set_page", "on"), Op("i2c_get", "TDA", "fail")>>

(* Read-modify-write: a failed read leaves the zero the value started with.*)
tda_set == <<Do("acc_zero"), Call("tda_read", "on"), Do("acc_set"), Call("tda_write", "on")>>
tda_clear == <<Do("acc_zero"), Call("tda_read", "on"), Do("acc_clear"), Call("tda_write", "on")>>

W(page, rows) == [i \in 1 .. Len(rows) |->
                    With("tda_write", TDA_MKREG(page, rows[i][1]), rows[i][2])]
(* tda_write16: the high byte, then the low byte in the next register.     *)
W16(rows) == [i \in 1 .. 2 * Len(rows) |->
                LET r == rows[(i + 1) \div 2] IN
                IF i % 2 = 1 THEN With("tda_write", TDA_MKREG(0, r[1]), (r[2] \div 256) % 256)
                ELSE With("tda_write", TDA_MKREG(0, r[1] + 1), r[2] % 256)]
Set(page, addr, bit) == <<With("tda_set", TDA_MKREG(page, addr), bit)>>
Clear(page, addr, bit) == <<With("tda_clear", TDA_MKREG(page, addr), bit)>>
Cec(addr, v) == <<With("cec_write", addr, v)>>
cec_write == <<Op("i2c_data", "CEC", "fail")>>

(* CEC enable, soft reset, core reset (which forgets the page), PLL, DDC.  *)
tda_probe ==
  Cec(255, 6) \o W(0, <<<<10, 3>>, <<10, 0>>>>)
  \o Set(0, 1, 1) \o Clear(0, 1, 1) \o <<Do("forget_page")>>
  \o W(2, <<<<0, 0>>, <<1, 1>>, <<2, 0>>, <<3, 0>>, <<4, 0>>, <<5, 0>>, <<14, 3>>, <<17, 9>>,
            <<7, 250>>, <<8, 0>>, <<9, 91>>, <<10, 0>>, <<6, 16>>>>)
  \o W(0, <<<<39, 36>>, <<11, 0>>>>) \o Set(0, 13, 1) \o Cec(251, 130)

(* The AVI InfoFrame: byte 3 makes the sum of the seventeen bytes 0 modulo *)
(* 256; the frame is disabled while it is rewritten.                       *)
AviBytes == <<130, 2, 13, 0, 16, 24>> \o [i \in 1 .. 11 |-> 0]
AviSum == AviBytes[1] + AviBytes[2] + AviBytes[3] + AviBytes[5] + AviBytes[6]
AviChecksum == (256 - (AviSum % 256)) % 256
tda_write_avi_infoframe ==
  Clear(17, 15, 2)
  \o W(16, [i \in 1 .. 17 |-> <<63 + i, IF i = 4 THEN AviChecksum ELSE AviBytes[i]>>])
  \o Set(17, 15, 2)

TSVGA == [htotal |-> 1056, vtotal |-> 628, hactive |-> 800, vactive |-> 600,
          hfp |-> 40, hsw |-> 128, hbp |-> 88, vfp |-> 1, vsw |-> 4, vbp |-> 23, hskew |-> 128]

(* The reference point, totals, sync pulses and windows: <<first of the    *)
(* two registers, value>>.                                                 *)
tda_timing ==
  LET t == TSVGA IN
  <<<<161, 3 + t.hfp + t.hskew>>, <<163, 1 + t.vfp>>,
    <<165, t.htotal>>, <<167, t.vtotal>>,
    <<169, t.vfp>>, <<171, t.hfp>>, <<173, t.vfp + t.vsw>>, <<175, t.hfp>>,
    <<177, 0>>, <<179, 0>>, <<181, 0>>, <<183, 0>>,
    <<185, t.hfp>>, <<187, t.hfp + t.hsw>>,
    <<189, t.vtotal - t.vactive - 1>>, <<191, t.vtotal - 1>>, <<193, 0>>, <<195, 0>>,
    <<197, t.htotal - t.hactive>>, <<199, t.htotal>>>>

(* Ports and muxes, output disabled during configuration, PLL and          *)
(* serializer, timing, then output enabled and the InfoFrame last.         *)
tda_enable_video ==
  W(0, <<<<30, 3>>, <<24, 255>>, <<25, 255>>, <<26, 255>>, <<32, 35>>, <<33, 1>>, <<34, 69>>>>)
  \o Set(17, 0, 1) \o Set(0, 203, 64) \o Set(18, 184, 2) \o W(17, <<<<13, 0>>>>)
  \o W(0, <<<<228, 0>>, <<37, 0>>, <<36, 0>>>>)
  \o Clear(2, 2, 1) \o Clear(2, 0, 64) \o Clear(2, 2, 4)
  \o W(2, <<<<3, 0>>>>) \o W(0, <<<<229, 0>>, <<240, 0>>>>) \o W(2, <<<<17, 9>>, <<1, 2>>>>)
  \o Set(0, 128, 4) \o W(2, <<<<18, 9>>>>) \o W(0, <<<<160, 0>>>>) \o W16(tda_timing)
  \o W(0, <<<<214, 1>>>>) \o Clear(0, 202, 64) \o W(0, <<<<35, 0>>>>) \o Set(0, 35, 32)
  \o W(0, <<<<203, 4>>>>) \o Clear(0, 203, 64) \o W(17, <<<<13, 4>>>>) \o Clear(0, 202, 128)
  \o <<Call("tda_write_avi_infoframe", "on")>>

tda19988_init == <<Call("tda_probe", "on"), Call("tda_enable_video", "on"), Say>>

-----------------------------------------------------------------------------
(* LCD controller (lcdc.c).                                                *)

DISPLAY == [width |-> 800, height |-> 600, bpp |-> 16, hfp |-> 40, hbp |-> 88, hsw |-> 128,
            vfp |-> 1, vbp |-> 23, vsw |-> 4]
PALETTE_SIZE == 32
FB_SIZE == DISPLAY.width * DISPLAY.height * (DISPLAY.bpp \div 8)

(* A bit field of x, [width bits from bit lo], moved to bit pos.           *)
Bits(x, lo, width) == (x \div 2^lo) % 2^width
LCD_HORLSB(x) == Bits(x \div 16 - 1, 0, 6) * 2^4
LCD_HORMSB(x) == Bits(x \div 16 - 1, 6, 1) * 2^3
LCD_HFPLSB(x) == Bits(x - 1, 0, 8) * 2^16
LCD_HBPLSB(x) == Bits(x - 1, 0, 8) * 2^24
LCD_HSWLSB(x) == Bits(x - 1, 0, 6) * 2^10
LCD_VERLSB(x) == Bits(x - 1, 0, 10)
LCD_HSWMSB(x) == Bits(x - 1, 6, 4) * 2^27
LCD_VERMSB(x) == Bits(x - 1, 10, 1) * 2^26
LCD_HBPMSB(x) == Bits(x - 1, 8, 2) * 2^4
LCD_HFPMSB(x) == Bits(x - 1, 8, 2)
LCD_VFP(x) == x * 2^16
LCD_VBP(x) == x * 2^24
LCD_VSW(x) == (x - 1) * 2^10

(* The three raster timing registers lcdc_init programs for mode d; the    *)
(* fields are disjoint, so or-ing them is adding them.                     *)
RasterTiming(d) ==
  <<LCD_HORLSB(d.width) + LCD_HORMSB(d.width) + LCD_HFPLSB(d.hfp) + LCD_HBPLSB(d.hbp)
      + LCD_HSWLSB(d.hsw),
    LCD_VBP(d.vbp) + LCD_VFP(d.vfp) + LCD_VSW(d.vsw) + LCD_VERLSB(d.height),
    LCD_HSWMSB(d.hsw) + LCD_VERMSB(d.height) + LCD_HBPMSB(d.hbp) + LCD_HFPMSB(d.hfp)>>

(* What the controller makes of the registers (external: its manual).      *)
RasterMode(t) ==
  [width  |-> 16 * (Bits(t[1], 4, 6) + 64 * Bits(t[1], 3, 1) + 1),
   hfp    |-> Bits(t[1], 16, 8) + 256 * Bits(t[3], 0, 2) + 1,
   hbp    |-> Bits(t[1], 24, 8) + 256 * Bits(t[3], 4, 2) + 1,
   hsw    |-> Bits(t[1], 10, 6) + 64 * Bits(t[3], 27, 4) + 1,
   height |-> Bits(t[2], 0, 10) + 1024 * Bits(t[3], 26, 1) + 1,
   vfp    |-> Bits(t[2], 16, 8), vbp |-> Bits(t[2], 24, 8), vsw |-> Bits(t[2], 10, 6) + 1]

(* 24 MHz * M / (N + 1) / M2, divided by LCDC_CLKDIV: the pixel clock.     *)
PixelClock == ((24000000 * 10) \div (2 + 1)) \div 2

dpll_disp_setup ==
  <<Sloppy(<<"cm", "disp_bypass">>, "fail"), Sloppy(<<"cm", "disp_lock">>, "fail"),
    Do("pixel_clock"), Say>>

lcdc_clock_enable == <<Say, Enable("LCDC"), ClockWithin("LCDC", "on"), Say>>

(* The palette header, then every pixel black: the first use of the mapped *)
(* frame buffer.                                                           *)
framebuffer_setup == <<Reg("FB"), Do("fb_pixels"), Say>>

(* The pads of the sixteen data lines, the syncs and the pixel clock.      *)
lcd_pinmux_setup == <<Reg("CTRL")>>

lcdc_init ==
  <<Call("lcd_pinmux_setup", "on"), Call("dpll_disp_setup", "on"), Call("lcdc_clock_enable", "on"),
    Call("framebuffer_setup", "on"), Reg("LCDC"), Do("raster_off"), Do("lcdc_dma"),
    Do("raster_timing"), Say>>

lcdc_start_raster == <<Reg("LCDC"), Do("raster_on"), Say>>

-----------------------------------------------------------------------------
DisplayCode ==
  [i2c_flush |-> i2c_flush, i2c_fail |-> i2c_fail, i2c_wait_bus_free |-> i2c_wait_bus_free,
   i2c_init |-> i2c_init, i2c_write_reg |-> i2c_write_reg, i2c_read_reg |-> i2c_read_reg,
   scan_one |-> scan_one, i2c_scan |-> i2c_scan, tda_set_page |-> tda_set_page,
   tda_write |-> tda_write, tda_read |-> tda_read, tda_set |-> tda_set, tda_clear |-> tda_clear,
   cec_write |-> cec_write, tda_probe |-> tda_probe,
   tda_write_avi_infoframe |-> tda_write_avi_infoframe, tda_enable_video |-> tda_enable_video,
   tda19988_init |-> tda19988_init, dpll_disp_setup |-> dpll_disp_setup,
   lcdc_clock_enable |-> lcdc_clock_enable, framebuffer_setup |-> framebuffer_setup,
   lcd_pinmux_setup |-> lcd_pinmux_setup, lcdc_init |-> lcdc_init, lcdc_start_raster |-> lcdc_start_raster]
=============================================================================
