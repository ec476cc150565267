------------------------------ MODULE BootOps -------------------------------
(***************************************************************************)
(* The vocabulary in which the start-up code is written down: one C (or    *)
(* assembly) function is a sequence of operations, in the order of its     *)
(* statements, and module Boot says what each kind of operation does.      *)
(*                                                                         *)
(* An operation is [op, x, e]: its kind, its argument, and what the        *)
(* function does when it goes wrong:                                       *)
(*    "on"    the failure is ignored and the next statement runs           *)
(*    "fail"  the function returns its error code                          *)
(*    "quit"  the function returns, without an error code                  *)
(*    "stop"  the program prints a message and loops for ever              *)
(***************************************************************************)
EXTENDS Integers, Sequences

Op(kind, x, e) == [op |-> kind, x |-> x, e |-> e]

(* A register of module m is read or written.                              *)
Reg(m) == Op("reg", m, "on")
(* MODULEMODE = ENABLE in the CLKCTRL register of module m.                *)
Enable(m) == Op("enable", m, "on")
(* A wait without a bound, and a wait that gives up and then does e.  The  *)
(* condition is <<module, event>>: polling it reads that module's status.  *)
Until(c) == Op("until", c, "on")
Within(c, e) == Op("within", c, e)
(* The IDLEST polls that follow Enable.                                    *)
UntilClock(m) == Until(<<"clk", m>>)
ClockWithin(m, e) == Within(<<"clk", m>>, e)
(* Text on the console: waits for the transmitter without a bound.         *)
Say == Op("say", "UART0", "on")
(* A step of the processor or of a device, named in module Boot.           *)
Do(x) == Op("do", x, "on")
(* A test of what the program has read, with its error branch.             *)
Check(x, e) == Op("check", x, e)
(* A call; e is what the caller does with an error code.                   *)
Call(f, e) == Op("call", f, e)
(* A command to the card whose result the caller ignores.                  *)
Send(cmd) == Op("send", cmd, "on")
(* count sectors from lba into memory; e is what an error does.            *)
Read(lba, count, e) == Op("read", <<lba, count>>, e)
(* The busy-wait on the free-running timer.                                *)
DelayMs == Op("delay", "TIMER2", "on")
(* A driver is added to the platform bus; an interrupt line gets its       *)
(* handler, or is unmasked.                                                *)
AddDriver(d, e) == Op("driver", d, e)
Handler(n) == Op("handler", n, "quit")
Unmask(n) == Op("unmask", n, "on")
=============================================================================
