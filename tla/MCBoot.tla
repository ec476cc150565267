------------------------------- MODULE MCBoot -------------------------------
(***************************************************************************)
(* The instance of Boot that TLC checks: a kernel image of two sectors, a  *)
(* typical card with every oddity, and every other card on a sound board.  *)
(***************************************************************************)
EXTENDS Boot

(* kernel: the sectors from KERNEL_START_SECTOR hold the kernel; vectors   *)
(* and bpbs: the sectors that begin with a branch, and those that hold the *)
(* boot sector of a FAT32 volume.                                          *)
Typical == [kind |-> "SDHC", kernel |-> TRUE, vectors |-> {2048}, signed |-> TRUE, lba |-> 2,
            bpbs |-> {2}, ddr |-> TRUE, reset |-> 0, typical |-> TRUE]
Other(m) == [m EXCEPT !.typical = FALSE]
(* No kernel; one cut short after its first sector; and a card on which    *)
(* the sectors that a transfer in bytes reaches pass the tests too.        *)
Blank == [Typical EXCEPT !.kernel = FALSE, !.vectors = {}]
CutShort == [Typical EXCEPT !.kernel = FALSE]
Twofold == [Typical EXCEPT !.vectors = {2048, 2048 * 512}, !.bpbs = {2, 2 * 512}]
AllMedia ==
  {Typical, Other([Typical EXCEPT !.kind = "SDSC"]), Other([Typical EXCEPT !.kind = "none"]),
   Other(Blank), Other(CutShort), Other(Twofold), Other([Typical EXCEPT !.signed = FALSE]),
   Other([Typical EXCEPT !.lba = 0]), Other([Typical EXCEPT !.bpbs = {}]),
   Other([Typical EXCEPT !.ddr = FALSE]), Other([Typical EXCEPT !.reset = 255])}

(* Every event some wait is for.  Not among the dead ones: the clocks of   *)
(* the I2C and the display modules, whose loss the code does not notice    *)
(* before it touches their registers.                                      *)
WaitsOf(f, kinds) == {i \in 1 .. Len(Code[f]) : Code[f][i].op \in kinds}
EventsOf(fs, kinds) == UNION {{Code[f][i].x : i \in WaitsOf(f, kinds)} : f \in fs}
InLoader == EventsOf(DOMAIN LoaderCode, {"until", "within"})
InTheKernel == EventsOf(DOMAIN Code \ DOMAIN LoaderCode, {"until", "within", "sloppy"})
SloppyEvents == EventsOf(DOMAIN Code, {"sloppy"})
Unnoticed == {<<"clk", "I2C0">>, <<"clk", "LCDC">>}
AllOddities ==
  {[kind |-> "none", c |-> <<"", "">>, from |-> "loader"]}
  \cup {[kind |-> "dead", c |-> e, from |-> "loader"] : e \in InLoader}
  \cup {[kind |-> "dead", c |-> e, from |-> "kernel"] : e \in InTheKernel \ Unnoticed}
  \cup {[kind |-> "last", c |-> e, from |-> "kernel"] : e \in SloppyEvents}

MCScanned == <<51, 52>>
=============================================================================
