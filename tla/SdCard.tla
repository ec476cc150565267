------------------------------- MODULE SdCard -------------------------------
(***************************************************************************)
(* The SD card behind the AM335x MMC0 controller, as the loader's and the  *)
(* kernel's drivers use it (external: the card and the controller are not  *)
(* part of the repository).                                                *)
(*                                                                         *)
(* The card answers a command only in the states in which the command is   *)
(* legal; a command it does not answer, or whose answer is lost on the     *)
(* wire, raises ERRI in the controller.  After an error the line that      *)
(* carried it refuses every later transfer until the driver resets it      *)
(* (SRC for the command line, SRD for the data line).                      *)
(***************************************************************************)
EXTENDS Integers, Sequences

CONSTANTS
  Kinds,          \* the cards that may sit in the slot: "none", "SDSC", "SDHC"
  OCR_BUSY,       \* how often the card answers ACMD41 with "still busy"
  SECTOR          \* bytes per sector: what a byte address is scaled by

ASSUME SdCardAssumption ==
  /\ Kinds \subseteq {"none", "SDSC", "SDHC"}
  /\ OCR_BUSY \in Nat
  /\ SECTOR \in Nat \ {0}

(* A card before its first command: powered down, not initialised.         *)
FreshCard(kind) == [kind |-> kind, st |-> "off", busy |-> OCR_BUSY, app |-> FALSE]

(* The states in which the card answers each command.                      *)
LegalIn ==
  [CMD0  |-> {"idle", "ready", "ident", "stby", "tran"}, CMD8 |-> {"idle"},
   CMD55 |-> {"idle", "stby", "tran"},  ACMD41 |-> {"idle"},
   CMD2  |-> {"ready"},  CMD3 |-> {"ident", "stby"},  CMD9 |-> {"stby"},
   CMD7  |-> {"stby"},   CMD16 |-> {"tran"},
   CMD17 |-> {"tran"},   CMD24 |-> {"tran"}]

(* CMD9 and CMD7 carry the address that CMD3 returned; ACMD41 has to       *)
(* follow CMD55.                                                           *)
Answers(c, cmd, arg) ==
  /\ c.kind # "none"
  /\ c.st \in LegalIn[cmd]
  /\ cmd \in {"CMD9", "CMD7"} => arg = "rca"
  /\ cmd = "ACMD41" => c.app

(* The card after it has accepted a command.                               *)
Accepted(c, cmd) ==
  CASE cmd = "CMD0"   -> [c EXCEPT !.st = "idle", !.busy = OCR_BUSY, !.app = FALSE]
    [] cmd = "CMD55"  -> [c EXCEPT !.app = TRUE]
    [] cmd = "ACMD41" -> IF c.busy > 0 THEN [c EXCEPT !.busy = @ - 1, !.app = FALSE]
                         ELSE [c EXCEPT !.st = "ready", !.app = FALSE]
    [] cmd = "CMD2"   -> [c EXCEPT !.st = "ident"]
    [] cmd = "CMD3"   -> [c EXCEPT !.st = "stby"]
    [] cmd = "CMD7"   -> [c EXCEPT !.st = "tran"]
    [] OTHER          -> c

(* What the response register holds after the card has accepted it.        *)
Response(c, cmd) ==
  CASE cmd = "CMD3" -> "rca"
    [] cmd = "ACMD41" /\ c.busy > 0 -> "busy"
    [] cmd = "ACMD41" /\ c.busy = 0 -> IF c.kind = "SDHC" THEN "ccs" ELSE "std"
    [] OTHER -> "r1"

(* The sector a read or write argument names: an SDHC card counts sectors, *)
(* an SDSC card counts bytes and refuses an address inside a sector.       *)
Addressable(c, arg) == c.kind = "SDHC" \/ arg % SECTOR = 0
SectorOf(c, arg) == IF c.kind = "SDHC" THEN arg ELSE arg \div SECTOR
=============================================================================
