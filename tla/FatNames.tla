------------------------------ MODULE FatNames ------------------------------
(***************************************************************************)
(* The 8.3 name conversions of fs/fat32.c.  A name is a sequence of        *)
(* character codes; its on-disk form is BASE + EXT upper-case codes padded *)
(* with spaces, and a pair of flags says which part to show in lower case. *)
(***************************************************************************)
EXTENDS Integers, Sequences, SequencesExt, FiniteSetsExt

CONSTANTS BASE, EXT      \* widths of the two parts (8 and 3)

ASSUME WidthAssumption == BASE \in Nat \ {0} /\ EXT \in Nat \ {0}

Dot == 46
Space == 32
IsLower(c) == c \in 97 .. 122
IsUpper(c) == c \in 65 .. 90
ToUpper(c) == IF IsLower(c) THEN c - 32 ELSE c
ToLower(c) == IF IsUpper(c) THEN c + 32 ELSE c

\* The characters before the first dot, and those after it.
DotAt(name) == Min({i \in DOMAIN name : name[i] = Dot} \cup {Len(name) + 1})
BasePart(name) == SubSeq(name, 1, DotAt(name) - 1)
ExtPart(name)  == SubSeq(name, DotAt(name) + 1, Len(name))

Padded(part, width) ==
    [i \in 1 .. width |-> IF i <= Len(part) THEN ToUpper(part[i]) ELSE Space]

NameToRaw(name) == Padded(BasePart(name), BASE) \o Padded(ExtPart(name), EXT)

\* The characters of raw[from .. to] up to the first space.
UpToSpace(raw, from, to) ==
    SubSeq(raw, from, Min({i \in from .. to : raw[i] = Space} \cup {to + 1}) - 1)

Cased(part, lower) == [i \in DOMAIN part |-> IF lower THEN ToLower(part[i]) ELSE part[i]]

RawToName(raw, nt_res) ==
    Cased(UpToSpace(raw, 1, BASE), nt_res.base) \o
    (IF raw[BASE + 1] = Space THEN <<>>
     ELSE <<Dot>> \o Cased(UpToSpace(raw, BASE + 1, BASE + EXT), nt_res.ext))

AllLower(part) == /\ \E i \in DOMAIN part : IsLower(part[i])
                  /\ \A i \in DOMAIN part : ~IsUpper(part[i])

\* Mutation of DetectNtRes: the extension takes the flag of the base.
DetectNtResBase(name) == [base |-> AllLower(BasePart(name)), ext |-> AllLower(BasePart(name))]

DetectNtRes(name) == [base |-> AllLower(BasePart(name)), ext |-> AllLower(ExtPart(name))]

\* resolve_path() copies a component into a buffer of BASE + 1 + EXT characters.
Query(name) == NameToRaw(SubSeq(name, 1, Min({Len(name), BASE + 1 + EXT})))
=============================================================================
