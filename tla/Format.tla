------------------------------- MODULE Format -------------------------------
(***************************************************************************)
(* Numbers and strings to text and back: fmt_walk() of vinixlibc's         *)
(* printf.c and the same engine in kernel/libc/src/format.c, uart_printf() *)
(* with its own division, strtol() and itoa() of stdlib.c.  Text is a      *)
(* sequence of one-character strings, a machine word has BITS bits.        *)
(***************************************************************************)
EXTENDS Integers, Sequences, SequencesExt

CONSTANT BITS

ASSUME FormatAssumption == BITS \in 4 .. 30

WORD == 2 ^ BITS
Signed(w) == IF w >= WORD \div 2 THEN w - WORD ELSE w
Unsigned(v) == v % WORD

Digit == <<"0", "1", "2", "3", "4", "5", "6", "7", "8", "9", "a", "b", "c", "d", "e", "f">>
ValueOf(c) == CHOOSE d \in 0 .. 15 : Digit[d + 1] = c

RECURSIVE Reversed(_, _)
Reversed(value, base) ==
    IF value = 0 THEN <<>> ELSE <<Digit[(value % base) + 1]>> \o Reversed(value \div base, base)

render_uint(value, base) == IF value = 0 THEN <<"0">> ELSE Reverse(Reversed(value, base))

\* %d: the digits of the magnitude; -v of the smallest integer wraps to itself
\* on this machine.
MagnitudeLow(v) == Unsigned(-v) % (WORD \div 2)
Magnitude(v) == Unsigned(-v)
render_int(v) == IF v < 0 THEN <<"-">> \o render_uint(Magnitude(v), 10) ELSE render_uint(v, 10)

NUL == "NUL"
Fill(n, c) == [i \in 1 .. n |-> c]
Gap(width, len) == IF width > len THEN width - len ELSE 0

\* The sign stays in front of the zeros.
PadNumber(tmp, f) ==
    LET space == Gap(f.width, Len(tmp))
    IN  IF f.left THEN tmp \o Fill(space, " ")
        ELSE IF ~f.zero THEN Fill(space, " ") \o tmp
        ELSE IF Head(tmp) = "-" THEN <<"-">> \o Fill(space, "0") \o Tail(tmp)
        ELSE Fill(space, "0") \o tmp

PadText(s, f) == LET space == Gap(f.width, Len(s))
                 IN  IF f.left THEN s \o Fill(space, " ") ELSE Fill(space, " ") \o s

Matching(fmt, i, set) == LET stop == {j \in i .. Len(fmt) : fmt[j] \notin set}
                         IN  (IF stop = {} THEN Len(fmt) + 1 ELSE CHOOSE j \in stop : \A k \in stop : j <= k)

\* The flags, width and length modifier of the conversion after the % at i - 1,
\* and where its letter is.
Conversion(fmt, i) ==
    LET f == Matching(fmt, i, {"-", "0"})
        w == Matching(fmt, f, {Digit[d] : d \in 1 .. 10})
        flags == {fmt[j] : j \in i .. f - 1}
    IN  [left |-> "-" \in flags, zero |-> "0" \in flags /\ "-" \notin flags,
         width |-> FoldLeft(LAMBDA v, c : v * 10 + ValueOf(c), 0, SubSeq(fmt, f, w - 1)),
         at |-> IF w <= Len(fmt) /\ fmt[w] = "l" THEN w + 1 ELSE w]

\* A letter that is no conversion is copied, a % at the end gives a NUL too.
\* The kernel's engine has no width for %c.
Convert(c, f, arg, kernel) ==
    CASE c = "d" -> PadNumber(render_int(arg), f)
      [] c = "u" -> PadNumber(render_uint(Unsigned(arg), 10), f)
      [] c = "x" -> PadNumber(render_uint(Unsigned(arg), 16), f)
      [] c = "o" -> PadNumber(render_uint(Unsigned(arg), 8), f)
      [] c = "p" -> PadNumber(<<"0", "x">> \o render_uint(Unsigned(arg), 16), f)
      [] c = "s" -> PadText(render_int(arg), f)
      [] c = "c" -> IF kernel THEN <<"c">> ELSE PadText(<<"c">>, f)
      [] c = "%" -> <<"%">>
      [] OTHER -> <<"%", c>>

\* Every conversion of fmt prints the same argument.
RECURSIVE FmtFrom(_, _, _, _)
FmtFrom(fmt, i, arg, kernel) ==
    IF i > Len(fmt) THEN <<>>
    ELSE IF fmt[i] # "%" THEN <<fmt[i]>> \o FmtFrom(fmt, i + 1, arg, kernel)
    ELSE LET f == Conversion(fmt, i + 1)
         IN  IF f.at > Len(fmt) THEN <<"%", NUL>>
             ELSE Convert(fmt[f.at], f, arg, kernel) \o FmtFrom(fmt, f.at + 1, arg, kernel)

fmt_walk(fmt, arg) == FmtFrom(fmt, 1, arg, FALSE)

\* Characters are stored while there is room for the NUL, and all are counted.
Stored(out, size) == [n |-> Len(out), text |-> SubSeq(out, 1, IF Len(out) < size THEN Len(out) ELSE size - 1)]
vsnprintf(size, fmt, arg) == Stored(fmt_walk(fmt, arg), size)
kvsnprintf(size, fmt, arg) == Stored(FmtFrom(fmt, 1, arg, TRUE), size)

\* vprintf() and vdprintf_fd(): a full staging buffer is written and emptied.
RECURSIVE Staged(_, _)
Staged(out, room) == IF Len(out) < room THEN (IF out = <<>> THEN <<>> ELSE <<out>>)
                     ELSE <<SubSeq(out, 1, room)>> \o Staged(SubSeq(out, room + 1, Len(out)), room)

-----------------------------------------------------------------------------
(* The console's own printf.                                               *)

\* Shift and subtract, one bit of n at a time.
simple_udivmod(n, d) ==
    FoldLeft(LAMBDA qr, i :
               LET r == (qr[2] * 2 + ((n \div 2 ^ i) % 2)) % WORD
               IN  IF r >= d THEN <<qr[1] + 2 ^ i, r - d>> ELSE <<qr[1], r>>,
             <<0, 0>>, [k \in 1 .. BITS |-> BITS - k])

RECURSIVE UartDigits(_, _)
UartDigits(num, base) ==
    IF num = 0 THEN <<>>
    ELSE LET qr == simple_udivmod(num, base) IN UartDigits(qr[1], base) \o <<Digit[qr[2] + 1]>>

print_uint(num, base) == IF num = 0 THEN <<"0">> ELSE UartDigits(num, base)

uart_puts(s) == FlattenSeq([i \in DOMAIN s |-> IF s[i] = "\n" THEN <<"\r", "\n">> ELSE <<s[i]>>])

\* %d prints like %u; a width counts only after a 0, and is then ignored.
UartConvert(c, arg) ==
    CASE c \in {"d", "u"} -> print_uint(Unsigned(arg), 10)
      [] c = "x" -> print_uint(Unsigned(arg), 16)
      [] c = "s" -> uart_puts(render_int(arg))
      [] c \in {"c", "%"} -> <<c>>
      [] OTHER -> <<"%", c>>

RECURSIVE UartFrom(_, _, _)
UartFrom(fmt, i, arg) ==
    IF i > Len(fmt) THEN <<>>
    ELSE IF fmt[i] # "%" THEN uart_puts(<<fmt[i]>>) \o UartFrom(fmt, i + 1, arg)
    ELSE LET at == IF i < Len(fmt) /\ fmt[i + 1] = "0"
                   THEN Matching(fmt, i + 2, {Digit[d] : d \in 1 .. 10}) ELSE i + 1
         IN  IF at > Len(fmt) THEN <<"%", NUL>> ELSE UartConvert(fmt[at], arg) \o UartFrom(fmt, at + 1, arg)

uart_printf(fmt, arg) == UartFrom(fmt, 1, arg)

-----------------------------------------------------------------------------
(* stdlib.c.                                                               *)

strtol(s, base) ==
    LET at == Matching(s, 1, {" ", "\n", "\t"})
        signed == at <= Len(s) /\ s[at] \in {"-", "+"}
        minus == signed /\ s[at] = "-"
        from == IF signed THEN at + 1 ELSE at
        hex == base \in {0, 16} /\ from < Len(s) /\ s[from] = "0" /\ s[from + 1] = "x"
        octal == base = 0 /\ ~hex /\ from <= Len(s) /\ s[from] = "0"
        radix == CASE hex -> 16 [] octal -> 8 [] base = 0 -> 10 [] OTHER -> base
        start == CASE hex -> from + 2 [] octal -> from + 1 [] OTHER -> from
        stop == Matching(s, start, {Digit[d] : d \in 1 .. radix})
        value == FoldLeft(LAMBDA v, c : Unsigned(v * radix + ValueOf(c)), 0, SubSeq(s, start, stop - 1))
    IN  Signed(Unsigned(IF minus THEN -value ELSE value))

itoa(value, base) == IF base = 10 THEN render_int(value) ELSE render_uint(Unsigned(value), base)

-----------------------------------------------------------------------------
(* reflibc.c, for compiled programs: the loops run while the value is       *)
(* positive, so no digit comes of one that is not.                          *)

PositiveDigits(val, base) == IF val > 0 THEN Reverse(Reversed(val, base)) ELSE <<>>
print_int(val) == IF val = 0 THEN <<"0">>
                  ELSE IF val < 0 THEN <<"-">> \o PositiveDigits(Signed(Magnitude(val)), 10)
                  ELSE PositiveDigits(val, 10)
print_hex(val) == IF val = 0 THEN <<"0">> ELSE PositiveDigits(val, 16)
=============================================================================
