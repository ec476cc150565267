------------------------------ MODULE Terminal ------------------------------
(***************************************************************************)
(* The shell's dialogue with the user: the line buffer and the loop of     *)
(* main() in shell.c, its output through shell_puts() and the expansion of *)
(* newlines on the way to the UART (sys_write(), tty_write()), and the     *)
(* programs that print files.  Characters are one-character strings; "bs"  *)
(* and "bell" are control characters.                                      *)
(***************************************************************************)
EXTENDS Syscalls, SequencesExt

CONSTANTS SHELL_LINE_BUFFER_SIZE,      \* 128
          PUTS_BUFFER,                 \* buf[64] of shell_puts()
          CAT_BUFFER                   \* buf[256] of cat and free

ASSUME TerminalAssumption == {SHELL_LINE_BUFFER_SIZE, PUTS_BUFFER, CAT_BUFFER} \subseteq Nat \ {0, 1}

-----------------------------------------------------------------------------
(* Output.                                                                 *)

\* sys_write() and tty_write(): a newline goes out with a return before it.
\* sys_write() refuses what is too long.
Expanded(buf) == FlattenSeq([i \in DOMAIN buf |-> IF buf[i] = "\n" THEN <<"\r", "\n">> ELSE <<buf[i]>>])
sys_write_uart(buf) == IF Len(buf) > MAX_WRITE THEN <<>> ELSE Expanded(buf)
tty_write(buf) == Expanded(buf)

\* Where the bytes of one call go: to the UART, or as they are to a file.
stdout_write(buf, uart) == IF uart THEN sys_write_uart(buf) ELSE buf
shell_putc(c, uart) == stdout_write(<<c>>, uart)

\* buf is what shell_puts() has gathered; calls is what it has written.
RECURSIVE Gathered(_, _, _, _)
Gathered(s, buf, calls, uart) ==
    IF s = <<>> THEN (IF buf = <<>> THEN calls ELSE Append(calls, buf))
    ELSE LET line == Head(s) = "\n" /\ uart
             before == IF line THEN <<>> ELSE buf
             flushed == IF ~line THEN calls
                        ELSE (IF buf = <<>> THEN calls ELSE Append(calls, buf)) \o <<<<"\r">>>>
             now == Append(before, Head(s))
         IN  IF Len(now) >= PUTS_BUFFER THEN Gathered(Tail(s), <<>>, Append(flushed, now), uart)
             ELSE Gathered(Tail(s), now, flushed, uart)
PutsCalls(s, uart) == Gathered(s, <<>>, <<>>, uart)
shell_puts(s, uart) == FlattenSeq([k \in DOMAIN PutsCalls(s, uart) |-> stdout_write(PutsCalls(s, uart)[k], uart)])

\* Mutation of dump: the last piece is not written.
RECURSIVE DumpFull(_)
DumpFull(bytes) ==
    IF Len(bytes) < CAT_BUFFER THEN <<>>
    ELSE sys_write_uart(SubSeq(bytes, 1, CAT_BUFFER)) \o DumpFull(SubSeq(bytes, CAT_BUFFER + 1, Len(bytes)))
dump_full(bytes) == DumpFull(bytes)

\* A file is read and written in pieces, until nothing is read.  write() of
\* vinixlibc takes descriptor 1 to the UART, whatever it was redirected to.
RECURSIVE Pieces(_)
Pieces(bytes) ==
    LET n == IF Len(bytes) < CAT_BUFFER THEN Len(bytes) ELSE CAT_BUFFER
    IN  IF bytes = <<>> THEN <<>>
        ELSE sys_write_uart(SubSeq(bytes, 1, n)) \o Pieces(SubSeq(bytes, n + 1, Len(bytes)))
dump(bytes) == Pieces(bytes)

\* A file that cannot be opened is reported, and the next one is printed.
cat_main(files, names) ==
    FoldLeft(LAMBDA r, name : IF name \in DOMAIN files THEN [r EXCEPT !.out = @ \o dump(files[name])]
                              ELSE [rc |-> 1, out |-> Append(r.out, "open failed")],
             [rc |-> 0, out |-> <<>>], names)
free_main(meminfo) == dump(meminfo)

-----------------------------------------------------------------------------
(* Input: data is line_buffer.data up to its NUL, so pos is its length.    *)

line_buffer_init == <<>>

\* Mutation of line_buffer_add: one character too many.
line_buffer_add_full(data, c) == IF Len(data) >= SHELL_LINE_BUFFER_SIZE THEN data ELSE Append(data, c)

\* The same data comes back when there is no room (-1 in the code).
line_buffer_add(data, c) == IF Len(data) >= SHELL_LINE_BUFFER_SIZE - 1 THEN data ELSE Append(data, c)
line_buffer_backspace(data) == IF Len(data) > 0 THEN Front(data) ELSE data

Prompt == <<">", " ">>

\* One character from sys_read(): the new line, what is echoed, and the line
\* that execute_command() gets.
KeyRead(shell, c) ==
    CASE c \in {"\r", "\n"} ->
           [data |-> line_buffer_init, commands |-> Append(shell.commands, shell.data),
            uart |-> shell.uart \o shell_putc("\n", TRUE) \o shell_puts(Prompt, TRUE)]
      [] c \in {"bs", "del"} ->
           [shell EXCEPT !.data = line_buffer_backspace(@),
                         !.uart = IF shell.data = <<>> THEN @
                                  ELSE @ \o shell_putc("bs", TRUE) \o shell_putc(" ", TRUE) \o shell_putc("bs", TRUE)]
      [] c = "other" -> shell
      [] OTHER ->
           LET data == line_buffer_add(shell.data, c)
           IN  [shell EXCEPT !.data = data, !.uart = @ \o shell_putc(IF data = shell.data THEN "bell" ELSE c, TRUE)]

shell_main(keys) ==
    FoldLeft(KeyRead, [data |-> line_buffer_init, commands |-> <<>>, uart |-> shell_puts(Prompt, TRUE)], keys)
=============================================================================
