------------------------------- MODULE Frame -------------------------------
(***************************************************************************)
(* drivers/fb.c: rectangles, discs, text and the scrolling console in the  *)
(* frame buffer.  The frame is a function from pixel index to colour;      *)
(* coordinates are machine words of FB_BITS bits.  A glyph is the set of  *)
(* its lit cells in a box of FB_FONT_W by FB_FONT_H.                       *)
(***************************************************************************)
EXTENDS Integers, Sequences, FiniteSetsExt, SequencesExt

CONSTANTS g_width, g_height, FB_FONT_W, FB_FONT_H, FB_BITS

ASSUME FrameAssumption ==
    /\ {g_width, g_height, FB_FONT_W, FB_FONT_H} \subseteq Nat \ {0}
    /\ FB_BITS \in 1 .. 12 /\ g_width * g_height < 2 ^ FB_BITS /\ (g_width * g_height) % 2 = 0

Wrap(n) == n % 2 ^ FB_BITS
Pixels == 0 .. g_width * g_height - 1

\* A store outside the frame is kept apart: no primitive may make one.
Outside == -1
Store(frame, at, colour) == IF at \in Pixels THEN [frame EXCEPT ![at] = colour] ELSE [frame EXCEPT ![Outside] = @ + 1]
Paint(frame, cells, colour) == [i \in DOMAIN frame |-> IF i \in cells THEN colour
                                  ELSE IF i = Outside THEN frame[i] + Cardinality(cells \ Pixels) ELSE frame[i]]
Blank(colour) == [i \in Pixels \cup {Outside} |-> IF i = Outside THEN 0 ELSE colour]

fb_putpixel(frame, x, y, colour) ==
    IF x < g_width /\ y < g_height THEN Store(frame, y * g_width + x, colour) ELSE frame

RowCellsNoRest(first, w) ==
    LET odd == IF first % 2 = 1 /\ w > 0 THEN 1 ELSE 0
    IN  first .. first + odd + ((w - odd) \div 2) * 2 - 1

\* One row: an odd first pixel, then pairs in one store, then an odd last one.
RowCells(first, w) ==
    LET odd == IF first % 2 = 1 /\ w > 0 THEN 1 ELSE 0
        pairs == (w - odd) \div 2
        rest == IF odd + pairs * 2 < w THEN 1 ELSE 0
    IN  first .. first + odd + pairs * 2 + rest - 1

fb_fillrect(frame, x, y, w, h, colour) ==
    LET cw == IF Wrap(x + w) > g_width THEN g_width - x ELSE w
        ch == IF Wrap(y + h) > g_height THEN g_height - y ELSE h
    IN  IF x >= g_width \/ y >= g_height THEN frame
        ELSE Paint(frame, UNION {RowCells(row * g_width + x, cw) : row \in y .. y + ch - 1}, colour)

\* Two pixels per store: an odd last pixel would be left.
fb_clear(frame, colour) == Paint(frame, 0 .. ((g_width * g_height) \div 2) * 2 - 1, colour)

\* The glyph, cut at the right and lower edges.
fb_draw_char(frame, x, y, glyph, fg, bg) ==
    [i \in DOMAIN frame |->
       IF i = Outside THEN frame[i]
       ELSE LET col == (i % g_width) - x
                row == (i \div g_width) - y
            IN  IF col \in 0 .. FB_FONT_W - 1 /\ row \in 0 .. FB_FONT_H - 1
                THEN IF <<col, row>> \in glyph THEN fg ELSE bg
                ELSE frame[i]]

RECURSIVE fb_puts(_, _, _, _, _, _)
fb_puts(frame, x, y, str, fg, bg) ==
    IF str = <<>> \/ x + FB_FONT_W > g_width THEN frame
    ELSE fb_puts(fb_draw_char(frame, x, y, Head(str), fg, bg), x + FB_FONT_W, y, Tail(str), fg, bg)

fb_print(frame, col, row, str, fg, bg) == fb_puts(frame, col * FB_FONT_W, row * FB_FONT_H, str, fg, bg)

fb_draw_char_scaled(frame, x, y, glyph, fg, bg, scale) ==
    FoldSet(LAMBDA cell, f : fb_fillrect(f, Wrap(x + cell[1] * scale), Wrap(y + cell[2] * scale), scale, scale,
                                         IF cell \in glyph THEN fg ELSE bg),
            frame, (0 .. FB_FONT_W - 1) \X (0 .. FB_FONT_H - 1))

fb_puts_scaled(frame, x, y, str, fg, bg, scale) ==
    FoldLeft(LAMBDA f, k : fb_draw_char_scaled(f, Wrap(x + (k - 1) * FB_FONT_W * scale), y, str[k], fg, bg, scale),
             frame, [k \in DOMAIN str |-> k])

fb_isqrt(n) == Max({k \in 0 .. n : k * k <= n})

\* A row that starts left of the screen wraps and is dropped whole.
fb_fillcircle(frame, cx, cy, r, colour) ==
    LET dx(dy) == fb_isqrt(r * r - dy * dy)
        row(f, y, dy) == fb_fillrect(f, Wrap(cx - dx(dy)), y, 2 * dx(dy) + 1, 1, colour)
    IN  FoldLeft(LAMBDA f, dy : IF dy = 0 THEN row(f, cy, 0) ELSE row(row(f, Wrap(cy - dy), dy), Wrap(cy + dy), dy),
                 frame, [k \in 1 .. r + 1 |-> k - 1])

-----------------------------------------------------------------------------
(* The console.                                                            *)

con_max_col == g_width \div FB_FONT_W
con_max_row == g_height \div FB_FONT_H

fb_console_init(frame, bg) == [frame |-> fb_clear(frame, bg), col |-> 0, row |-> 0]

\* All rows of characters move up by one and the last is cleared; the pixels
\* below the last whole row stay.
con_scroll(frame, bg) ==
    LET row_pixels == g_width * FB_FONT_H
        total == g_width * (con_max_row - 1) * FB_FONT_H
    IN  [i \in DOMAIN frame |-> IF i \in 0 .. total - 1 THEN frame[i + row_pixels]
                                ELSE IF i \in total .. total + row_pixels - 1 THEN bg
                                ELSE frame[i]]

\* A character is a newline, a return, a tab or a glyph with its lit cells.
fb_console_putchar(con, c, fg, bg) ==
    LET put == CASE c.kind = "newline" -> [con EXCEPT !.col = 0, !.row = @ + 1]
                 [] c.kind = "return" -> [con EXCEPT !.col = 0]
                 [] c.kind = "tab" -> [con EXCEPT !.col = ((@ + 4) \div 4) * 4]
                 [] OTHER -> [con EXCEPT !.col = @ + 1,
                                         !.frame = fb_draw_char(@, con.col * FB_FONT_W, con.row * FB_FONT_H, c.cells, fg, bg)]
        wrapped == IF put.col >= con_max_col THEN [put EXCEPT !.col = 0, !.row = @ + 1] ELSE put
    IN  IF wrapped.row >= con_max_row
        THEN [wrapped EXCEPT !.frame = con_scroll(@, bg), !.row = con_max_row - 1] ELSE wrapped

fb_console_puts(con, str, fg, bg) == FoldLeft(LAMBDA done, c : fb_console_putchar(done, c, fg, bg), con, str)
=============================================================================
