----------------------------- MODULE TermDrivers -----------------------------
(***************************************************************************)
(* The terminals of GRUB: the EFI console (efi/eficon.c), the Hercules     *)
(* card (stage2/hercules.c), a serial line (stage2/serial.c), the VGA      *)
(* graphics of a BIOS (stage2/graphics.c) and the graphics of EFI          *)
(* (efi/graphics.c over efi/efigraph.c or efi/efiuga.c).                   *)
(*                                                                         *)
(* t is a terminal: t.x and t.y where the driver takes the cursor to be,   *)
(* t.scr what can be seen.  Text terminals have a cursor of their own at   *)
(* t.hx, t.hy; the graphical ones keep the characters in t.text, and the   *)
(* cursor is a cell drawn in another way.                                  *)
(***************************************************************************)
EXTENDS Integers, Sequences, SequencesExt, FiniteSets

----------------------------------------------------------------------------
(* stage2/terminfo.c and stage2/tparm.c: the control strings of a serial   *)
(* terminal and the little language they are written in.                   *)
(*                                                                         *)
(* A string is a sequence of tokens <<op, argument>>: "lit" is a character *)
(* that is sent as it is, "p" pushes a parameter, "num" and "chr" push a   *)
(* constant, "d" and "c" pop a number and send it as digits or as a        *)
(* character, "i" counts both parameters from 1, "?", "t", "e" and ";" are *)
(* the conditional.  The bitwise operators and strings are left out: no    *)
(* cursor address of a real terminal needs them.  What is sent is a        *)
(* sequence of characters <<"lit", c>> and numbers <<"d", n>>, <<"c", n>>. *)

CONSTANT StackSize   \* STACKSIZE

ASSUME StackAssumption == StackSize \in Nat

Lit(c) == <<"lit", c>>
ESC == "ESC"

\* A full stack takes no more, an empty one gives 0.
npush(m, n) == IF Len(m.stack) < StackSize THEN [m EXCEPT !.stack = Append(@, n)] ELSE m
npop(m)     == IF m.stack = <<>> THEN 0 ELSE Last(m.stack)
Popped(m)   == IF m.stack = <<>> THEN m ELSE [m EXCEPT !.stack = Front(@)]
Send(m, x)  == [m EXCEPT !.out = Append(@, x)]

Truth(b) == IF b THEN 1 ELSE 0

\* y is on top of the stack, x below it.
Binary(op, x, y) ==
  CASE op = "+" -> x + y
    [] op = "-" -> x - y
    [] op = "*" -> x * y
    [] op = "/" -> IF y = 0 THEN 0 ELSE x \div y
    [] op = "m" -> IF y = 0 THEN 0 ELSE x % y
    [] op = "A" -> Truth(x # 0 /\ y # 0)
    [] op = "O" -> Truth(x # 0 \/ y # 0)
    [] op = "=" -> Truth(x = y)
    [] op = "<" -> Truth(x < y)
    [] op = ">" -> Truth(x > y)
Binaries == {"+", "-", "*", "/", "m", "A", "O", "=", "<", ">"}

\* A branch that is not taken is passed over up to its end; conditionals in it are
\* counted.  skip is "no", "then" (up to %e or %;) or "else" (up to %;).
Skip(m, op) ==
  CASE op = "?" -> [m EXCEPT !.level = @ + 1]
    [] op = ";" /\ m.level > 0 -> [m EXCEPT !.level = @ - 1]
    [] op = ";" /\ m.level = 0 -> [m EXCEPT !.skip = "no"]
    [] op = "e" /\ m.level = 0 /\ m.skip = "then" -> [m EXCEPT !.skip = "no"]
    [] OTHER -> m

Execute(m, op, arg) ==
  CASE op = "lit" -> Send(m, Lit(arg))
    [] op \in {"d", "c"} -> Send(Popped(m), <<op, npop(m)>>)
    [] op = "p" -> npush(m, m.param[arg])
    [] op \in {"num", "chr"} -> npush(m, arg)
    [] op = "i" -> [m EXCEPT !.param = [j \in DOMAIN @ |-> IF j <= 2 THEN @[j] + 1 ELSE @[j]]]
    [] op = "P" -> [Popped(m) EXCEPT !.var = npop(m)]
    [] op = "g" -> npush(m, m.var)
    [] op = "!" -> npush(Popped(m), Truth(npop(m) = 0))
    [] op \in Binaries -> npush(Popped(Popped(m)), Binary(op, npop(Popped(m)), npop(m)))
    [] op = "t" -> IF npop(m) = 0 THEN [Popped(m) EXCEPT !.skip = "then", !.level = 0] ELSE Popped(m)
    [] op = "e" -> [m EXCEPT !.skip = "else", !.level = 0]
    [] OTHER -> m

\* A string that names no parameter has them on the stack.
Uses(string, ops) == \E i \in DOMAIN string : string[i][1] \in ops
tparam_internal(string, param) ==
  LET start == IF Uses(string, {"p", "i"}) THEN <<>> ELSE Reverse(param)
      m0 == [stack |-> start, out |-> <<>>, param |-> param, var |-> 0, skip |-> "no", level |-> 0]
  IN FoldLeft(LAMBDA m, tok : IF m.skip # "no" THEN Skip(m, tok[1]) ELSE Execute(m, tok[1], tok[2]), m0, string).out
grub_tparm(string, param) == tparam_internal(string, param)

ti_cursor_address(term, x, y) == grub_tparm(term.cursor_address, <<y, x>>)
ti_clear_screen(term) == grub_tparm(term.clear_screen, <<>>)

\* What terminfo is given is written with escapes: \e, \s, and ^ for control
\* characters, which are lost.
ti_unescape_memory(in) ==
  FoldLeft(LAMBDA out, tok : CASE tok = <<"esc", "e">> -> Append(out, Lit(ESC))
                               [] tok = <<"esc", "s">> -> Append(out, Lit(" "))
                               [] tok[1] = "ctl" -> out
                               [] OTHER -> Append(out, tok), <<>>, in)
----------------------------------------------------------------------------
(* The drivers.                                                            *)
CONSTANTS Rows, Cols, ByteSize  \* the screen, and 256

ASSUME ScreenAssumption == Rows \in Nat \ {0, 1} /\ Cols \in Nat \ {0, 1} /\ ByteSize \in Nat \ {0}

\* The rest of a function, given what the call before it has returned.
Then(result, Rest(_)) == Rest(result)

Pos == (0 .. Rows - 1) \X (0 .. Cols - 1)
CR == "CR"
LF == "LF"
BS == "BS"
Text == {"eficon", "hercules", "serial"}
Efi == {"eg", "uga"}
Graphics == Efi \cup {"vga"}

Plain(c)  == [ch |-> c, look |-> "plain"]
\* A screen is a sequence of rows, a row a sequence of cells.
BlankRow == [x \in 1 .. Cols |-> Plain(" ")]
Empty == [y \in 1 .. Rows |-> BlankRow]
At(s, p) == s[p[1] + 1][p[2] + 1]
With(s, p, c) == [s EXCEPT ![p[1] + 1][p[2] + 1] = c]
ScrollUp(s) == Append(Tail(s), BlankRow)

NewTerm(kind, term) == [kind |-> kind, x |-> 0, y |-> 0, hx |-> 0, hy |-> 0, scr |-> Empty, text |-> Empty,
                        scroll |-> TRUE, term |-> term]
----------------------------------------------------------------------------
(* Hercules, and the text output of the EFI firmware.                      *)

Cell(t) == <<t.y, t.x>>
Hcell(t, c) == [t EXCEPT !.scr = With(@, Cell(t), Plain(c)), !.x = IF t.x + 1 >= Cols THEN 0 ELSE @ + 1,
                         !.y = IF t.x + 1 >= Cols THEN @ + 1 ELSE @]
hercules_putchar(t, c) ==
  Then(CASE c = BS -> [t EXCEPT !.x = IF @ > 0 THEN @ - 1 ELSE 0]
         [] c = LF -> [t EXCEPT !.y = @ + 1]
         [] c = CR -> [t EXCEPT !.x = 0]
         [] OTHER -> Hcell(t, c), LAMBDA m :
  IF m.y >= Rows THEN [m EXCEPT !.y = Rows - 1, !.scr = ScrollUp(@)] ELSE m)
herc_set_cursor(t) == [t EXCEPT !.hx = t.x, !.hy = t.y]
hercules_gotoxy(t, x, y) == herc_set_cursor([t EXCEPT !.x = x, !.y = y])
hercules_cls(t) == herc_set_cursor([t EXCEPT !.scr = Empty, !.x = 0, !.y = 0])

\* The firmware's cursor follows what it writes, and is where it is told to be.
OutputString(t, c) == herc_set_cursor(hercules_putchar(t, c))
console_putchar(t, c) == OutputString(t, c)
console_gotoxy(t, x, y) == hercules_gotoxy(t, x, y)
console_cls(t) == hercules_cls(t)
----------------------------------------------------------------------------
(* The serial line.  The terminal at its other end is hx, hy and scr.      *)

Clamp(n, max) == IF n < 0 THEN 0 ELSE IF n > max THEN max ELSE n
Remote(t, c) ==
  CASE c = CR -> [t EXCEPT !.hx = 0]
    [] c = BS -> [t EXCEPT !.hx = Clamp(@ - 1, Cols - 1)]
    [] c = LF /\ t.hy < Rows - 1 -> [t EXCEPT !.hy = @ + 1]
    [] c = LF /\ t.hy = Rows - 1 -> [t EXCEPT !.scr = ScrollUp(@)]
    [] OTHER -> [t EXCEPT !.scr = With(@, <<t.hy, t.hx>>, Plain(c)), !.hx = Clamp(@ + 1, Cols - 1)]

\* Control strings that the remote terminal knows; others it ignores.
RemoteGoto(t, out) ==
  LET Move(y, x) == [t EXCEPT !.hy = Clamp(y, Rows - 1), !.hx = Clamp(x, Cols - 1)]
      n == Len(out)
      Has(k, c) == k <= n /\ out[k] = Lit(c)
  IN CASE Has(2, "[") /\ n = 6 -> Move(out[3][2] - 1, out[5][2] - 1)
       [] Has(2, "Y") /\ n = 4 -> Move(out[3][2] - 32, out[4][2] - 32)
       [] Has(2, "&") /\ n = 5 -> Move(out[4][2], 0)
       [] Has(2, "&") /\ n = 7 -> Move(out[4][2], out[6][2])
       [] OTHER -> t

\* A column is left free at the end of a line, so that the remote terminal never wraps.
serial_track(t, c) ==
  CASE c = CR -> Remote([t EXCEPT !.x = 0], c)
    [] c = LF -> Remote([t EXCEPT !.y = @ + 1], c)
    [] c = BS -> Remote([t EXCEPT !.x = IF @ > 0 THEN @ - 1 ELSE 0], c)
    [] OTHER -> Remote([t EXCEPT !.x = @ + 1], c)
serial_putchar(t, c) ==
  FoldLeft(serial_track, t, IF c \notin {CR, LF, BS} /\ t.x >= Cols - 1 THEN <<CR, LF, c>> ELSE <<c>>)
serial_gotoxy(t, x, y) == [RemoteGoto(t, ti_cursor_address(t.term, x, y)) EXCEPT !.x = x, !.y = y]
serial_cls(t) ==
  LET cleared == ti_clear_screen(t.term) # <<>> IN
  [t EXCEPT !.x = 0, !.y = 0, !.hx = IF cleared THEN 0 ELSE @, !.hy = IF cleared THEN 0 ELSE @,
            !.scr = IF cleared THEN Empty ELSE @]
----------------------------------------------------------------------------
(* Graphics.  A cell is drawn from t.text; on VGA by graphics_cursor, on   *)
(* EFI by clbl of the backend.                                             *)

Looks(c, set) == [c EXCEPT !.look = IF set THEN "cursor" ELSE @]
Hidden(t, set) == set /\ ~t.scroll

vga_cursor(t, set) == IF Hidden(t, set) THEN t ELSE [t EXCEPT !.scr = With(@, Cell(t), Looks(At(t.text, Cell(t)), set))]

\* One cell, or the whole screen with or without its text.
eg_clbl_cell(t, p) == [t EXCEPT !.scr = With(@, p, At(t.text, p))]
eg_clbl(t, text) == [t EXCEPT !.scr = IF text THEN t.text ELSE Empty]
eg_cursor(t, set) ==
  IF Hidden(t, set) THEN t
  ELSE [eg_clbl_cell([t EXCEPT !.text = With(@, Cell(t), Looks(At(@, Cell(t)), set))], Cell(t)) EXCEPT !.text = t.text]

\* The same code again for the older protocol.
uga_clbl_cell(t, p) == [t EXCEPT !.scr = With(@, p, At(t.text, p))]
uga_clbl(t, text) == [t EXCEPT !.scr = IF text THEN t.text ELSE Empty]
uga_cursor(t, set) ==
  IF Hidden(t, set) THEN t
  ELSE [uga_clbl_cell([t EXCEPT !.text = With(@, Cell(t), Looks(At(@, Cell(t)), set))], Cell(t)) EXCEPT !.text = t.text]

graphics_cursor(t, set) == CASE t.kind = "vga" -> vga_cursor(t, set)
                             [] t.kind = "eg" -> eg_cursor(t, set)
                             [] t.kind = "uga" -> uga_cursor(t, set)

vga_setxy(t, x, y) == [t EXCEPT !.x = IF x \in 0 .. Cols - 1 THEN x ELSE @, !.y = IF y \in 0 .. Rows - 1 THEN y ELSE @]
efi_setxy(t, x, y) == [t EXCEPT !.x = x, !.y = y]
setxy(t, x, y) == IF t.kind = "vga" THEN vga_setxy(t, x, y) ELSE efi_setxy(t, x, y)

\* Scroll(t) is what happens below the last line.  The cell under the cursor is drawn
\* without the cursor, and again with the new character; then the cursor moves.
Down(t, Scroll(_)) == IF t.y + 1 < Rows THEN setxy(t, t.x, t.y + 1) ELSE Scroll(t)
Glyph(t, c) == IF c \in {LF, CR} THEN t
               ELSE graphics_cursor([t EXCEPT !.text = With(@, Cell(t), Plain(c))], FALSE)
graphics_putchar(t, c, Scroll(_)) ==
  Then(Glyph(graphics_cursor(t, FALSE), c), LAMBDA a :
  LET wraps == c \notin {LF, CR} /\ a.x + 1 >= Cols
      x == CASE c = LF -> a.x [] c = CR \/ wraps -> 0 [] OTHER -> a.x + 1
  IN graphics_cursor(Then(setxy(a, x, a.y), LAMBDA b : IF c = LF \/ wraps THEN Down(b, Scroll) ELSE b), TRUE))

Stay(t) == t
Line(t, cs) == FoldLeft(LAMBDA u, c : graphics_putchar(u, c, Stay), t, cs)
RowOf(t, y) == [i \in 1 .. Cols |-> t.text[y + 1][i].ch]
Spaces == [i \in 1 .. Cols |-> " "]
graphics_gotoxy(t, x, y) == graphics_cursor(setxy(graphics_cursor(t, FALSE), x, y), TRUE)

\* VGA: the lines are written again, one higher, and the last one with spaces.
vga_scroll(t) ==
  LET Below(u, j) == IF j < Rows THEN RowOf(u, j) ELSE Spaces
      up == FoldLeft(LAMBDA u, j : Line(graphics_gotoxy(u, 0, j - 1), Below(u, j)),
                     [t EXCEPT !.scroll = FALSE], [i \in 1 .. Rows |-> i])
  IN [setxy(up, 0, Rows - 1) EXCEPT !.scroll = TRUE]

\* EFI: the characters are moved, the last line is cleared, and everything is drawn.
efi_redraw(t, text) == IF t.kind = "eg" THEN eg_clbl(t, text) ELSE uga_clbl(t, text)
\* Mutant: the last line keeps what it had.
LastLineStays(t) ==
  setxy(efi_redraw([t EXCEPT !.text = Append(Tail(@), Last(@))], TRUE), 0, Rows - 1)
efi_scroll(t) ==
  LET off == [t EXCEPT !.scroll = FALSE, !.text = Append(Tail(@), Last(@))]
      end == Line(setxy(off, 0, Rows - 1), Spaces)
  IN [setxy(efi_redraw(end, TRUE), 0, Rows - 1) EXCEPT !.scroll = TRUE]

vga_putchar(t, c) == graphics_putchar(t, c, vga_scroll)
efi_putchar(t, c) == graphics_putchar(t, c, efi_scroll)

vga_cls(t) == [graphics_gotoxy(graphics_cursor(t, FALSE), 0, 0) EXCEPT
                 !.text = Empty, !.scr = With(Empty, <<0, 0>>, Looks(Plain(" "), TRUE))]
efi_cls(t) == graphics_gotoxy(efi_redraw([t EXCEPT !.text = Empty], FALSE), 0, 0)
----------------------------------------------------------------------------
(* The table of stage2/char_io.c.                                          *)

term_putchar(t, c) ==
  CASE t.kind = "eficon" -> console_putchar(t, c)
    [] t.kind = "hercules" -> hercules_putchar(t, c)
    [] t.kind = "serial" -> serial_putchar(t, c)
    [] t.kind = "vga" -> vga_putchar(t, c)
    [] t.kind \in Efi -> efi_putchar(t, c)
Newline(c) == IF c = LF THEN <<CR, LF>> ELSE <<c>>
grub_putchar(t, c) == FoldLeft(term_putchar, t, Newline(c))
gotoxy(t, x, y) ==
  CASE t.kind = "eficon" -> console_gotoxy(t, x, y)
    [] t.kind = "hercules" -> hercules_gotoxy(t, x, y)
    [] t.kind = "serial" -> serial_gotoxy(t, x, y)
    [] t.kind \in Graphics -> graphics_gotoxy(t, x, y)
term_cls(t) ==
  CASE t.kind = "eficon" -> console_cls(t)
    [] t.kind = "hercules" -> hercules_cls(t)
    [] t.kind = "serial" -> serial_cls(t)
    [] t.kind = "vga" -> vga_cls(t)
    [] t.kind \in Efi -> efi_cls(t)
cls(t, dumb) == IF dumb THEN grub_putchar(t, LF) ELSE term_cls(t)

\* The row that getxy () & 0xFF yields.
getrow(t) == t.y % ByteSize

Shown(t) == [p \in Pos |-> At(t.scr, p).ch]
CursorAt(t) == IF t.kind \in Text THEN {<<t.hy, t.hx>>} ELSE {p \in Pos : At(t.scr, p).look = "cursor"}
----------------------------------------------------------------------------
(* How the graphics terminal enters and leaves graphics: efi/graphics.c    *)
(* with its backends efi/efigraph.c (graphics output protocol) and         *)
(* efi/efiuga.c (UGA draw protocol), and stage2/graphics.c on a BIOS.      *)
(*                                                                         *)
(* g.fw is the firmware: text, whether it shows its text console; mode,    *)
(* the mode of the screen.  A mode is a number, described by fw.modes.     *)
(* fw.takes are the modes that can be set.  g.eg and g.uga are what the    *)
(* backends keep, None where nothing is.                                   *)

CONSTANTS None,
          UgaModes   \* the modes UGA is tried with, in that order

set_text_mode(g, on) == [g EXCEPT !.fw.text = on]
set_video_mode(g, m) == [g EXCEPT !.fw.mode = IF m \in g.fw.takes THEN m ELSE @]

NoPriv == [there |-> FALSE, text_mode |-> None, graphics_mode |-> None, current |-> "text"]
NewGraphics(fw) == [fw |-> fw, eg |-> NoPriv, uga |-> NoPriv, backend |-> None, inited |-> FALSE]
----------------------------------------------------------------------------
(* efigraph.c.  The pixel format comes first, then the resolution; the     *)
(* preference for the mode that the firmware is in is compiled out         *)
(* (efigraph.c:1176), and so is what disable undoes (efigraph.c:1097,      *)
(* efiuga.c:955): it forgets that graphics is on, and sets nothing.        *)

Rank(m) == CASE m.format = "blt" -> 0 [] m.format = "rgbr" -> 1 [] m.format = "bgrr" -> 2 [] m.format = "mask" -> 3
Sign(n) == IF n > 0 THEN 1 ELSE IF n < 0 THEN -1 ELSE 0
modecmp(modes, a, b) ==
  LET x == modes[a] y == modes[b] IN
  CASE Rank(x) # Rank(y) -> Sign(Rank(x) - Rank(y))
    [] x.width > y.width /\ x.height > y.height -> 1
    [] x.width < y.width /\ x.height < y.height -> -1
    [] OTHER -> 0

SwapIf(seq, i, j, swap) == IF swap THEN [seq EXCEPT ![i] = seq[j], ![j] = seq[i]] ELSE seq
\* Mutant: neighbours are compared once.
OnePass(modes) ==
  FoldLeft(LAMBDA q, i : SwapIf(q, i, i + 1, modecmp(modes, q[i + 1], q[i]) < 0),
           [i \in 1 .. Len(modes) |-> i], [i \in 1 .. Len(modes) - 1 |-> i])
sort_modes(modes) ==
  LET n == Len(modes)
      Pass(seq, i) == FoldLeft(LAMBDA q, d : SwapIf(q, i, i + d, modecmp(modes, q[i + d], q[i]) < 0),
                               seq, [d \in 1 .. n - i |-> d])
  IN FoldLeft(Pass, [i \in 1 .. n |-> i], [i \in 1 .. n |-> i])

eg_find_mode(g) ==
  LET order == Reverse(sort_modes(g.fw.modes))
      k == SelectInSeq(order, LAMBDA m : m \in g.fw.takes)
      none == set_video_mode(set_text_mode(g, TRUE), g.eg.text_mode)
      h == set_video_mode(set_text_mode(g, FALSE), order[k])
  IN IF k = 0 THEN none ELSE [h EXCEPT !.eg.graphics_mode = order[k]]

\* When a mode was found before, nothing is set again.
eg_try_enable(g) ==
  LET a == IF g.eg.text_mode # None THEN g ELSE [set_text_mode(g, TRUE) EXCEPT !.eg.text_mode = g.fw.mode]
      b == IF a.eg.graphics_mode # None THEN a ELSE eg_find_mode(a)
  IN IF b.eg.graphics_mode = None THEN b ELSE [b EXCEPT !.eg.current = "graphics"]
KeepPriv(g) == IF g.eg.current = "graphics" THEN g ELSE [g EXCEPT !.eg = NoPriv]
eg_enable(g) ==
  IF ~g.fw.gop THEN g
  ELSE IF g.eg.current = "graphics" THEN [g EXCEPT !.eg.there = TRUE]
  ELSE KeepPriv(eg_try_enable([g EXCEPT !.eg.there = TRUE]))
eg_disable(g) ==
  IF ~g.eg.there \/ g.eg.current # "graphics" THEN g
  ELSE [g EXCEPT !.eg.current = "text"]
----------------------------------------------------------------------------
(* efiuga.c.                                                               *)

cmp_video_modes(a, b) == IF a.width = b.width /\ a.height = b.height THEN 0
                         ELSE IF a.width >= b.width /\ a.height >= b.height THEN 1 ELSE -1

\* The modes are tried in their order, and the one the firmware was in last.
Tried(g, m) == cmp_video_modes(g.fw.modes[m], g.fw.modes[set_video_mode(g, m).fw.mode]) = 0
uga_find_mode(g) ==
  LET now == g.fw.mode
      all == Append(UgaModes, now)
      m == all[SelectInSeq(all, LAMBDA x : Tried(g, x))]
  IN IF cmp_video_modes(g.fw.modes[now], g.fw.modes[UgaModes[1]]) >= 0 THEN [g EXCEPT !.uga.graphics_mode = now]
     ELSE [set_video_mode(g, m) EXCEPT !.uga.graphics_mode = m]
uga_try_enable(g) ==
  LET a == IF g.uga.text_mode # None THEN g ELSE [set_text_mode(g, TRUE) EXCEPT !.uga.text_mode = g.fw.mode]
      b == IF a.uga.graphics_mode = None THEN uga_find_mode(set_text_mode(a, FALSE))
           ELSE set_video_mode(a, a.uga.graphics_mode)
  IN [b EXCEPT !.uga.current = "graphics"]
uga_enable(g) == IF ~g.fw.uga THEN g
                 ELSE IF g.uga.current = "graphics" THEN g ELSE uga_try_enable([g EXCEPT !.uga.there = TRUE])
uga_disable(g) ==
  IF ~g.uga.there \/ g.uga.current # "graphics" THEN g
  ELSE [g EXCEPT !.uga.current = "text"]
----------------------------------------------------------------------------
(* graphics.c: the backends are tried once, and the one that works stays,  *)
(* or the last one.                                                        *)
(* On a BIOS there is one, which works when the splash image can be read.  *)

Enabled(g, b) == [g EXCEPT !.backend = b, !.inited = TRUE]
UgaOrNone(g) == IF g.uga.there THEN Enabled(g, "uga") ELSE [g EXCEPT !.backend = "uga"]
EgOrUga(g) == IF g.eg.there THEN Enabled(g, "eg") ELSE UgaOrNone(uga_enable(g))
efi_graphics_init(g) ==
  IF g.inited THEN g
  ELSE IF g.backend = "uga" THEN UgaOrNone(uga_enable(g)) ELSE EgOrUga(eg_enable(g))
bios_graphics_init(g) == IF g.fw.image THEN Enabled(set_text_mode(g, FALSE), "vga") ELSE g
graphics_init(g) == IF g.fw.bios THEN bios_graphics_init(g) ELSE efi_graphics_init(g)
graphics_end(g) ==
  LET h == [g EXCEPT !.inited = FALSE] IN
  CASE ~g.inited -> g
    [] g.inited /\ g.backend = "eg" -> eg_disable(h)
    [] g.inited /\ g.backend = "uga" -> uga_disable(h)
    [] g.inited /\ g.backend = "vga" -> set_text_mode(h, TRUE)
=============================================================================
