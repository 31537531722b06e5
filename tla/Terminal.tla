------------------------------ MODULE Terminal ------------------------------
(***************************************************************************)
(* The command line on its terminals: the commands that set terminals up   *)
(* and choose one (serial, terminfo, splashimage, terminal), the keys of   *)
(* the keyboard and of the serial line on their way to the line editor,    *)
(* and the line editor on the screen.                                      *)
(*                                                                         *)
(* A serial key is one byte, or an escape sequence.  The bytes of one key  *)
(* arrive without a pause as long as fill_input_buf's loop; the user types *)
(* ahead as many as Ahead keys, on the terminal in use.  owed, for each    *)
(* device, holds the codes of the keys typed on it that nobody has been    *)
(* given yet.                                                              *)
(***************************************************************************)
EXTENDS LineEdit

CONSTANTS Names,        \* the terminals of term_table
          InputBuf,     \* sizeof (input_buf)
          Ahead, MaxCmds,
          MaxRow,       \* seconds without a --timeout are counted up to this row
          Starts,       \* how the command line finds the system: fw, secure, term (of terminfo), need_init,
                        \* hs (history); and user, the keys that may be typed and how many
          Terminfos,    \* what terminfo may set
          Lines,        \* lines the editor may start with
          Arguments     \* what terminal may be called with: names, opts, secs (0: no --timeout), quiet

VARIABLES gfx, cur, terms, need_init, flags, phase, named, to, silent, ed, secure,
          kbd, read_key, wire, input_buf, owed, user, cmds
vars == <<gfx, cur, terms, need_init, flags, phase, named, to, silent, ed, secure,
          kbd, read_key, wire, input_buf, owed, user, cmds>>
input == <<kbd, read_key, wire, input_buf, owed, user>>
setup == <<need_init, flags, named, to, silent, secure>>

Devices == {"kbd", "serial"}
DeviceOf(n) == IF n = "serial" THEN "serial" ELSE "kbd"
TableOrder == <<"console", "serial", "hercules", "graphics">>
KindOf(n, fw) == CASE n = "console" -> "eficon"
                   [] n = "graphics" -> IF fw.bios THEN "vga" ELSE "eg"
                   [] OTHER -> n
----------------------------------------------------------------------------
(* Keys on the serial line.                                                *)

three_code_table == [A |-> "C-p", B |-> "C-n", C |-> "C-f", D |-> "C-b", F |-> "C-e", H |-> "C-a"]
four_code_table  == <<"C-a", None, "C-d", None, "C-g", "C-c">>
Digit == [d \in {"1", "3", "5", "6"} |-> CASE d = "1" -> 1 [] d = "3" -> 3 [] d = "5" -> 5 [] d = "6" -> 6]

serial_translate_key_sequence(b) ==
  CASE Len(b) < 3 \/ SubSeq(b, 1, 2) # <<ESC, "[">> -> b
    [] Len(b) >= 3 /\ b[3] \in DOMAIN three_code_table -> <<three_code_table[b[3]]>> \o SubSeq(b, 4, Len(b))
    [] Len(b) >= 4 /\ b[3] \in DOMAIN Digit /\ b[4] = "~" -> <<four_code_table[Digit[b[3]]]>> \o SubSeq(b, 5, Len(b))
    [] OTHER -> b

\* Bytes are fetched until none comes any more or the buffer is full; one at most
\* where nobody waits.  The result is <<input_buf, what is left on the wire>>.
fill_input_buf(b, w, nowait) ==
  LET n == Least(Len(w), Least(InputBuf - Len(b), IF nowait THEN 1 ELSE InputBuf)) IN
  <<serial_translate_key_sequence(b \o SubSeq(w, 1, n)), SubSeq(w, n + 1, Len(w))>>
\* Mutant: the rest of an escape sequence is not waited for.
NoWait(b, w) ==
  LET f == fill_input_buf(b, w, TRUE) IN [key |-> Head(f[1]), buf |-> Tail(f[1]), wire |-> f[2]]
serial_getkey(b, w) ==
  LET f == fill_input_buf(b, w, FALSE) IN [key |-> Head(f[1]), buf |-> Tail(f[1]), wire |-> f[2]]
serial_checkkey(b, w) == fill_input_buf(b, w, TRUE)

\* What a key sends, and the code it stands for.
Sends(k) == CASE k = "C-p" -> <<ESC, "[", "A">> [] k = "C-n" -> <<ESC, "[", "B">>
              [] k = "C-b" -> <<ESC, "[", "D">> [] k = "C-a" -> <<ESC, "[", "1", "~">>
              [] k = "C-d" -> <<ESC, "[", "3", "~">> [] OTHER -> <<k>>

\* The firmware reports arrows and such as scan codes; keys it knows no code for are lost.
Scan == ("C-p" :> 1) @@ ("C-n" :> 2) @@ ("C-f" :> 3) @@ ("C-b" :> 4) @@ ("C-a" :> 5) @@ ("C-e" :> 6) @@ ("C-d" :> 8)
        @@ (ESC :> 23) @@ ("PgUp" :> 9)
Stroke(k) == IF k \in DOMAIN Scan THEN <<Scan[k], None>> ELSE <<0, k>>
console_key(stroke) ==
  LET s == stroke[1] IN
  CASE s = 0 -> stroke[2]
    [] s = 1 -> "C-p" [] s = 2 -> "C-n" [] s = 3 -> "C-f" [] s = 4 -> "C-b"
    [] s = 5 -> "C-a" [] s = 6 -> "C-e" [] s = 8 -> "C-d" [] s = 23 -> ESC
    [] OTHER -> None
console_checkkey(rk, q) == IF rk # None \/ q = <<>> THEN <<rk, q>> ELSE <<console_key(Head(q)), Tail(q)>>

\* checkkey of a device, as the new read_key, kbd, input_buf and wire.
Polled(d) ==
  LET c == console_checkkey(read_key, kbd)
      f == serial_checkkey(input_buf, wire)
  IN IF d = "kbd" THEN [rk |-> c[1], q |-> c[2], b |-> input_buf, w |-> wire]
     ELSE [rk |-> read_key, q |-> kbd, b |-> f[1], w |-> f[2]]
HasKey(d, i) == IF d = "kbd" THEN i.rk # None ELSE i.b # <<>>
console_getkey(i) == [key |-> i.rk, next |-> [i EXCEPT !.rk = None]]
getkey(d, i) ==
  IF d = "kbd" THEN console_getkey(i)
  ELSE LET g == serial_getkey(i.b, i.w) IN [key |-> g.key, next |-> [i EXCEPT !.b = g.buf, !.w = g.wire]]
Input(i) == /\ read_key' = i.rk /\ kbd' = i.q
            /\ input_buf' = i.b /\ wire' = i.w

\* The key k was given to the program: it is the first one that is owed.
Paid(q, k) == IF q # <<>> /\ Head(q) = k THEN Tail(q) ELSE <<"unexpected">> \o q

Type(k, d) ==
  /\ user.left > 0 /\ Len(owed[d]) < Ahead
  /\ phase = "wait" \/ (phase \in {"edit", "raw"} /\ d = DeviceOf(cur))
  /\ IF d = "kbd" THEN kbd' = Append(kbd, Stroke(k)) /\ wire' = wire ELSE wire' = wire \o Sends(k) /\ kbd' = kbd
  /\ owed' = IF d = "kbd" /\ k = "PgUp" THEN owed ELSE [owed EXCEPT ![d] = Append(@, k)]
  /\ user' = [user EXCEPT !.left = @ - 1]
  /\ UNCHANGED <<read_key, input_buf, gfx, cur, terms, setup, phase, ed, cmds>>
----------------------------------------------------------------------------
(* The editor.                                                             *)

RefOf(t) == [NewTerm("eficon", None) EXCEPT !.scr = IF t.kind \in Text THEN t.scr ELSE t.text, !.x = t.x, !.y = Least(t.y, Rows - 1)]
Editor(t, dumb, old) == [t |-> t, ref |-> RefOf(t), dumb |-> dumb, prompt |-> <<"%">>, buf |-> <<>>, lpos |-> 0, xpos |-> 0,
                         section |-> 0, h |-> -1, kill |-> old.kill, hs |-> old.hs, saved |-> <<>>, echo |-> TRUE,
                         readline |-> TRUE, maxlen |-> MaxCmdline + 1]

\* A terminal that does not edit shows the prompt and forgets the line.
get_cmdline(s, line, fl) ==
  IF "noedit" \in fl THEN Puts([s EXCEPT !.buf = <<>>], s.prompt) ELSE real_get_cmdline(s, line)
PhaseOf(fl) == IF "noedit" \in fl THEN "raw" ELSE "edit"

\* enter_cmdline: the page, and the first line.
Page(s) == [s EXCEPT !.t = cls(@, s.dumb), !.ref = IF s.dumb THEN FoldLeft(console_putchar, @, Newline(LF)) ELSE console_cls(@)]
enter_cmdline(t, fl) == get_cmdline(Put(Page(Editor(t, "dumb" \in fl, ed)), "G"), <<>>, fl)

Ready(d) == IF d = "kbd" THEN read_key # None \/ (kbd # <<>> /\ console_key(Head(kbd)) # None) ELSE input_buf \o wire # <<>>
GetKey(d) ==
  LET i == IF d = "kbd" THEN Polled(d) ELSE [rk |-> read_key, q |-> kbd, b |-> input_buf, w |-> wire]
      g == getkey(d, i)
  IN /\ Ready(d)
     /\ Input(g.next)
     /\ owed' = [owed EXCEPT ![d] = Paid(@, g.key)]
     /\ user' = user
KeyOf(d) == IF d = "kbd" THEN getkey(d, Polled(d)).key
            ELSE getkey(d, [rk |-> read_key, q |-> kbd, b |-> input_buf, w |-> wire]).key

\* A key of the firmware that means nothing is read and forgotten while waiting for one.
Unknown == /\ phase \in {"edit", "raw"} /\ DeviceOf(cur) = "kbd" /\ read_key = None /\ kbd # <<>>
           /\ console_key(Head(kbd)) = None
           /\ kbd' = Tail(kbd)
           /\ UNCHANGED <<read_key, wire, input_buf, owed, user, gfx, cur, terms, setup, phase, ed, cmds>>

Leaves(c) == c = "RET" \/ (c = ESC /\ ~secure)
Edit ==
  LET d == DeviceOf(cur) c == KeyOf(d) IN
  /\ phase = "edit" /\ GetKey(d) /\ ~Leaves(c) /\ c # "TAB"
  /\ ed' = edit_key(ed, c, secure)
  /\ UNCHANGED <<gfx, cur, terms, setup, phase, cmds>>
Complete ==
  LET d == DeviceOf(cur) IN
  /\ phase = "edit" /\ GetKey(d) /\ KeyOf(d) = "TAB"
  /\ IF ed.readline THEN \E found \in -1 .. 1, c \in {"a"} : ed' = complete(ed, found, <<c>>) ELSE ed' = ed
  /\ UNCHANGED <<gfx, cur, terms, setup, phase, cmds>>
Leave ==
  LET d == DeviceOf(cur) c == KeyOf(d)
  IN /\ phase = "edit" /\ GetKey(d) /\ Leaves(c)
     /\ ed' = IF c = "RET" THEN end_line(ed) ELSE ed
     /\ terms' = [terms EXCEPT ![cur] = ed'.t]
     /\ phase' = "cmd"
     /\ UNCHANGED <<gfx, cur, setup, cmds>>
Raw ==
  LET d == DeviceOf(cur) c == KeyOf(d)
      echo == "noecho" \notin flags[cur]
  IN /\ phase = "raw" /\ GetKey(d)
     /\ ed' = IF Leaves(c) THEN (IF c = "RET" /\ echo THEN Put(ed, LF) ELSE ed) ELSE raw_key(ed, c, echo)
     /\ terms' = IF Leaves(c) THEN [terms EXCEPT ![cur] = ed'.t] ELSE terms
     /\ phase' = IF Leaves(c) THEN "cmd" ELSE phase
     /\ UNCHANGED <<gfx, cur, setup, cmds>>
----------------------------------------------------------------------------
(* Commands.                                                               *)

Command == phase = "cmd" /\ cmds < MaxCmds /\ cmds' = cmds + 1

\* The next line is read on the same page.
NextLine(s, line, fl) == /\ ed' = get_cmdline(s, line, fl)
                         /\ phase' = PhaseOf(fl)

\* A command that prints a line; the editor of a menu entry, which starts with a
\* line of its own; a question for a password.
Same == [ed EXCEPT !.t = terms[cur], !.dumb = "dumb" \in flags[cur], !.ref = RefOf(terms[cur]),
                   !.echo = TRUE, !.readline = TRUE, !.maxlen = MaxCmdline + 1]
Output == /\ Command
          /\ \E line \in Lines : NextLine(Puts(Same, <<"o", LF>>), line, flags[cur])
          /\ UNCHANGED <<gfx, cur, terms, setup, input>>
AskPassword == /\ Command
               /\ NextLine([Same EXCEPT !.echo = FALSE, !.readline = FALSE, !.maxlen = 4], <<>>, flags[cur])
               /\ UNCHANGED <<gfx, cur, terms, setup, input>>

\* serial: only the speeds of divisor_tab, and on EFI only a unit that is there.
\* The UART's initialization drains the line.
get_device(fw, unit) == unit \in fw.units
efi_serial_hw_init(fw, unit) == get_device(fw, unit)
uart_hw_init(speed) == speed = 9600
serial_hw_init(fw, speed, unit) == IF fw.bios THEN uart_hw_init(speed) ELSE efi_serial_hw_init(fw, unit)
serial_func(speed, unit) ==
  LET ok == serial_hw_init(gfx.fw, speed, unit)
      drain == ok /\ gfx.fw.bios
  IN /\ Command
     /\ need_init' = IF ok THEN need_init \ {"serial"} ELSE need_init
     /\ wire' = IF drain THEN <<>> ELSE wire
     /\ input_buf' = IF drain THEN <<>> ELSE input_buf
     /\ owed' = IF drain THEN [owed EXCEPT !["serial"] = <<>>] ELSE owed
     /\ NextLine(Same, <<>>, flags[cur])
     /\ UNCHANGED <<kbd, read_key, user, gfx, cur, terms, flags, named, to, silent, secure>>

Unescaped(term) == [cursor_address |-> ti_unescape_memory(term.cursor_address),
                    clear_screen |-> ti_unescape_memory(term.clear_screen)]
terminfo_func(term) ==
  LET set == Unescaped(term)
      s == IF cur = "serial" THEN [Same EXCEPT !.t.term = set] ELSE Same
  IN /\ Command
     /\ set.cursor_address # <<>>
     /\ terms' = [terms EXCEPT !["serial"].term = set]
     /\ NextLine(s, <<>>, flags[cur])
     /\ UNCHANGED <<gfx, cur, setup, input>>

\* A new terminal is started and the command line begins again; a terminal that cannot
\* be started is used all the same, except on a BIOS.
Started(g, prev, new) ==
  LET a == IF prev = "graphics" THEN graphics_end(g) ELSE g IN
  IF new = "graphics" THEN graphics_init(a) ELSE a
Select(new, opts) ==
  /\ gfx' = IF new = cur THEN gfx ELSE Started(gfx, cur, new)
  /\ flags' = [flags EXCEPT ![new] = opts]
  /\ LET lost == new = "graphics" /\ ~gfx'.inited
         now == IF lost /\ gfx.fw.bios THEN "console" ELSE new
     IN /\ cur' = now
        /\ terms' = IF now # "graphics" \/ now = cur THEN terms
                    ELSE [terms EXCEPT ![now] = NewTerm(gfx'.backend, None)]
        /\ IF lost /\ ~gfx.fw.bios THEN phase' = "dead" /\ ed' = ed
           ELSE /\ ed' = IF now # cur THEN enter_cmdline(terms'[now], flags'[now])
                         ELSE get_cmdline([Same EXCEPT !.dumb = "dumb" \in opts], <<>>, flags'[now])
                /\ phase' = PhaseOf(flags'[now])

\* terminal: all that are named must be ready; one is chosen, of several the user
\* chooses by a key, and after a time it is the first.
terminal_func(names, opts, secs, quiet) ==
  /\ Command
  /\ IF \E i \in DOMAIN names : names[i] \in need_init
     THEN NextLine(Same, <<>>, flags[cur]) /\ UNCHANGED <<gfx, cur, terms, setup>>
     ELSE IF Len(names) = 1
     THEN Select(names[1], opts) /\ UNCHANGED <<need_init, named, to, silent, secure>>
     ELSE /\ named' = [names |-> names, opts |-> opts, time2 |-> 0] /\ to' = IF secs = 0 THEN -1 ELSE secs
          /\ silent' = quiet
          /\ phase' = "wait" /\ UNCHANGED <<gfx, cur, terms, need_init, flags, secure, ed>>
  /\ UNCHANGED input

Named(n) == \E i \in DOMAIN named.names : named.names[i] = n
Choose(n) == /\ phase' = "chosen"
             /\ named' = [named EXCEPT !.names = <<n>>]
Candidates == SelectSeq(TableOrder, Named)

\* One terminal of the table after the other is polled.
Poll ==
  LET Look(acc, n) ==
        LET d == DeviceOf(n)
            c == console_checkkey(acc.i.rk, acc.i.q)
            f == serial_checkkey(acc.i.b, acc.i.w)
            i == IF d = "kbd" THEN [acc.i EXCEPT !.rk = c[1], !.q = c[2]] ELSE [acc.i EXCEPT !.b = f[1], !.w = f[2]]
        IN IF acc.n # None THEN acc ELSE [n |-> IF HasKey(d, i) THEN n ELSE None, i |-> i]
      found == FoldLeft(Look, [n |-> None, i |-> [rk |-> read_key, q |-> kbd, b |-> input_buf, w |-> wire]], Candidates)
      d == DeviceOf(found.n)
      g == getkey(d, found.i)
  IN /\ phase = "wait" /\ to # 0
     /\ kbd # <<>> \/ read_key # None \/ input_buf \o wire # <<>>
     /\ IF found.n = None THEN Input(found.i) /\ UNCHANGED <<owed, named, phase>>
        ELSE /\ Input(g.next) /\ owed' = [owed EXCEPT ![d] = Paid(@, g.key)]
             /\ Choose(found.n)
     /\ UNCHANGED <<user, gfx, cur, terms, flags, need_init, to, silent, secure, ed, cmds>>

\* A second passes: the prompt is written on all of them.  time2 is the second seen last.
Prompted(n) == IF ~silent /\ Named(n) THEN FoldLeft(grub_putchar, terms[n], <<CR, "P", LF>>) ELSE terms[n]
NewSecond == /\ phase = "wait" /\ to # 0
             /\ to > 0 \/ terms["serial"].y < MaxRow
             /\ terms' = [n \in Names |-> Prompted(n)]
             /\ named' = [named EXCEPT !.time2 = 1 - @]
             /\ UNCHANGED <<gfx, cur, need_init, flags, phase, silent, secure, ed, input, cmds>>
\* Mutant: seconds are counted only where the prompt is written.
QuietForever == NewSecond /\ to' = IF to > 0 /\ ~silent THEN to - 1 ELSE to
Tick == NewSecond /\ to' = IF to > 0 THEN to - 1 ELSE to
TimeOut == /\ phase = "wait" /\ to = 0
           /\ Choose(named.names[1])
           /\ UNCHANGED <<gfx, cur, terms, flags, need_init, to, silent, secure, ed, input, cmds>>

\* The label end: the terminal that was chosen is used.
End == /\ phase = "chosen"
       /\ Select(named.names[1], named.opts)
       /\ UNCHANGED <<need_init, named, to, silent, secure, input, cmds>>

\* splashimage: the graphics terminal may be used, and is; when it is used already it
\* is started again.
splashimage_func ==
  LET again == IF gfx.inited THEN graphics_init(graphics_end(gfx)) ELSE gfx
      t == IF gfx.inited THEN term_cls(terms["graphics"]) ELSE terms["graphics"]
  IN /\ Command
     /\ need_init' = need_init \ {"graphics"}
     /\ IF cur = "graphics"
        THEN /\ gfx' = again /\ terms' = [terms EXCEPT !["graphics"] = t]
             /\ flags' = [flags EXCEPT !["graphics"] = {}]
             /\ NextLine([Same EXCEPT !.t = t, !.ref = RefOf(t), !.dumb = FALSE], <<>>, {})
             /\ UNCHANGED cur
        ELSE Select("graphics", {})
     /\ UNCHANGED <<named, to, silent, secure, input>>

\* An entry is booted on the console and comes back.
Attempt ==
  LET g == IF cur = "graphics" THEN graphics_init(graphics_end(gfx)) ELSE gfx IN
  /\ Command
  /\ gfx' = g
  /\ cur' = IF cur = "graphics" /\ ~g.inited THEN "console" ELSE cur
  /\ ed' = enter_cmdline(terms[cur'], flags[cur'])
  /\ phase' = PhaseOf(flags[cur'])
  /\ UNCHANGED <<terms, setup, input>>
----------------------------------------------------------------------------
Init ==
  /\ \E st \in Starts :
       /\ gfx = NewGraphics(st.fw) /\ secure = st.secure /\ need_init = st.need_init /\ user = st.user
       /\ terms = [n \in Names |-> NewTerm(KindOf(n, st.fw), IF n = "serial" THEN Unescaped(st.term) ELSE None)]
       /\ ed = Editor(terms["console"], FALSE, [kill |-> <<>>, hs |-> st.hs])
  /\ cur = "console" /\ phase = "cmd" /\ flags = [n \in Names |-> {}]
  /\ named = [names |-> <<>>, opts |-> {}, time2 |-> 0] /\ to = 0 /\ silent = FALSE
  /\ kbd = <<>> /\ read_key = None /\ wire = <<>> /\ input_buf = <<>>
  /\ owed = [d \in Devices |-> <<>>] /\ cmds = 0

Next ==
  \/ \E k \in user.keys, d \in Devices : Type(k, d)
  \/ Unknown \/ Edit \/ Complete \/ Leave \/ Raw
  \/ Output \/ AskPassword \/ Attempt \/ splashimage_func
  \/ \E speed \in {1200, 9600}, unit \in 0 .. 1 : serial_func(speed, unit)
  \/ \E term \in Terminfos : terminfo_func(term)
  \/ \E a \in Arguments : terminal_func(a.names, a.opts, a.secs, a.quiet)
  \/ Poll \/ Tick \/ TimeOut \/ End

\* The clock runs while the terminals are polled (WF_vars(Tick), with what enables Tick
\* written out), and the loop ends when its condition is false.
Fairness == /\ []<>(phase # "wait" \/ to <= 0) \/ []<><<Tick>>_vars
            /\ WF_vars(TimeOut)
Spec == Init /\ [][Next]_vars /\ Fairness
----------------------------------------------------------------------------
\* Where the screen can be relied on: with --dumb the cursor is moved by backspaces,
\* which graphics draws as characters and the Hercules cursor does not follow.
Reliable == ~ed.dumb \/ ed.t.kind \in {"eficon", "serial"}

\* While the editor waits for a key, the row of the cursor shows the part of the line
\* around it: the prompt or "<", the characters or a star for each, ">" if there is more;
\* and the cursor is on the character it is in front of (cl_refresh and its callers).
LineShown ==
  phase = "edit" /\ Reliable =>
    \E p \in CursorAt(ed.t), head \in {ed.prompt, <<"<">>}, from \in 0 .. Len(ed.buf) :
      LET Col(x) == At(ed.t.scr, <<p[1], x>>).ch
          room == Width - Len(head)
          CharAt(i) == IF from + i > Len(ed.buf) THEN " " ELSE IF ed.echo THEN ed.buf[from + i] ELSE "*"
      IN /\ CursorAt(ed.t) = {p}
         /\ p[2] = Len(head) + ed.lpos - from /\ p[2] < Width
         /\ (head = ed.prompt) <=> (from = 0)
         /\ \A i \in DOMAIN head : Col(i - 1) = head[i]
         /\ \A i \in 1 .. room : Col(Len(head) + i - 1) = CharAt(i)
         /\ Col(Width) = IF from + room < Len(ed.buf) THEN ">" ELSE " "

\* The whole screen is what a plain text screen would show of the same output: no driver
\* loses, repeats or misplaces a line when it scrolls, clears or moves the cursor.
ScreenIsText == phase \in {"edit", "raw"} /\ Reliable => Shown(ed.t) = Shown(ed.ref)

\* The program is given the keys that were typed, in their order, one code for each, and
\* none is lost: escape sequences of a serial line arrive in pieces, the buffer is small
\* and checkkey looks at the line before getkey does.
KeysInOrder == \A d \in Devices :
  /\ "unexpected" \notin Range(owed[d])
  /\ (IF d = "kbd" THEN kbd = <<>> /\ read_key = None ELSE wire \o input_buf = <<>>) => owed[d] = <<>>

\* While graphics is on, the firmware shows graphics, in a mode that it takes, the one the
\* terminal believes in, and no mode that it takes is better; this holds for a later start
\* too, which sets no mode (efigraph.c:1289).  A start in which every mode was refused
\* leaves the firmware with its text.  Out of graphics a BIOS shows
\* text again; EFI does so only if graphics was never on, as the statements that would
\* restore it are compiled out (efigraph.c:1097, efiuga.c:955).
ModeIsBest ==
  LET fw == gfx.fw
      Best(m) == \A n \in fw.takes : modecmp(fw.modes, n, m) <= 0
      never == gfx.eg.graphics_mode = None /\ gfx.uga.graphics_mode = None
  IN /\ gfx.inited => ~fw.text
     /\ gfx.inited /\ gfx.backend = "eg" => fw.mode \in fw.takes /\ fw.mode = gfx.eg.graphics_mode /\ Best(fw.mode)
     /\ gfx.inited /\ gfx.backend = "uga" => fw.mode = gfx.uga.graphics_mode
     /\ ~gfx.inited /\ never => fw.text

\* terminal --timeout ends: a key or the clock chooses a terminal.
TerminalChosen == (phase = "wait" /\ to > 0) ~> (phase # "wait")
=============================================================================
