------------------------------ MODULE LineEdit ------------------------------
(***************************************************************************)
(* The line editor of stage2/char_io.c.  s is an editor: s.buf the line    *)
(* (CMDLINE_BUF), s.lpos the cursor in it, s.xpos the cursor on the        *)
(* screen, s.section the part of a long line that is shown, s.kill         *)
(* KILL_BUF, s.hs the history, s.h the history line being edited (-1:      *)
(* none), s.saved the line that was there before, s.t the terminal.  s.ref *)
(* is given the same output as s.t: a text screen without any driver.      *)
(*                                                                         *)
(* A key is a character, or a control character by its Emacs name.         *)
(***************************************************************************)
EXTENDS TermDrivers

CONSTANTS Width, Margin,   \* CMDLINE_WIDTH, CMDLINE_MARGIN
          MaxCmdline,      \* MAX_CMDLINE
          HistorySize,     \* HISTORY_SIZE
          Letters          \* printable characters other than '=' and ' '

ASSUME EditAssumption == /\ {Width, Margin, MaxCmdline, HistorySize} \subseteq Nat \ {0}
                         /\ Width > Margin + 1 /\ Cols >= Width + 2

plen(s) == Len(s.prompt)
llen(s) == Len(s.buf)

Put(s, c) == [s EXCEPT !.t = grub_putchar(@, c), !.ref = FoldLeft(console_putchar, @, Newline(c))]
Puts(s, cs) == FoldLeft(Put, s, cs)
Backspaces(n) == [i \in 1 .. n |-> BS]
ToColumn(s, x) == [s EXCEPT !.t = gotoxy(@, x, getrow(@)), !.ref = console_gotoxy(@, x, getrow(@))]
Echo(s, c) == IF s.echo THEN c ELSE "*"

\* The line is drawn from the first column (full), or len cells from the cursor on.
SectionOf(s) == IF s.lpos + plen(s) < Width THEN 0
                ELSE ((s.lpos + plen(s) - Width) \div (Width - 1 - Margin)) + 1
BaseOf(s, section) == IF section = 0 THEN 0
                      ELSE ((section - 1) * (Width - 1 - Margin)) + Width - plen(s) - Margin
cl_refresh(s, full, len) ==
  LET section == IF full THEN SectionOf(s) ELSE s.section
      head  == IF section = 0 THEN s.prompt ELSE <<"<">>
      first == Len(head)
      base  == BaseOf(s, section)
      from  == IF full THEN first ELSE s.xpos
      n     == IF full THEN Width - first ELSE len
      start == base + from - first
      cells == [i \in 1 .. n |-> IF start + i <= llen(s) THEN Echo(s, s.buf[start + i]) ELSE " "]
      mark  == IF from + n # Width THEN <<>> ELSE <<IF start + n < llen(s) THEN ">" ELSE " ">>
      xpos  == s.lpos + first - base
      back  == IF s.dumb THEN Backspaces(from + n + Len(mark) - xpos) ELSE <<>>
  IN Then(Puts(s, (IF full THEN <<CR>> \o head ELSE <<>>) \o cells \o mark \o back), LAMBDA drawn :
     [(IF s.dumb THEN drawn ELSE ToColumn(drawn, xpos)) EXCEPT !.section = section, !.xpos = xpos])

cl_backward(s, count) ==
  LET m == [s EXCEPT !.lpos = @ - count] IN
  IF (s.section = 1 /\ plen(s) + m.lpos < Width) \/ s.xpos - count < 1 THEN cl_refresh(m, TRUE, 0)
  ELSE [(IF s.dumb THEN Puts(m, Backspaces(count)) ELSE ToColumn(m, s.xpos - count)) EXCEPT !.xpos = @ - count]

cl_forward(s, count) ==
  LET m == [s EXCEPT !.lpos = @ + count]
      passed == [i \in 1 .. count |-> Echo(s, s.buf[s.lpos + i])]
  IN IF s.xpos + count >= Width THEN cl_refresh(m, TRUE, 0)
     ELSE [(IF s.dumb THEN Puts(m, passed) ELSE ToColumn(m, s.xpos + count)) EXCEPT !.xpos = @ + count]

cl_init(s) == cl_refresh(Put(s, LF), TRUE, 0)

Least(a, b) == IF a < b THEN a ELSE b
cl_insert(s, str) ==
  LET l == Len(str)
      m == [s EXCEPT !.buf = SubSeq(@, 1, s.lpos) \o str \o SubSeq(@, s.lpos + 1, Len(@)), !.lpos = @ + l]
  IN IF llen(s) + l >= s.maxlen THEN s
     ELSE cl_refresh(m, s.xpos + l >= Width, Least(Width - s.xpos, l + llen(m) - m.lpos))

\* llen - count + 1 characters are moved, not the llen - count - lpos + 1 that there
\* are: over the end of CMDLINE_BUF this moves the start of KILL_BUF by count.
Overrun(s, count) == s.lpos + llen(s) + 1 - count - MaxCmdline
Moved(kill, over, count) == IF over <= 0 THEN kill
                            ELSE IF over + count > Len(kill) THEN SubSeq(kill, count + 1, Len(kill))
                            ELSE SubSeq(kill, count + 1, count + over) \o SubSeq(kill, over + 1, Len(kill))
\* Mutant: the cell that becomes free is not drawn.
KeepLast(s, count) ==
  LET m == [s EXCEPT !.buf = SubSeq(@, 1, s.lpos) \o SubSeq(@, s.lpos + count + 1, Len(@))]
  IN cl_refresh(m, FALSE, Least(Width - s.xpos, llen(m) - s.lpos))
cl_delete(s, count) ==
  LET m == [s EXCEPT !.buf = SubSeq(@, 1, s.lpos) \o SubSeq(@, s.lpos + count + 1, Len(@)),
                     !.kill = Moved(@, Overrun(s, count), count)]
  IN cl_refresh(m, FALSE, Least(Width - s.xpos, llen(s) - s.lpos))
----------------------------------------------------------------------------
(* The history.                                                            *)

get_history(s, no) == s.hs[no + 1]
add_history(s, line, no) ==
  LET longer == SubSeq(s.hs, 1, no) \o <<line>> \o SubSeq(s.hs, no + 1, Len(s.hs)) IN
  [s EXCEPT !.hs = SubSeq(longer, 1, Least(Len(longer), HistorySize))]
KeepEdited(s) == IF get_history(s, s.h) # s.buf THEN add_history(s, s.buf, s.h) ELSE s
NewLine(s, line) == cl_refresh([s EXCEPT !.buf = line, !.lpos = Len(line)], TRUE, 0)

previous_line(s) ==
  LET m == IF s.h < 0 THEN [s EXCEPT !.saved = s.buf] ELSE KeepEdited(s) IN
  IF m.h + 1 >= Len(m.hs) THEN m ELSE NewLine([m EXCEPT !.h = @ + 1], get_history(m, m.h + 1))
next_line(s) ==
  LET m == KeepEdited(s) IN
  IF s.h < 0 THEN s
  ELSE NewLine([m EXCEPT !.h = @ - 1], IF m.h = 0 THEN m.saved ELSE get_history(m, m.h - 1))
----------------------------------------------------------------------------
(* Keys.  The completions (print_completions) are given: found is -1 for   *)
(* none, 0 for one and 1 for several, common what they share.              *)

complete(s, found, common) ==
  Then(IF found >= 0 THEN cl_insert(s, common) ELSE s, LAMBDA a :
  IF found = 0 THEN a ELSE cl_init(Puts(a, IF found > 0 THEN <<LF>> \o common ELSE <<>>)))

kill_back(s) ==
  IF s.lpos = 0 THEN s
  ELSE cl_delete(cl_backward([s EXCEPT !.kill = SubSeq(s.buf, 1, s.lpos)], s.lpos), s.lpos)
kill_line(s) ==
  IF s.lpos = llen(s) THEN s
  ELSE cl_delete([s EXCEPT !.kill = SubSeq(s.buf, s.lpos + 1, llen(s))], llen(s) - s.lpos)

readline_key(s, c) ==
  CASE c = "C-a" -> cl_backward(s, s.lpos)
    [] c = "C-e" -> cl_forward(s, llen(s) - s.lpos)
    [] c = "C-f" /\ s.lpos < llen(s) -> cl_forward(s, 1)
    [] c = "C-b" /\ s.lpos > 0 -> cl_backward(s, 1)
    [] c = "C-u" -> kill_back(s)
    [] c = "C-k" -> kill_line(s)
    [] c = "C-y" -> cl_insert(s, s.kill)
    [] c = "C-p" -> previous_line(s)
    [] c = "C-n" -> next_line(s)
    [] OTHER -> s

\* ESC leaves the editor; where it may not (secure) it deletes like C-d.
plain_key(s, c, secure) ==
  CASE c = "C-d" \/ (c = ESC /\ secure) -> IF s.lpos = llen(s) THEN s ELSE cl_delete(s, 1)
    [] c = "C-h" -> IF s.lpos = 0 THEN s ELSE cl_delete(cl_backward(s, 1), 1)
    [] c \in Letters \cup {" "} -> cl_insert(s, <<c>>)
    [] OTHER -> s
edit_key(s, c, secure) == plain_key(IF s.readline THEN readline_key(s, c) ELSE s, c, secure)

\* Leading spaces go, and a line that is not empty is remembered.
Stripped(buf) == SelectInSeq(buf, LAMBDA c : c # " ")
end_line(s) ==
  LET first == IF s.echo THEN Stripped(s.buf) ELSE 1
      line  == IF first = 0 THEN <<>> ELSE SubSeq(s.buf, first, llen(s))
      out   == [Put(s, LF) EXCEPT !.saved = line]
  IN IF s.readline /\ line # <<>> THEN add_history(out, line, 0) ELSE out

real_get_cmdline(s, line) ==
  cl_init([s EXCEPT !.maxlen = Least(@, MaxCmdline), !.buf = line, !.lpos = Len(line), !.saved = line, !.h = -1])

\* get_cmdline without editing: what is typed is taken as it comes, maxlen or not.
raw_key(s, c, echo) ==
  IF c \notin Letters \cup {" "} THEN s
  ELSE [(IF echo THEN Put(s, c) ELSE s) EXCEPT !.buf = IF c = " " /\ @ = <<>> THEN @ ELSE Append(@, c)]
=============================================================================
