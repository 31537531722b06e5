-------------------------------- MODULE Menu --------------------------------
(***************************************************************************)
(* The menu interface: run_menu (stage2/stage2.c) with its scrolling       *)
(* window, the hidden menu, the countdown, the password, the editor of an  *)
(* entry's command list, and run_script (stage2/cmdline.c), which executes *)
(* an entry and goes to the recovery shell (efi/clanton/recovery.c) on an  *)
(* error.                                                                  *)
(*                                                                         *)
(* An activation of run_menu is a frame [first_entry, entryno,             *)
(* num_entries, list, config].  The first frame shows the titles; the key  *)
(* 'e' pushes a second one, whose list is a copy of the entry's commands   *)
(* and whose config_entries is NULL (config = FALSE).  A line of a list is *)
(* [e, k]: the entry it comes from and what it is, a title, a command, a   *)
(* blank line of the editor, or the empty string that ends a script.       *)
(***************************************************************************)
EXTENDS Integers, Sequences

CONSTANTS
  Rows,          \* lines of the window (12)
  Kinds,         \* per entry, the kinds of its commands
  Timeouts,      \* values grub_timeout may have after the configuration
  Fallbacks,     \* the fallback list after the configuration
  Setups,        \* terminals, passwords and SKUs to look at
  EmptyLists,    \* the user may delete the last line of a command list
  Typed,         \* kinds of the lines the user types in the editor
  MaxLines       \* bound: lines of an edited command list

VARIABLES
  pc,            \* "restart", "hidden", "top" and "poll" of run_menu, "script",
                 \* "recovery", "cmdline", "reload", "booted", "lost"
  frames,        \* activations of run_menu, the running one last
  c,             \* the key just read, "none" before getkey
  grub_timeout, show_menu, auth, fallback_entryno,
  current_entryno,
  script,        \* the strings from cur_entry on, up to the end of a list
  behind,        \* number of the list behind them in memory
  errnum,        \* 1 when the last command failed
  kernel_type,   \* 1 when a kernel is loaded
  setup,         \* what does not change while GRUB runs
  authority      \* history: since when auth is set, see Granted

user == <<grub_timeout, show_menu, auth, fallback_entryno>>
running == <<current_entryno, script, behind, errnum, kernel_type>>
vars == <<pc, frames, c, user, running, setup, authority>>

Dumb == setup.dumb                  \* the terminal has TERM_DUMB
Password == setup.password          \* a password is set
PasswordFile == setup.passwordfile  \* it names another configuration file
grub_cln_secure == setup.secure
grub_cln_debug == setup.debug

Entry == DOMAIN Kinds
CommandKinds == {"kernel", "lock", "boot", "other"}

ASSUME MenuAssumption ==
  /\ Rows \in Nat \ {0}
  /\ Kinds \in Seq(Seq(CommandKinds)) /\ Kinds # <<>>
  /\ \A e \in Entry : Kinds[e] # <<>>
  /\ Timeouts \subseteq Int
  /\ Typed \subseteq CommandKinds \cup {"blank"}
  /\ Fallbacks \in Seq(0..(Len(Kinds) - 1))
  /\ Setups \subseteq [dumb : BOOLEAN, password : BOOLEAN, passwordfile : BOOLEAN,
                       secure : BOOLEAN, debug : BOOLEAN]
  /\ EmptyLists \in BOOLEAN

-----------------------------------------------------------------------------
(* The strings in memory.                                                  *)

Line(e, k) == [e |-> e, k |-> k]
End == Line(0, "end")

(* The commands of the entry numbered n, from 0.                           *)
Commands(n) == [j \in DOMAIN Kinds[n + 1] |-> Line(n, Kinds[n + 1][j])]
Titles == [n \in Entry |-> Line(n - 1, "title")]

(* The configuration area, list by list, from 0: the commands of each      *)
(* entry and an empty string, and behind the last entry one more empty     *)
(* string and the titles.  What follows is not known.                      *)
ListAt(n) == IF n < Len(Kinds) THEN Append(Commands(n), End)
                               ELSE <<End>> \o Append(Titles, End)
Unknown == Len(Kinds) + 1

-----------------------------------------------------------------------------
(* The frames.                                                             *)

top == frames[Len(frames)]
SetTop(f) == frames' = [frames EXCEPT ![Len(frames)] = f]
Selected == top.first_entry + top.entryno
MainMenu(default) ==
  [first_entry |-> 0, entryno |-> default, num_entries |-> Len(Kinds),
   list |-> Titles, config |-> TRUE]

(* The user may edit entries and enter the command line.                   *)
Unlocked == (auth \/ ~Password) /\ (~grub_cln_secure \/ grub_cln_debug)

(* get_cmdline can be left with ESC.                                       *)
CanEscape == ~grub_cln_secure

-----------------------------------------------------------------------------
(* The loop of run_menu up to a key.                                       *)

(* restart: scroll until the entry is in the window (a dumb terminal has   *)
(* none); show the menu unless it is hidden and a countdown runs.          *)
Restart ==
  /\ pc = "restart"
  /\ SetTop(IF Dumb \/ top.entryno < Rows THEN top
            ELSE [top EXCEPT !.first_entry = @ + top.entryno - (Rows - 1),
                             !.entryno = Rows - 1])
  /\ show_menu' = (show_menu \/ grub_timeout < 0)
  /\ pc' = IF show_menu' THEN "top" ELSE "hidden"
  /\ c' = "none"
  /\ UNCHANGED <<grub_timeout, auth, fallback_entryno, running>>

(* boot_entry, and the start of run_script: s is the script, and the n-th  *)
(* list is behind it.                                                      *)
BootEntry(s, n) ==
  /\ script' = s /\ behind' = n
  /\ current_entryno' = Selected
  /\ errnum' = 0 /\ kernel_type' = 0
  /\ pc' = "script"

(* Any key or modifier shows the hidden menu and stops the countdown.      *)
HiddenKey ==
  /\ pc = "hidden"
  /\ grub_timeout' = -1 /\ show_menu' = TRUE
  /\ pc' = "top"
  /\ UNCHANGED <<frames, c, auth, fallback_entryno, running>>

(* A second passes with the menu hidden, or the countdown is over.         *)
HiddenSecond ==
  /\ pc = "hidden"
  /\ grub_timeout' = grub_timeout - 1
  /\ IF grub_timeout = 0 THEN BootEntry(ListAt(Selected), Selected + 1)
     ELSE UNCHANGED <<pc, running>>
  /\ UNCHANGED <<frames, c, show_menu, auth, fallback_entryno>>

(* Mutant: the countdown of the visible menu is not counted down.          *)
NoCountdown ==
  /\ pc = "top"
  /\ IF grub_timeout = 0
     THEN grub_timeout' = -1 /\ BootEntry(ListAt(Selected), Selected + 1)
     ELSE pc' = "poll" /\ UNCHANGED <<grub_timeout, running>>
  /\ c' = "none"
  /\ UNCHANGED <<frames, show_menu, auth, fallback_entryno>>

(* The top of the key loop: boot when the countdown is over, else wait a   *)
(* second.  Without a countdown it goes straight to getkey.                *)
Second ==
  /\ pc = "top"
  /\ grub_timeout' = IF grub_timeout < 0 THEN -1 ELSE grub_timeout - 1
  /\ IF grub_timeout = 0
     THEN BootEntry(ListAt(Selected), Selected + 1)
     ELSE pc' = "poll" /\ UNCHANGED running
  /\ c' = "none"
  /\ UNCHANGED <<frames, show_menu, auth, fallback_entryno>>

(* No key came during the second.                                          *)
NoKey ==
  /\ pc = "poll" /\ grub_timeout >= 0
  /\ pc' = "top"
  /\ UNCHANGED <<frames, c, user, running>>

-----------------------------------------------------------------------------
(* Keys.                                                                   *)

(* getkey: a key during the countdown ends it and gives up the fallbacks.  *)
Pressed(key) ==
  /\ pc = "poll"
  /\ c' = key
  /\ grub_timeout' = -1
  /\ fallback_entryno' = IF grub_timeout >= 0 THEN -1 ELSE fallback_entryno
  /\ UNCHANGED show_menu

(* A key that only changes the running frame.                              *)
Edit(key, f) ==
  /\ Pressed(key)
  /\ SetTop(f)
  /\ pc' = "top"
  /\ UNCHANGED <<auth, running>>

Up ==
  Edit("up", CASE top.entryno > 0 -> [top EXCEPT !.entryno = @ - 1]
               [] top.entryno <= 0 /\ top.first_entry > 0 /\ ~Dumb ->
                    [top EXCEPT !.first_entry = @ - 1]
               [] OTHER -> top)

Down ==
  Edit("down", CASE Selected + 1 >= top.num_entries -> top
                 [] Selected + 1 < top.num_entries /\ (Dumb \/ top.entryno < Rows - 1) ->
                      [top EXCEPT !.entryno = @ + 1]
                 [] OTHER -> [top EXCEPT !.first_entry = @ + 1])

PageUp ==
  LET first == top.first_entry - Rows
      entry == IF first < 0 THEN top.entryno + first ELSE top.entryno
  IN Edit("pgup", [top EXCEPT !.first_entry = IF first < 0 THEN 0 ELSE first,
                              !.entryno = IF first < 0 /\ entry < 0 THEN 0 ELSE entry])

(* A page down, or the last page with the last entry selected.             *)
PageDown ==
  LET first == top.first_entry + Rows
      last == IF top.num_entries < Rows THEN 0 ELSE top.num_entries - Rows
  IN Edit("pgdn", IF first + top.entryno + 1 < top.num_entries
                  THEN [top EXCEPT !.first_entry = first]
                  ELSE [top EXCEPT !.first_entry = last,
                                   !.entryno = top.num_entries - last - 1])

(* A key that changes the list at line n, which get_entry walks to; beyond *)
(* the end of the list is memory the model does not know.                  *)
EditAt(n, key, f) ==
  IF n <= Len(top.list)
  THEN Edit(key, f)
  ELSE Pressed(key) /\ pc' = "lost" /\ UNCHANGED <<frames, auth, running>>

(* The editor's 'O' inserts a blank line before the selected one, 'o'      *)
(* after it.  get_entry takes a negative number for 0.                     *)
InsertBefore(f) ==
  LET n == f.first_entry + f.entryno
      at == IF n < 0 THEN 0 ELSE n
  IN [f EXCEPT !.list = SubSeq(@, 1, at) \o <<Line(0, "blank")>>
                          \o SubSeq(@, at + 1, Len(@)),
               !.num_entries = @ + 1]

Open ==
  /\ pc = "poll" /\ ~top.config /\ top.num_entries < MaxLines
  /\ \/ EditAt(Selected, "O", InsertBefore(top))
     \/ EditAt(Selected + 1, "o", InsertBefore(
          IF top.entryno < Rows - 1 \/ Dumb THEN [top EXCEPT !.entryno = @ + 1]
                                           ELSE [top EXCEPT !.first_entry = @ + 1]))

(* Mutant: the selection is not corrected.                                 *)
KeepSelection(f) ==
  LET n == f.first_entry + f.entryno
      from == IF n < 0 THEN 0 ELSE n
  IN [f EXCEPT !.list = SubSeq(@, 1, from) \o SubSeq(@, n + 2, Len(@)),
               !.num_entries = @ - 1]

(* 'd' moves what follows the selected line over it and corrects the       *)
(* selection.                                                              *)
RemoveLine(f) ==
  LET n == f.first_entry + f.entryno
      from == IF n < 0 THEN 0 ELSE n
      num == f.num_entries - 1
  IN [f EXCEPT !.list = SubSeq(@, 1, from) \o SubSeq(@, n + 2, Len(@)),
               !.num_entries = num,
               !.entryno = IF @ >= num THEN @ - 1 ELSE @,
               !.first_entry = IF @ # 0 /\ num < Rows + @ THEN @ - 1 ELSE @]

Delete ==
  /\ pc = "poll" /\ ~top.config
  /\ EmptyLists \/ top.num_entries > 1
  /\ IF top.num_entries > 0 THEN EditAt(Selected + 1, "d", RemoveLine(top))
                             ELSE Edit("d", top)

(* RET boots the selected entry; in the editor 'b' boots the list.         *)
Boot ==
  /\ pc = "poll"
  /\ \/ top.config /\ Pressed("enter") /\ BootEntry(ListAt(Selected), Selected + 1)
     \/ ~top.config /\ Pressed("b") /\ BootEntry(Append(top.list, End), Unknown)
  /\ UNCHANGED <<frames, auth>>

(* A key without a meaning here, among them RET in the editor.             *)
Ignored ==
  \/ Edit("other", top)
  \/ pc = "poll" /\ ~top.config /\ Edit("enter", top)

(* ESC leaves the editor: run_menu returns to the 'e' of the main menu, or *)
(* to cmain.                                                               *)
Escape ==
  /\ pc = "poll" /\ ~top.config
  /\ Pressed("esc")
  /\ frames' = SubSeq(frames, 1, Len(frames) - 1)
  /\ pc' = IF Len(frames) = 1 THEN "reload" ELSE "restart"
  /\ UNCHANGED <<auth, running>>

(* 'p': the right password unlocks the menu, or loads the file it names    *)
(* (run_menu returns); the wrong one changes nothing.                      *)
EnterPassword ==
  /\ ~(grub_cln_secure /\ ~grub_cln_debug) /\ ~auth /\ Password
  /\ Pressed("p")
  /\ \E right \in BOOLEAN :
       /\ auth' = (right /\ ~PasswordFile)
       /\ IF right /\ PasswordFile
          THEN pc' = "reload" /\ frames' = SubSeq(frames, 1, Len(frames) - 1)
          ELSE pc' = "restart" /\ UNCHANGED frames
  /\ UNCHANGED running

(* 'e' in the main menu opens the editor on a copy of the entry.           *)
EditEntry ==
  /\ pc = "poll" /\ Unlocked /\ top.config
  /\ Pressed("e")
  /\ frames' = Append(frames, [first_entry |-> 0, entryno |-> 0,
                               num_entries |-> Len(Commands(Selected)),
                               list |-> Commands(Selected), config |-> FALSE])
  /\ pc' = "restart"
  /\ UNCHANGED <<auth, running>>

(* 'e' in the editor replaces the line, or not when the user cancels.  An  *)
(* emptied line becomes a blank.                                           *)
EditLine ==
  /\ pc = "poll" /\ Unlocked /\ ~top.config
  /\ Pressed("e")
  /\ LET line == IF Selected < 0 THEN 1 ELSE Selected + 1
     IN /\ pc' = IF line <= Len(top.list) THEN "restart" ELSE "lost"
        /\ \/ CanEscape /\ UNCHANGED frames
           \/ \E k \in Typed : SetTop([top EXCEPT !.list[line].k = k])
  /\ UNCHANGED <<auth, running>>

(* 'c': the command line.                                                  *)
CommandLine ==
  /\ Unlocked
  /\ Pressed("c")
  /\ pc' = "cmdline"
  /\ errnum' = 0 /\ kernel_type' = 0
  /\ UNCHANGED <<frames, auth, current_entryno, script, behind>>

(* 'a': edit the arguments of the kernel command of a copy of the entry    *)
(* and boot the copy.  config_entries is set to NULL for this.             *)
AppendArguments ==
  /\ pc = "poll" /\ Unlocked /\ top.config
  /\ Pressed("a")
  /\ \/ /\ \E j \in DOMAIN Commands(Selected) : Commands(Selected)[j].k = "kernel"
        /\ SetTop([top EXCEPT !.config = FALSE])
        /\ BootEntry(Append(Commands(Selected), End), Unknown)
     \/ /\ \/ CanEscape
           \/ \A j \in DOMAIN Commands(Selected) : Commands(Selected)[j].k # "kernel"
        /\ pc' = "restart"
        /\ UNCHANGED <<frames, running>>
  /\ UNCHANGED auth

-----------------------------------------------------------------------------
(* run_script and the command lines.                                       *)

(* An error found at the head of run_script's loop.                        *)
ToRecovery ==
  /\ pc = "script" /\ errnum = 1
  /\ pc' = "recovery"
  /\ kernel_type' = 0
  /\ UNCHANGED <<frames, c, user, current_entryno, script, behind, errnum>>

(* The next command; a locked entry, an unknown word and a failing command *)
(* leave an error, and so does boot without a kernel.                      *)
Fails(k) ==
  CASE k = "lock" -> {IF ~auth /\ Password THEN 1 ELSE 0}
    [] k \in {"blank", "title", "boot"} -> {1}
    [] OTHER -> {0, 1}

Command ==
  /\ pc = "script" /\ errnum = 0 /\ script # <<>>
  /\ Head(script).k # "end"
  /\ Head(script).k = "boot" => kernel_type = 0
  /\ \E err \in Fails(Head(script).k) :
       /\ errnum' = err
       /\ kernel_type' = IF Head(script).k = "kernel" /\ err = 0 THEN 1
                         ELSE kernel_type
  /\ script' = Tail(script)
  /\ UNCHANGED <<pc, frames, c, user, current_entryno, behind>>

(* The end of the script without a kernel: run_script returns 0, the loop  *)
(* at boot_entry ends and the menu is shown again.                         *)
ScriptReturns ==
  /\ pc = "script" /\ errnum = 0 /\ script # <<>>
  /\ Head(script).k = "end" /\ kernel_type = 0
  /\ script' = <<>>
  /\ show_menu' = TRUE
  /\ pc' = "restart"
  /\ UNCHANGED <<frames, c, grub_timeout, auth, fallback_entryno,
                 current_entryno, behind, errnum, kernel_type>>

(* The boot command with a kernel, given or implied by the end of the      *)
(* script.  boot_func leaves GRUB or enters the recovery shell itself.     *)
boot_func ==
  /\ pc = "script" /\ errnum = 0 /\ script # <<>>
  /\ Head(script).k \in {"boot", "end"} /\ kernel_type = 1
  /\ IF Tail(script) = <<>> /\ behind < Unknown
     THEN script' = ListAt(behind) /\ behind' = behind + 1
     ELSE script' = Tail(script) /\ UNCHANGED behind
  /\ \/ pc' = "booted" /\ UNCHANGED <<errnum, kernel_type>>
     \/ pc' = "recovery" /\ errnum' = 1 /\ kernel_type' = 0
  /\ UNCHANGED <<frames, c, user, current_entryno>>

(* Behind the last known string: memory the model does not know.           *)
PastScript ==
  /\ pc = "script" /\ errnum = 0 /\ script = <<>>
  /\ pc' = "lost"
  /\ UNCHANGED <<frames, c, user, running>>

(* ESC in the recovery shell, after which run_script goes on; the user may *)
(* have loaded a kernel there.                                             *)
LeaveRecovery ==
  /\ pc = "recovery" /\ CanEscape
  /\ pc' = "script" /\ errnum' = 0
  /\ kernel_type' \in {0, 1}
  /\ UNCHANGED <<frames, c, user, current_entryno, script, behind>>

LeaveCommandLine ==
  /\ pc = "cmdline" /\ CanEscape
  /\ pc' = "restart"
  /\ UNCHANGED <<frames, c, user, running>>

(* Mutant: the next configuration starts with the authority of this one.   *)
KeepAuthority ==
  /\ pc = "cmdline" \/ (pc = "recovery" /\ ~grub_cln_secure)
  /\ frames' = <<>> /\ script' = <<>>
  /\ pc' = "reload"
  /\ UNCHANGED <<c, user, current_entryno, behind, errnum, kernel_type>>

(* configfile on a command line: cmain starts again, without authority.    *)
configfile_func ==
  /\ pc = "cmdline" \/ (pc = "recovery" /\ ~grub_cln_secure)
  /\ auth' = FALSE
  /\ frames' = <<>> /\ script' = <<>>
  /\ pc' = "reload"
  /\ UNCHANGED <<c, grub_timeout, show_menu, fallback_entryno,
                 current_entryno, behind, errnum, kernel_type>>

(* cmain reads a configuration (module Config) and calls run_menu again.   *)
Configured ==
  /\ \E default \in 0..(Len(Kinds) - 1) : frames' = <<MainMenu(default)>>
  /\ grub_timeout' \in Timeouts
  /\ fallback_entryno' = IF Fallbacks = <<>> THEN -1 ELSE 0
  /\ show_menu' \in {show_menu, FALSE}
  /\ pc' = "restart"

Reload ==
  /\ pc = "reload"
  /\ Configured
  /\ UNCHANGED <<c, auth, running>>

Init ==
  /\ pc = "restart"
  /\ \E default \in 0..(Len(Kinds) - 1) : frames = <<MainMenu(default)>>
  /\ c = "none"
  /\ grub_timeout \in Timeouts /\ show_menu \in BOOLEAN /\ auth = FALSE
  /\ fallback_entryno = IF Fallbacks = <<>> THEN -1 ELSE 0
  /\ current_entryno = 0 /\ script = <<>> /\ behind = Unknown /\ errnum = 0 /\ kernel_type = 0
  /\ setup \in Setups /\ authority = "this"

Key ==
  \/ Up \/ Down \/ PageUp \/ PageDown \/ Open \/ Delete \/ Boot \/ Ignored
  \/ Escape \/ EnterPassword \/ EditEntry \/ EditLine \/ CommandLine
  \/ AppendArguments

(* Where auth was set: under "this" configuration or under "another" one.  *)
(* ESC in the copy of an entry that 'a' has left behind returns from       *)
(* run_menu with auth as it is ("left").                                   *)
Granted ==
  authority' = CASE auth' /\ ~auth -> "this"
                 [] auth' /\ auth /\ pc = "poll" /\ pc' = "reload" -> "left"
                 [] pc = "reload" /\ authority = "this" -> "another"
                 [] OTHER -> authority

Grub ==
  /\ \/ Restart \/ HiddenSecond \/ Second \/ NoKey \/ ToRecovery \/ Command
     \/ ScriptReturns \/ boot_func \/ PastScript \/ Reload
  /\ Granted
  /\ UNCHANGED setup

User ==
  /\ Key \/ HiddenKey \/ LeaveRecovery \/ LeaveCommandLine \/ configfile_func
  /\ Granted
  /\ UNCHANGED setup

Next == Grub \/ User

(* GRUB and its clock run by themselves; the user need not do anything.    *)
Spec == Init /\ [][Next]_vars /\ WF_vars(Grub)

-----------------------------------------------------------------------------
(* Properties.                                                             *)

InMenu == pc \in {"top", "poll", "hidden"}

ScriptLine == [e : 0..Len(Kinds), k : CommandKinds \cup {"title", "blank", "end"}]

Frame ==
  [first_entry : Nat, entryno : Nat \cup {-1}, num_entries : Nat,
   list : Seq(ScriptLine), config : BOOLEAN]

(* The variables have their types, and run_menu is never entered more than *)
(* twice: only the frame below another one is the main menu.               *)
TypeOK ==
  /\ pc \in {"restart", "hidden", "top", "poll", "script", "recovery",
             "cmdline", "reload", "booted", "lost"}
  /\ frames \in Seq(Frame) /\ Len(frames) <= 2
  /\ pc = "reload" <=> frames = <<>>
  /\ Len(frames) = 2 => frames[1].config /\ ~frames[2].config
  /\ grub_timeout \in Int
  /\ show_menu \in BOOLEAN /\ auth \in BOOLEAN
  /\ fallback_entryno \in -1..Len(Fallbacks)
  /\ current_entryno \in Int /\ script \in Seq(ScriptLine) /\ behind \in Nat
  /\ errnum \in {0, 1} /\ kernel_type \in {0, 1}

(* Through all moves, insertions and deletions, in the main menu and in    *)
(* the editor, the selected line exists and is inside the window, and      *)
(* num_entries is the number of lines there are.  A dumb terminal has no   *)
(* window: the comment at restart says that first_entry stays 0 there, but *)
(* Page Down moves it, after which 'd' on the last line of an edited list  *)
(* leaves the selection behind the list.                                   *)
SelectionValid ==
  InMenu =>
    \A n \in DOMAIN frames :
      LET f == frames[n]
      IN /\ f.config \/ ~Dumb =>
              /\ f.num_entries = Len(f.list)
              /\ f.entryno >= 0 /\ f.first_entry + f.entryno < f.num_entries
         /\ ~Dumb => f.entryno < Rows

(* No countdown runs while the running frame has no config_entries: its    *)
(* end boots get_entry (config_entries, ...), which is NULL there.         *)
CountdownOutsideEditor ==
  pc \in {"restart", "top", "poll", "hidden"} /\ ~top.config => grub_timeout < 0

(* Whoever is in the editor or on the command line of the menu has the     *)
(* authority for it, for as long as they are there.  The recovery shell is *)
(* not among the places this names: any failed command of an entry opens   *)
(* it to anybody (cmdline.c:209-212), with every command GRUB has unless   *)
(* the SKU is a Secure Boot one (recovery.c:147), although                 *)
(* docs/grub.texi:1692 has it that "GRUB disallows any interactive         *)
(* control, until you press the key p and enter a correct password".       *)
EditNeedsAuth == pc = "cmdline" \/ Len(frames) = 2 => Unlocked

(* An authority that the password of one configuration gave is not used in *)
(* another one ("Make sure that the user will not be authoritative",       *)
(* builtins.c:806, and stage2.c:666), with the exception of ESC at "left". *)
AuthorityEnds ==
  /\ authority \in {"this", "another", "left"}
  /\ auth => authority # "another"

(* Every countdown ends, with a boot or with a key.                        *)
UnattendedBoot == grub_timeout >= 0 ~> grub_timeout < 0

(* On a Secure Boot SKU a script started from the main menu runs the       *)
(* commands of the entry that current_entryno names (savedefault stores    *)
(* that number) and of no other.  Elsewhere ESC in the recovery shell lets *)
(* run_script go on behind the end of its entry.                           *)
ScriptInEntry ==
  grub_cln_secure /\ pc = "script" /\ Len(frames) = 1 /\ top.config /\ script # <<>>
    => Head(script).k = "end" \/ Head(script).e = current_entryno

(* The editor and the menu's command line are open only to who may use     *)
(* them under this configuration, and no countdown runs in the editor      *)
(* (run_menu and get_entry, stage2.c; configfile_func, builtins.c).  The   *)
(* shell of a failed entry is open to all, see EditNeedsAuth.              *)
EditorGuarded == CountdownOutsideEditor /\ EditNeedsAuth /\ AuthorityEnds

(* What is selected exists, and what is started is the selected entry and  *)
(* nothing behind it (run_menu, stage2.c; run_script, cmdline.c).          *)
SelectionRuns == TypeOK /\ SelectionValid /\ ScriptInEntry
=============================================================================
