------------------------------- MODULE Config -------------------------------
(***************************************************************************)
(* How cmain (stage2/stage2.c) finds, reads and checks the configuration   *)
(* before it hands control to the menu or to the command line: the preset  *)
(* menu, the search of the SD card and the SPI flash with the check of     *)
(* signatures (efi/clanton/boot_settings.c), the parser with its two       *)
(* memory areas, the menu commands default and fallback, the validation of *)
(* the fallback list and of the default entry, and the ways back: ESC and  *)
(* configfile.                                                             *)
(*                                                                         *)
(* A file is [lines, newline, signature, fault]: fault is the error that   *)
(* keeps its text from being buffered, signature what its header is, which *)
(* is a file of its own and can be there without the text.  A line is      *)
(* [k, num, list]; only its kind and the numbers of default and fallback   *)
(* matter, so the parser's areas hold the position of a line in the file   *)
(* in place of its text, and 0 for the NUL that ends a list.  k is         *)
(*   "title"    the title command                                          *)
(*   "command"  a builtin of the boot entries (no BUILTIN_MENU flag)       *)
(*   "default", "fallback"  menu commands, with their arguments            *)
(*   "unknown"  not a builtin                                              *)
(*   "comment"  a comment or an empty line                                 *)
(***************************************************************************)
EXTENDS Integers, Sequences

CONSTANTS
  MAX_FALLBACK_ENTRIES,  \* size of fallback_entries
  Cards,                 \* what (hd0,0) may hold at first: files, or NoFile
  NewCards,              \* what it may hold after a change of the card
  Preset,                \* the compiled-in menu, or NoFile
  Spi,                   \* the configuration in the flash, or NoFile
  FromSpi,               \* the loaded GRUB image came from the flash
  Skus,                  \* values grub_cln_secure may have
  Others,                \* names of files the configfile command can open
  SavedEntry,            \* saved_entryno
  MaxLoads,              \* bound: configurations loaded in a behaviour
  MaxArea                \* bound: length of the area at config_entries

VARIABLES
  pc,                \* "load" -> "line" -> "fallbacks" -> "default" ->
                     \* "menu" | "shell"; or "recovery"
  sd,                \* the card in the slot
  preset_menu,       \* the preset menu is still enabled
  config_file,       \* the name of the file to load
  grub_cln_loaded_from_spi,
  file, is_preset,   \* what is being parsed, or was last
  cln_index,         \* lines consumed of the buffered file (static)
  preset_menu_offset,
  state, prev_menu_len, prev_config_len,
  menu, config,      \* the areas at menu_entries and config_entries
  num_entries, default_entry, fallback_entryno, fallback_entries,
  i,                 \* index of the validation loop
  loads,             \* loads so far
  grub_cln_secure    \* Secure Boot SKU, fixed when GRUB starts

source == <<sd, preset_menu, config_file, grub_cln_loaded_from_spi>>
reader == <<file, is_preset, cln_index, preset_menu_offset>>
areas == <<state, prev_menu_len, prev_config_len, menu, config, num_entries>>
choice == <<default_entry, fallback_entryno, fallback_entries>>
vars == <<pc, source, reader, areas, choice, i, loads, grub_cln_secure>>

GrubConf == "/boot/grub/grub.conf"
NoFile == [lines |-> <<>>, newline |-> TRUE, signature |-> "none",
           fault |-> "file_not_found"]
NoNumber == -1    \* an argument safe_parse_maxint rejects
Saved == -2       \* the word "saved"

Slots == 0..(MAX_FALLBACK_ENTRIES - 1)

Line == [k : {"title", "command", "default", "fallback", "unknown", "comment"},
         num : Nat \cup {NoNumber, Saved}, list : Seq(Nat \cup {NoNumber})]
File == [lines : Seq(Line), newline : BOOLEAN, signature : {"none", "bad", "good"},
         fault : {"none", "file_not_found", "filelength", "read"}]

ASSUME ConfigAssumption ==
  /\ MAX_FALLBACK_ENTRIES \in Nat \ {0}
  /\ Cards \cup NewCards \cup {Preset, Spi} \subseteq File /\ NoFile \in Cards
  /\ FromSpi \in BOOLEAN /\ Skus \subseteq BOOLEAN
  /\ SavedEntry \in Nat /\ MaxLoads \in Nat \ {0} /\ MaxArea \in Nat

-----------------------------------------------------------------------------
(* Finding the file.                                                       *)

(* Mutant: the result of the signature check is ignored.                   *)
UnverifiedLoad(f) ==
  CASE grub_cln_secure /\ f.signature = "none" ->
         [errnum |-> "sgn_file_not_found", failed |-> FALSE]
    [] OTHER -> [errnum |-> f.fault, failed |-> f.fault # "none"]

(* do_load_config_file: the error it leaves and whether it returns 1, when *)
(* asset_open reads from medium f.  A missing or unreadable signature      *)
(* header and a bad signature set errnum but return 0; a text that is      *)
(* missing, longer than cfg_buffer or cut short returns 1, signed or not.  *)
do_load_config_file(f) ==
  CASE grub_cln_secure /\ f.signature = "none" ->
         [errnum |-> "sgn_file_not_found", failed |-> FALSE]
    [] grub_cln_secure /\ f.fault = "none" /\ f.signature \notin {"none", "good"} ->
         [errnum |-> "verification", failed |-> FALSE]
    [] OTHER -> [errnum |-> f.fault, failed |-> f.fault # "none"]

(* grub_cln_asset_open picks the medium by grub_cln_loaded_from_spi alone. *)
Medium(from_spi) == IF from_spi THEN Spi ELSE sd

(* grub_cln_load_config_file: (hd0,0) first; when it cannot be mounted or  *)
(* the load returns 1, where GRUB came from is looked up and the load is   *)
(* tried again.                                                            *)
LoadOutcome ==
  LET mount_failed == sd = NoFile
      first == do_load_config_file(Medium(grub_cln_loaded_from_spi))
      retry == mount_failed \/ first.failed
      spi == IF retry THEN FromSpi ELSE grub_cln_loaded_from_spi
  IN [from_spi |-> spi,
      errnum |-> IF retry THEN do_load_config_file(Medium(spi)).errnum
                 ELSE first.errnum]

(* init_config: only the first slot of the fallback list is reset.         *)
init_config ==
  /\ default_entry' = 0
  /\ fallback_entryno' = -1
  /\ fallback_entries' = [fallback_entries EXCEPT ![0] = -1]

(* reset of cmain, and the locals of the reading loop.                     *)
reset ==
  /\ init_config
  /\ menu' = <<>> /\ config' = <<>> /\ num_entries' = 0
  /\ state' = 0 /\ prev_menu_len' = 0 /\ prev_config_len' = 0

(* After the loading loop: the menu, or the command line without entries.  *)
Interface(n) == IF n = 0 THEN "shell" ELSE "menu"

(* The preset menu is tried first, once.                                   *)
OpenPreset ==
  /\ pc = "load" /\ preset_menu
  /\ reset
  /\ file' = Preset /\ is_preset' = TRUE
  /\ preset_menu_offset' = 0
  /\ pc' = "line"
  /\ UNCHANGED <<source, cln_index, i, loads>>

(* The name of the file is set to GrubConf on every load.                  *)
OpenConfig ==
  /\ pc = "load" /\ ~preset_menu
  /\ config_file' = GrubConf
  /\ grub_cln_loaded_from_spi' = LoadOutcome.from_spi
  /\ IF LoadOutcome.errnum = "none"
     THEN /\ reset
          /\ file' = Medium(LoadOutcome.from_spi) /\ is_preset' = FALSE
          /\ pc' = "line"
     ELSE /\ pc' = "recovery"
          /\ UNCHANGED <<file, is_preset, areas, choice>>
  /\ UNCHANGED <<sd, preset_menu, cln_index, preset_menu_offset, i, loads>>

-----------------------------------------------------------------------------
(* Reading it.                                                             *)

(* The line where get_line_from_config goes on.                            *)
Offset == IF is_preset THEN preset_menu_offset ELSE cln_index

Skipped(n) == file.lines[n].k = "comment"

(* It returns the next line that is neither empty nor a comment, 0 at the  *)
(* end of the file.                                                        *)
NextLine(n) ==
  \/ /\ n \in DOMAIN file.lines /\ n > Offset /\ ~Skipped(n)
     /\ \A m \in (Offset + 1)..(n - 1) : Skipped(m)
  \/ n = 0 /\ \A m \in (Offset + 1)..Len(file.lines) : Skipped(m)

(* Mutant: the index goes back to 0 with the last line, newline or not.    *)
RewindEarly(n) ==
  IF is_preset
  THEN /\ preset_menu_offset' = IF n = 0 THEN Len(file.lines) ELSE n
       /\ UNCHANGED cln_index
  ELSE /\ cln_index' = IF n = Len(file.lines) THEN 0 ELSE n
       /\ UNCHANGED preset_menu_offset

(* The buffered file's index goes back to 0 when the end is reached, which *)
(* happens inside the last line when no newline ends it.                   *)
Consume(n) ==
  IF is_preset
  THEN /\ preset_menu_offset' = IF n = 0 THEN Len(file.lines) ELSE n
       /\ UNCHANGED cln_index
  ELSE /\ cln_index' = IF n = Len(file.lines) /\ ~file.newline THEN 0 ELSE n
       /\ UNCHANGED preset_menu_offset

(* Mutant: a title without commands stays in the menu area.                *)
KeepTitle(n) ==
  /\ IF state > 1
     THEN /\ num_entries' = num_entries + 1
          /\ config' = Append(config, 0)
          /\ prev_menu_len' = Len(menu)
          /\ prev_config_len' = Len(config')
     ELSE UNCHANGED <<config, num_entries, prev_menu_len, prev_config_len>>
  /\ menu' = Append(menu, n)
  /\ state' = 1
  /\ UNCHANGED choice

(* A title closes the entry before it, or replaces a title that has no     *)
(* command.                                                                *)
title(n) ==
  /\ IF state > 1
     THEN /\ num_entries' = num_entries + 1
          /\ config' = Append(config, 0)
          /\ menu' = Append(menu, n)
          /\ prev_menu_len' = Len(menu)
          /\ prev_config_len' = Len(config')
     ELSE /\ menu' = Append(SubSeq(menu, 1, prev_menu_len), n)
          /\ config' = SubSeq(config, 1, prev_config_len)
          /\ UNCHANGED <<num_entries, prev_menu_len, prev_config_len>>
  /\ state' = 1
  /\ UNCHANGED choice

(* default.                                                                *)
default_func(num) ==
  /\ default_entry' = CASE num = Saved -> SavedEntry
                        [] num = NoNumber -> default_entry
                        [] OTHER -> num
  /\ UNCHANGED <<fallback_entryno, fallback_entries>>

(* fallback stores the first n words of its argument: numbers, no two the  *)
(* same.                                                                   *)
Stored(list, n) ==
  LET Fresh(j) == /\ list[j] # NoNumber
                  /\ \A l \in 1..(j - 1) : list[l] # list[j]
  IN /\ n <= Len(list) /\ \A j \in 1..n : Fresh(j)
     /\ n < Len(list) /\ n < MAX_FALLBACK_ENTRIES => ~Fresh(n + 1)

(* A word that is no number is an error.  After a duplicate the pointer is *)
(* not moved over the blank, so a word behind it cannot be parsed.  A list *)
(* that is not parsed to its end is neither terminated nor made current.   *)
fallback_func(list) ==
  \E n \in 0..MAX_FALLBACK_ENTRIES :
    LET stopped == n < Len(list) /\ n < MAX_FALLBACK_ENTRIES
        failed == stopped /\ (list[n + 1] = NoNumber \/ n + 1 < Len(list))
    IN /\ Stored(list, n)
       /\ fallback_entries' = [s \in Slots |->
            IF s < n THEN list[s + 1]
            ELSE IF s = n /\ ~failed THEN -1 ELSE fallback_entries[s]]
       /\ fallback_entryno' = IF failed THEN fallback_entryno
                              ELSE IF n = 0 THEN -1 ELSE 0
       /\ UNCHANGED default_entry

(* A known command before any title runs if it is a menu command; after a  *)
(* title it is copied, whatever it is.                                     *)
command(n) ==
  LET line == file.lines[n]
  IN \/ /\ state = 0
        /\ CASE line.k = "default" -> default_func(line.num)
             [] line.k = "fallback" -> fallback_func(line.list)
             [] OTHER -> UNCHANGED choice
        /\ UNCHANGED areas
     \/ /\ state > 0
        /\ state' = 2
        /\ config' = Append(config, n)
        /\ UNCHANGED <<menu, prev_menu_len, prev_config_len, num_entries, choice>>

ReadLine ==
  /\ pc = "line" /\ Len(config) < MaxArea
  /\ \E n \in DOMAIN file.lines :
       /\ NextLine(n)
       /\ Consume(n)
       /\ CASE file.lines[n].k = "unknown" -> UNCHANGED <<areas, choice>>
            [] file.lines[n].k = "title" -> title(n)
            [] OTHER -> command(n)
  /\ UNCHANGED <<pc, source, file, is_preset, i, loads>>

(* The end of the file: the last entry is closed or its title dropped.     *)
EndOfFile ==
  /\ pc = "line" /\ NextLine(0)
  /\ Consume(0)
  /\ num_entries' = IF state > 1 THEN num_entries + 1 ELSE num_entries
  /\ config' = Append(IF state > 1 THEN Append(config, 0)
                      ELSE SubSeq(config, 1, prev_config_len), 0)
  /\ menu' = Append(IF state > 1 THEN menu ELSE SubSeq(menu, 1, prev_menu_len), 0)
  /\ pc' = IF fallback_entryno >= 0 THEN "fallbacks" ELSE "default"
  /\ i' = 0
  /\ UNCHANGED <<source, file, is_preset, state, prev_menu_len,
                 prev_config_len, choice, loads>>

-----------------------------------------------------------------------------
(* Checking what was read.                                                 *)

(* The move of MAX_FALLBACK_ENTRIES - i - 1 ints over slot i.              *)
CloseGap(n) ==
  [s \in Slots |-> IF s >= n /\ s < MAX_FALLBACK_ENTRIES - 1
                   THEN fallback_entries[s + 1] ELSE fallback_entries[s]]

(* One round of the loop over the fallback list.                           *)
CheckFallback ==
  /\ pc = "fallbacks"
  /\ \/ /\ i < MAX_FALLBACK_ENTRIES /\ fallback_entries[i] >= num_entries
        /\ fallback_entries' = CloseGap(i)
        /\ UNCHANGED <<pc, i, fallback_entryno>>
     \/ /\ i < MAX_FALLBACK_ENTRIES /\ fallback_entries[i] \in 0..(num_entries - 1)
        /\ i' = i + 1
        /\ UNCHANGED <<pc, fallback_entryno, fallback_entries>>
     \/ /\ i < MAX_FALLBACK_ENTRIES => fallback_entries[i] < 0
        /\ fallback_entryno' = IF fallback_entries[0] < 0 THEN -1
                               ELSE fallback_entryno
        /\ pc' = "default"
        /\ UNCHANGED <<i, fallback_entries>>
  /\ UNCHANGED <<source, reader, areas, default_entry, loads>>

(* Is there a fallback entry at index n?                                   *)
Listed(n) == n < MAX_FALLBACK_ENTRIES /\ fallback_entries[n] >= 0

(* A default entry that is not there becomes the first fallback, or 0.     *)
CheckDefault ==
  /\ pc = "default"
  /\ \/ /\ default_entry < num_entries
        /\ UNCHANGED <<default_entry, fallback_entryno>>
     \/ /\ default_entry >= num_entries /\ fallback_entryno >= 0
        /\ default_entry' = fallback_entries[0]
        /\ fallback_entryno' = IF Listed(fallback_entryno + 1)
                               THEN fallback_entryno + 1 ELSE -1
     \/ /\ default_entry >= num_entries /\ fallback_entryno < 0
        /\ default_entry' = 0
        /\ UNCHANGED fallback_entryno
  /\ preset_menu' = FALSE
  /\ pc' = IF is_preset THEN "load" ELSE Interface(num_entries)
  /\ UNCHANGED <<sd, config_file, grub_cln_loaded_from_spi, reader, areas,
                 fallback_entries, i, loads>>

-----------------------------------------------------------------------------
(* The user.                                                               *)

(* The loop of cmain starts again.                                         *)
Again ==
  /\ loads < MaxLoads
  /\ loads' = loads + 1
  /\ reset
  /\ pc' = "load"
  /\ UNCHANGED <<reader, i>>

(* ESC leaves a command line, but not on a Secure Boot SKU.                *)
LeaveRecovery ==
  /\ pc = "recovery" /\ ~grub_cln_secure
  /\ pc' = Interface(num_entries)
  /\ UNCHANGED <<source, reader, areas, choice, i, loads>>

LeaveShell ==
  /\ pc = "shell" /\ ~grub_cln_secure
  /\ Again
  /\ UNCHANGED source

(* The configfile command, or a password with a file name.                 *)
configfile_func(name) ==
  /\ pc \in {"menu", "shell", "recovery"}
  /\ pc = "recovery" => ~grub_cln_secure
  /\ config_file' = name
  /\ Again
  /\ UNCHANGED <<sd, preset_menu, grub_cln_loaded_from_spi>>

(* Somebody changes the card while GRUB waits for a key.                   *)
ChangeCard ==
  /\ pc \in {"menu", "shell", "recovery"} /\ loads < MaxLoads
  /\ sd' \in NewCards
  /\ UNCHANGED <<pc, preset_menu, config_file, grub_cln_loaded_from_spi,
                 reader, areas, choice, i, loads>>

Load ==
  /\ \/ OpenPreset \/ OpenConfig \/ ReadLine \/ EndOfFile
     \/ CheckFallback \/ CheckDefault
  /\ UNCHANGED grub_cln_secure

User ==
  /\ \/ LeaveRecovery \/ LeaveShell \/ ChangeCard
     \/ \E name \in Others : configfile_func(name)
  /\ UNCHANGED grub_cln_secure

Init ==
  /\ pc = "load" /\ sd \in Cards
  /\ preset_menu = (Preset # NoFile)
  /\ config_file = GrubConf
  /\ grub_cln_loaded_from_spi = FALSE
  /\ file = NoFile /\ is_preset = FALSE
  /\ cln_index = 0 /\ preset_menu_offset = 0
  /\ state = 0 /\ prev_menu_len = 0 /\ prev_config_len = 0
  /\ menu = <<>> /\ config = <<>> /\ num_entries = 0
  /\ default_entry = 0 /\ fallback_entryno = -1
  /\ fallback_entries = [s \in Slots |-> IF s = 0 THEN -1 ELSE 0]
  /\ i = 0 /\ loads = 1 /\ grub_cln_secure \in Skus

Next == Load \/ User

(* cmain runs on by itself; nothing obliges the user to do anything.       *)
Spec == Init /\ [][Next]_vars /\ WF_vars(Load)
-----------------------------------------------------------------------------
(* Properties.                                                             *)

Interactive == {"menu", "shell", "recovery"}

(* The variables have their types; the fallback list holds entry numbers   *)
(* and -1, and fallback_entryno stays inside it.                           *)
SourceType ==
  /\ pc \in {"load", "line", "fallbacks", "default"} \cup Interactive
  /\ preset_menu \in BOOLEAN /\ is_preset \in BOOLEAN
  /\ grub_cln_loaded_from_spi \in BOOLEAN
  /\ config_file \in Others \cup {GrubConf}
AreasType ==
  /\ cln_index \in 0..Len(file.lines) /\ preset_menu_offset \in Nat
  /\ state \in 0..2 /\ num_entries \in Nat
  /\ menu \in Seq(0..Len(file.lines)) /\ prev_menu_len \in 0..Len(menu)
  /\ config \in Seq(0..Len(file.lines)) /\ prev_config_len \in 0..Len(config)
ChoiceType ==
  /\ default_entry \in Nat
  /\ fallback_entryno \in -1..(MAX_FALLBACK_ENTRIES - 1)
  /\ fallback_entries \in [Slots -> Nat \cup {-1}]
  /\ i \in 0..MAX_FALLBACK_ENTRIES /\ loads \in 1..MaxLoads
TypeOK == SourceType /\ AreasType /\ ChoiceType

(* What a file means, said without the parser: an entry is a title with    *)
(* the known commands between it and the next title, at least one.  A line *)
(* that is no builtin is left out of the entry (stage2.c:1103), although   *)
(* docs/grub.texi:2103 has it: "Unrecognized commands are added to the     *)
(* current entry, except before entries start".                            *)
Titles(f) == {t \in DOMAIN f.lines : f.lines[t].k = "title"}
Commands(f) ==
  {n \in DOMAIN f.lines : /\ f.lines[n].k \notin {"title", "unknown", "comment"}
                         /\ \E t \in Titles(f) : t < n}
Between(f, m, n) == \E t \in Titles(f) : m < t /\ t < n
Entries(f) == {t \in Titles(f) :
                 \E n \in Commands(f) : t < n /\ ~Between(f, t, n)}

(* The first n elements of s list the members of S in order.               *)
Lists(s, n, S) ==
  /\ {s[j] : j \in 1..n} = S
  /\ \A j, l \in 1..n : j < l => s[j] < s[l]

(* The first n elements of s list the commands in order, with a 0 between  *)
(* two of them just where a title is.                                      *)
Bodies(s, n, f) ==
  /\ {s[j] : j \in 1..n} \ {0} = Commands(f)
  /\ \A j, l \in 1..n : j < l /\ s[j] # 0 /\ s[l] # 0 => s[j] < s[l]
  /\ \A j \in 1..n : s[j] = 0 => j > 1 /\ s[j - 1] # 0
  /\ \A j \in 1..(n - 1) :
       /\ s[j] # 0 /\ s[j + 1] # 0 => ~Between(f, s[j], s[j + 1])
       /\ s[j] = 0 => Between(f, s[j - 1], s[j + 1])

(* The menu area lists the titles of the file's entries and the            *)
(* configuration area their commands, in order and each closed, nothing    *)
(* else is in the areas, and num_entries counts them.                      *)
HoldEntries(f) ==
  /\ Len(menu) = num_entries + 1 /\ menu[num_entries + 1] = 0
  /\ Lists(menu, num_entries, Entries(f))
  /\ LET n == Len(config) - 1
     IN /\ n > 0 /\ config[n] = 0 /\ config[n + 1] = 0
        /\ Bodies(config, n, f)

(* So it is when the menu is shown.  Titles without commands, commands     *)
(* before the first title and the previous contents of the areas (the      *)
(* preset menu, an earlier file) leave no trace.                           *)
MenuIsFile == pc = "menu" => HoldEntries(file)

(* The fallback entries from index n up to the -1 that ends the list       *)
(* exist.                                                                  *)
FallbackValid(n) ==
  \A s \in Slots :
    s >= n /\ (\A r \in n..s : fallback_entries[r] >= 0)
      => fallback_entries[s] < num_entries

(* When the menu is shown, the default entry exists, and so does every     *)
(* fallback entry run_menu may still go to.                                *)
SelectionValid ==
  pc = "menu" =>
    /\ default_entry < num_entries
    /\ fallback_entryno >= 0 => FallbackValid(fallback_entryno)

(* The menu that is shown is that of the file, and what can be chosen in   *)
(* it without the user exists (real_cmain and the checks of the default    *)
(* and the fallback entries, stage2.c).                                    *)
MenuValid == TypeOK /\ MenuIsFile /\ SelectionValid

(* On a Secure Boot SKU nothing but the compiled-in menu and files whose   *)
(* signature was verified is parsed or shown, through every sequence of    *)
(* failed loads, changed cards and reloads.                                *)
SignedOnly ==
  grub_cln_secure /\ pc \in {"line", "fallbacks", "default", "menu"} /\ ~is_preset
    => file.signature = "good"

(* The index of the buffered file wraps inside the last line of such a     *)
(* file, so get_line_from_config never reports its end.                    *)
Endless ==
  /\ ~is_preset /\ ~file.newline
  /\ Len(file.lines) > 0 /\ ~Skipped(Len(file.lines))

(* Once a full list has an invalid last slot, the move over an invalid     *)
(* slot copies that slot again and again.                                  *)
FullList ==
  /\ i < MAX_FALLBACK_ENTRIES
  /\ \A s \in Slots : s >= i => fallback_entries[s] >= 0
  /\ fallback_entries[MAX_FALLBACK_ENTRIES - 1] >= num_entries

(* Once a configuration is found, the reading and the checking of it end   *)
(* in the menu or in a command line, as docs/grub.texi says: "If one is    *)
(* found, then the full menu interface is activated using whatever entries *)
(* were found in the file".  Two files defeat cmain: one whose last line   *)
(* has no newline is read again from its start for ever (stage2.c:949),    *)
(* and a fallback list that fills fallback_entries and whose last number   *)
(* names no entry is never checked to its end (stage2.c:1186).  In every   *)
(* other case, also behind a preset menu, the loops end.                   *)
MenuActivated ==
  pc = "line" ~> \/ pc \in Interactive
                 \/ pc = "line" /\ Endless
                 \/ pc = "fallbacks" /\ FullList
=============================================================================
