------------------------------ MODULE Devices --------------------------------
(***************************************************************************)
(* Disks, their names and what is installed on them, composed.  The module *)
(* runs one of five systems, chosen by Start:                              *)
(*   "bios"    stage 2 with the commands that name, find and change        *)
(*             partitions;                                                 *)
(*   "efi"     the same over the firmware's handles, with `device';        *)
(*   "shell"   the grub shell over a host's disks and device.map;          *)
(*   "install" setup, power cuts and the boots after them;                 *)
(*   "start"   an EFI build that finds its files, on disk or over PXE.     *)
(***************************************************************************)
EXTENDS PartTable, SequencesExt, TLC

E == INSTANCE EfiDisks

H == INSTANCE HostDisks

I == INSTANCE Install

CONSTANTS NameRoom,  \* See EfiStart.
          Starts     \* The systems to run, each with its bound cmds on commands; see MCDevices.

L == INSTANCE EfiStart

ASSUME StartsAssumption == \A s \in Starts : s.kind \in {"bios", "efi", "shell", "install", "start"}

VARIABLES
  start,     \* The system this behaviour runs.
  named,     \* The partition a table was last changed for.
  disks,     \* The disks by drive number (by host name in the shell).
  root,      \* saved_drive and saved_partition.
  bootdev,   \* What set_bootdev last made of them.
  lists,     \* EFI: the drives.
  renamed,   \* EFI: `device' was used.
  shell,     \* Shell: the process, its map file and its disk buffer.
  io,        \* Shell: the last transfer, wanted and made.
  setup,     \* Install: the setup that is running, try = "none" for none.
  booted,    \* Install: what the machine booted last.
  history,   \* Install: setups begun, and whether the last one succeeded.
  efi,       \* Start: the machine, the network file and what was read of it.
  left       \* Commands the user still gives.

vars == <<start, named, disks, root, bootdev, lists, renamed, shell, io, setup, booted, history, efi, left>>

NoRoot == [drive |-> HD, part |-> Whole]

NoIo == [dev |-> H!NoName, lba |-> 0, want |-> [dev |-> H!NoName, lba |-> 0], write |-> FALSE]

NoSetup == [try |-> "none", queue |-> <<>>]

NoLists == [fd |-> <<>>, hd |-> <<>>, cd |-> <<>>]

NoBuffer == [drive |-> -1, geom |-> [fd |-> -1, total |-> 0], data |-> H!NoName]

NoShell == [on |-> FALSE, sh |-> H!NewShell(H!EmptyMap, FALSE), file |-> [exists |-> FALSE],
            host |-> [devfs |-> FALSE], buf |-> NoBuffer, boot |-> H!EmptyMap, first |-> H!EmptyMap, moved |-> FALSE]

NoRead == [sound |-> FALSE, seen |-> {}]

\* The disks behind the drives of the firmware's lists.
Behind(st, l) == [d \in E!Drives(l) |-> st.media[E!get_device_from_drive(l, d).id]]

Init ==
  /\ start \in Starts
  /\ named = NoRoot
  /\ root = NoRoot
  /\ bootdev = [slice |-> 0]
  /\ lists = IF start.kind = "efi" THEN E!enumerate_disks(start.handles) ELSE NoLists
  /\ disks = IF start.kind = "efi" THEN Behind(start, lists) ELSE start.disks
  /\ renamed = FALSE
  /\ shell = IF start.kind = "shell" THEN [NoShell EXCEPT !.file = start.file, !.host = start.host]
             ELSE NoShell
  /\ io = NoIo
  /\ setup = NoSetup
  /\ booted = [runs |-> "none"]
  /\ history = [setups |-> 0, ok |-> FALSE, config |-> "none", saved |-> 0, once |-> 0, want |-> 0]
  /\ efi = L!Off(<<>>) @@ [want |-> 0, expect |-> 0, version |-> 1, read |-> NoRead]
  /\ left = start.cmds

Command(kinds) == start.kind \in kinds /\ left > 0 /\ left' = left - 1

Cdrom == start.kind = "efi" /\ lists.cd # <<>>

\* The names the user types: what is printed for a partition, and relative ones.
Names ==
  IF start.kind \notin {"bios", "efi"} THEN {}
  ELSE {NameOf(d, p) : d \in DOMAIN disks, p \in start.parts}
       \cup {Typed("", 0, TRUE, p.s, p.b) : p \in start.parts}

SetDevice(n) == set_device(n, root.drive, root.part, Cdrom)

(***************************************************************************)
(* root and rootnoverify.  An error other than a missing file system       *)
(* leaves the root device alone; rootnoverify goes on after every error,   *)
(* with the partition the failed walk ended at.                            *)
(***************************************************************************)
Root(n, verify) ==
  LET dev == SetDevice(n)
  IN  /\ Command({"bios", "efi"})
      /\ dev.ok /\ dev.drive \in DOMAIN disks
      /\ \E p \in {open_partition(disks[dev.drive], dev.drive, dev.part)} :
           /\ verify => p.ok
           /\ root' = [drive |-> dev.drive, part |-> p.part]
           /\ bootdev' = IF p.ok THEN set_bootdev(disks[dev.drive], dev.drive, p.part, p, 0)
                         ELSE bootdev
      /\ UNCHANGED <<start, efi, named, disks, lists, renamed, shell, io, setup, booted, history>>

Change(drive, part, result) ==
  /\ result.ok
  /\ named' = [drive |-> drive, part |-> part]
  /\ disks' = [disks EXCEPT ![drive] = result.disk]
  /\ UNCHANGED <<start, efi, root, bootdev, lists, renamed, shell, io, setup, booted, history>>

MakeActive ==
  /\ Command({"bios"})
  /\ root.drive \in DOMAIN disks /\ root.part.s # FF
  /\ Change(root.drive, root.part, make_saved_active(disks[root.drive], root.drive, root.part))

Hide(n, hidden) ==
  LET dev == SetDevice(n)
  IN  /\ Command({"bios"})
      /\ dev.ok /\ dev.drive \in DOMAIN disks
      /\ Change(dev.drive, dev.part, set_partition_hidden_flag(disks[dev.drive], dev.drive, dev.part, hidden))

PartType(n, t) ==
  LET dev == SetDevice(n)
  IN  /\ Command({"bios"})
      /\ dev.ok /\ dev.drive \in DOMAIN disks
      /\ Change(dev.drive, dev.part, parttype_func(disks[dev.drive], dev.drive, dev.part, t))

PartNew(n, t, place) ==
  LET dev == SetDevice(n)
  IN  /\ Command({"bios"})
      /\ dev.ok /\ dev.drive \in DOMAIN disks
      /\ Change(dev.drive, dev.part, partnew_func(disks[dev.drive], dev.drive, dev.part, t,
                                        place.start, place.len))

(***************************************************************************)
(* EFI `device'.                                                           *)
(***************************************************************************)
Printed(path) == Last(E!grub_efi_print_device_path(path))

\* What may be typed: what the user thinks of, and what `chainloader' has printed.
EfiTexts == start.texts \cup {Printed(start.handles[i].path) : i \in DOMAIN start.handles}

EfiDevice(drive, text, rest) ==
  /\ Command({"efi"})
  /\ lists' = E!assign_device_name(lists, start.handles, drive, text, rest)
  /\ renamed' = TRUE
  \* Drive numbers are places in the lists: the disks behind them change too.
  /\ disks' = Behind(start, lists')
  /\ UNCHANGED <<start, efi, named, root, bootdev, shell, io, setup, booted, history>>


(***************************************************************************)
(* The grub shell.  StartShell is grub_stage2's init_device_map; a map     *)
(* that cannot be read ends the program.                                   *)
(***************************************************************************)
StartShell ==
  LET r == H!init_device_map(shell.host, shell.file, start.floppies)
      again == shell.first # H!EmptyMap
  IN  /\ Command({"shell"})
      /\ ~shell.on
      /\ shell' = [shell EXCEPT !.on = r.ok, !.file = r.file, !.buf = NoBuffer,
                                !.sh = H!NewShell(r.map, start.read_only), !.boot = r.map,
                                !.first = IF again THEN @ ELSE r.map]
      /\ io' = NoIo
      /\ UNCHANGED <<start, efi, named, disks, root, bootdev, lists, renamed, setup, booted, history>>

Quit ==
  /\ shell.on
  /\ shell' = [shell EXCEPT !.on = FALSE]
  /\ io' = NoIo
  /\ UNCHANGED <<start, efi, named, disks, root, bootdev, lists, renamed, setup, booted, history, left>>

\* The buffer of rawread for a drive: kept, or looked up again.
Buffered(drive) ==
  IF shell.buf.drive = drive THEN [ok |-> TRUE, sh |-> shell.sh, buf |-> shell.buf]
  ELSE LET g == H!get_diskinfo(shell.host, shell.sh, drive)
       IN  [ok |-> g.ok, sh |-> g.sh,
            buf |-> IF g.ok THEN [drive |-> drive, geom |-> g.geom, data |-> H!NoName]
                    ELSE shell.buf]

(***************************************************************************)
(* One transfer of a command: a sector of a partition is read through the  *)
(* buffer, or written (devwrite) through the kernel's partition device     *)
(* when there is one and to the disk otherwise.                            *)
(***************************************************************************)
Transfer(drive, part, sector, write) ==
  /\ Command({"shell"})
  /\ shell.on
  /\ \E b \in {Buffered(drive)} :
     LET Biosdisk(w) == H!biosdisk(shell.host, b.sh, drive, b.buf.geom, w)
         table == IF ~b.ok THEN H!NoName ELSE IF b.buf.data # H!NoName THEN b.buf.data ELSE Biosdisk(FALSE)
         dev   == H!MapOf(b.sh, drive)
         w     == H!write_to_partition(shell.host, b.sh, drive, part, sector)
         LbaOn(d) == IF d \in DOMAIN disks THEN open_partition(disks[d], drive, part).start + sector ELSE 0
         made  == IF ~write THEN [dev |-> table, lba |-> LbaOn(table)]
                  ELSE IF part # Whole /\ w.ret # -1 THEN [dev |-> w.dev, lba |-> w.lba]
                  ELSE [dev |-> Biosdisk(TRUE), lba |-> LbaOn(table)]
         ok    == table # H!NoName /\ open_partition(disks[table], drive, part).ok
     IN  /\ shell' = [shell EXCEPT !.sh = b.sh,
                        !.buf = IF ok THEN [b.buf EXCEPT !.data = IF write THEN H!NoName ELSE table]
                                ELSE b.buf]
         /\ io' = IF ok THEN [dev |-> made.dev, lba |-> made.lba,
                              want |-> [dev |-> dev, lba |-> LbaOn(dev)], write |-> write]
                  ELSE NoIo
  /\ UNCHANGED <<start, efi, named, disks, root, bootdev, lists, renamed, setup, booted, history>>

\* The prompt forgets the buffered drive after every command.
EndCommand ==
  /\ shell.on /\ shell.buf.drive # -1
  /\ shell' = [shell EXCEPT !.buf = NoBuffer]
  /\ io' = NoIo
  /\ UNCHANGED <<start, efi, named, disks, root, bootdev, lists, renamed, setup, booted, history, left>>

ShellDevice(drive, name) ==
  /\ Command({"shell"})
  /\ shell.on /\ shell.buf.drive = -1
  /\ H!check_device(shell.host, name)
  /\ shell' = [shell EXCEPT !.sh = H!assign_device_name(@, drive, name)]
  /\ io' = NoIo
  /\ UNCHANGED <<start, efi, named, disks, root, bootdev, lists, renamed, setup, booted, history>>

Geometry(drive, total) ==
  LET b == Buffered(drive)
  IN  /\ Command({"shell"})
      /\ shell.on /\ shell.buf.drive = -1 /\ b.ok
      /\ shell' = [shell EXCEPT !.sh = [b.sh EXCEPT !.user =
                      [d \in DOMAIN @ \cup {drive} |-> IF d = drive THEN total ELSE @[d]]],
                      !.buf = NoBuffer]
      /\ io' = NoIo
      /\ UNCHANGED <<start, efi, named, disks, root, bootdev, lists, renamed, setup, booted, history>>

\* The host loses a disk or gets it back.
Plug(name) ==
  /\ Command({"shell"})
  /\ shell' = [shell EXCEPT !.host.dev[name].present = ~@, !.moved = TRUE]
  /\ UNCHANGED <<start, efi, named, disks, root, bootdev, lists, renamed, io, setup, booted, history>>

\* The entry the next boot should take, from what the user saved.
Wanted == IF history.once # 0 THEN history.once ELSE history.saved

(***************************************************************************)
(* Installation.  A setup's writes happen one at a time; each one may fail *)
(* and the power may be cut before it.                                     *)
(***************************************************************************)
Setup(config) ==
  /\ Command({"install"})
  /\ setup.queue = <<>>
  /\ setup' = I!setup_func(disks, start.dest, start.image, config)
  /\ history' = [history EXCEPT !.setups = @ + 1, !.ok = FALSE, !.config = config]
  /\ UNCHANGED <<start, efi, named, disks, root, bootdev, lists, renamed, shell, io, booted>>

WriteSector ==
  LET w == Head(setup.queue)
  IN  /\ setup.queue # <<>>
      /\ disks' = [disks EXCEPT ![w.drive] = rawwrite(@, w.lba, w.sector)]
      /\ setup' = I!Written(disks', setup)
      /\ history' = [history EXCEPT !.ok = setup'.queue = <<>> /\ setup'.try # "none"]
      /\ UNCHANGED <<start, efi, named, root, bootdev, lists, renamed, shell, io, booted, left>>

WriteFails ==
  /\ setup.queue # <<>>
  /\ setup' = I!Unwritten(disks, setup)
  /\ UNCHANGED <<start, efi, named, disks, root, bootdev, lists, renamed, shell, io, booted, history, left>>

\* The power is cut, or the machine is restarted: what it boots takes its default.
Restart ==
  /\ Command({"install"})
  /\ setup' = NoSetup
  /\ \E b \in {I!Boot(disks, start.bios, start.place)} :
       LET up == b.runs = "stage2"
           r  == I!default_func(disks, b)
       IN  /\ booted' = IF up THEN [b EXCEPT !.entry = r.entry] ELSE b
           /\ disks' = IF up THEN r.disks ELSE disks
           /\ history' = IF up THEN [history EXCEPT !.want = Wanted, !.once = 0] ELSE history
  /\ UNCHANGED <<start, efi, named, root, bootdev, lists, renamed, shell, io>>

\* savedefault in a menu entry, and in the grub shell of the system that was booted.
SaveDefault(n) ==
  /\ Command({"install"})
  /\ booted.runs = "stage2" /\ setup.queue = <<>>
  /\ disks' = I!savedefault_helper(disks, booted.place, n)
  /\ history' = [history EXCEPT !.saved = n, !.once = 0]
  /\ UNCHANGED <<start, efi, named, root, bootdev, lists, renamed, shell, io, setup, booted>>

SaveInShell(n, once) ==
  /\ Command({"install"})
  /\ booted.runs = "stage2" /\ setup.queue = <<>>
  /\ disks' = I!savedefault_shell(disks, booted.place, n, once)
  /\ history' = IF once THEN [history EXCEPT !.once = n]
                ELSE [history EXCEPT !.saved = n, !.once = 0]
  /\ UNCHANGED <<start, efi, named, root, bootdev, lists, renamed, shell, io, setup, booted>>

(***************************************************************************)
(* find_func: the names printed for a file.  A partition of a BSD label    *)
(* carries its slice's type and is passed over like the slice.             *)
(***************************************************************************)
find_func(file) ==
  LET Holds(d, p) == I!check_file(disks, d, p, file) # <<>>
      Hit(d) == LET walk == Walk(disks[d], d, Whole)
                IN  {walk[i].part : i \in {j \in DOMAIN walk :
                       /\ walk[j].type # NONE
                       /\ ~IS_PC_SLICE_TYPE_BSD(walk[j].type)
                       /\ ~IS_PC_SLICE_TYPE_EXTENDED(walk[j].type)
                       /\ Holds(d, walk[j].part)}}
  IN  {NameOf(d, Whole) : d \in {x \in DOMAIN disks : x < 8 /\ Holds(x, Whole)}}
      \cup UNION {{NameOf(d, p) : p \in Hit(d)} : d \in {x \in DOMAIN disks : IsHd(x)}}

(***************************************************************************)
(* The start of an EFI build, savedefault on it, and reading a file over   *)
(* the network while the server may replace it.  read.seen are the         *)
(* versions of the bytes read since the file was last read from its        *)
(* beginning, and read.sound says that the transfer was made then and that *)
(* the file still had the size it had when it was opened.                  *)
(***************************************************************************)
Pxe == start.machine.pxe[1]

Elsewhere == UNCHANGED <<start, named, disks, root, bootdev, lists, renamed, shell, io, setup, booted, history>>

With(s) == s @@ [want |-> efi.want, expect |-> 0, version |-> efi.version, read |-> NoRead]

EfiOn(deaf) ==
  /\ Command({"start"}) /\ ~efi.up /\ ~efi.crashed
  /\ efi' = [L!efi_main(start.machine, efi, deaf) EXCEPT !.expect = efi.want]
  /\ Elsewhere

\* Back to the firmware, or a reset.
EfiOff ==
  /\ Command({"start"}) /\ (efi.up \/ efi.crashed)
  /\ efi' = With(L!Off(efi.files))
  /\ Elsewhere

\* A number shorter than the one it replaces leaves the end of that one behind it.
EfiSave(n) ==
  LET name == efi.names.default
      new  == L!grub_save_saved_default(start.machine, efi.files, name, n)
  IN  /\ Command({"start"}) /\ efi.up
      /\ efi' = [efi EXCEPT !.files = new,
                   !.want = IF new = efi.files THEN @ ELSE IF Len(new[name]) > Len(L!Digits(n)) THEN -1 ELSE n]
      /\ Elsewhere

NetOpen(deaf) ==
  /\ Command({"start"}) /\ efi.net
  /\ efi' = [efi EXCEPT !.tftp = L!efi_tftp_dir(Pxe, @, "vmlinuz", efi.version, deaf), !.read = NoRead]
  /\ Elsewhere

NetRead(len, lost) ==
  LET t    == efi.tftp
      size == IF len > t.filemax - t.filepos THEN t.filemax - t.filepos ELSE len
      r    == L!efi_tftp_read(Pxe, t, size, efi.version, lost)
      new  == t.filepos = 0
  IN  /\ Command({"start"}) /\ efi.net /\ t.filemax # -1
      /\ lost => new
      /\ efi' = [efi EXCEPT !.tftp = r.t,
                   !.read = [sound |-> IF new THEN ~lost /\ Pxe.size[efi.version] = t.filemax ELSE @.sound,
                             seen |-> ToSet(r.data) \cup (IF new THEN {} ELSE @.seen)]]
      /\ Elsewhere

NetSeek ==
  /\ Command({"start"}) /\ efi.net /\ efi.tftp.filemax > 1
  /\ \E pos \in {0, 1} : pos # efi.tftp.filepos /\ efi' = [efi EXCEPT !.tftp.filepos = pos]
  /\ Elsewhere

NetClose ==
  /\ Command({"start"}) /\ efi.net /\ efi.tftp.path # <<>>
  /\ efi' = [efi EXCEPT !.tftp = L!efi_tftp_close(@), !.read = NoRead]
  /\ Elsewhere

ServerReplaces ==
  /\ start.kind = "start" /\ efi.net /\ efi.version < Len(Pxe.size)
  /\ efi' = [efi EXCEPT !.version = @ + 1]
  /\ Elsewhere /\ UNCHANGED left

Done == left = 0 /\ setup.queue = <<>> /\ UNCHANGED vars

Next ==
  \/ \E n \in Names, v \in BOOLEAN : Root(n, v)
  \/ MakeActive
  \/ \E n \in Names, h \in BOOLEAN : Hide(n, h)
  \/ \E n \in Names, t \in {"linux", "bsd", "none"} : PartType(n, t)
  \/ \E n \in Names, t \in {"linux"}, place \in start.room : PartNew(n, t, place)
  \/ \E d \in DOMAIN disks, text \in EfiTexts, rest \in start.memory : EfiDevice(d, text, rest)
  \/ StartShell
  \/ Quit
  \/ \E d \in start.drives, p \in start.parts, s \in {0, 1}, w \in BOOLEAN : Transfer(d, p, s, w)
  \/ EndCommand
  \/ \E d \in start.drives, n \in DOMAIN start.host.dev : ShellDevice(d, n)
  \/ \E d \in start.drives : Geometry(d, 5)
  \/ \E n \in DOMAIN start.host.dev : Plug(n)
  \/ \E c \in {"menu.lst", "grub.conf"} : Setup(c)
  \/ WriteSector
  \/ WriteFails
  \/ Restart
  \/ \E n \in {1, 2} : SaveDefault(n)
  \/ \E n \in {1, 2}, once \in BOOLEAN : SaveInShell(n, once)
  \/ \E deaf \in start.losses : EfiOn(deaf)
  \/ EfiOff
  \/ \E n \in {2, 10} : EfiSave(n)
  \/ \E deaf \in {{}, {"vmlinuz"}} : NetOpen(deaf)
  \/ \E len \in {1, 4}, lost \in BOOLEAN : NetRead(len, lost)
  \/ NetSeek
  \/ NetClose
  \/ ServerReplaces
  \/ Done

Spec == Init /\ [][Next]_vars

-----------------------------------------------------------------------------
(***************************************************************************)
(* The partitions as an operating system numbers them, written without     *)
(* GRUB's walk: the entries of the first table by their index, then the    *)
(* partitions of the extended chain in its order, with the partitions of   *)
(* each label inside its slice; those of a GPT by the index of the entry.  *)
(***************************************************************************)
RECURSIVE Chain(_, _, _)
Chain(disk, base, at) ==
  LET t    == rawread(disk, at)
      data == SelectSeq(t.e, LAMBDA e : e.type # NONE /\ ~IS_PC_SLICE_TYPE_EXTENDED(e.type))
      next == SelectSeq(t.e, LAMBDA e : IS_PC_SLICE_TYPE_EXTENDED(e.type))
  IN  IF t.kind # "table" THEN <<>>
      ELSE [i \in DOMAIN data |-> [data[i] EXCEPT !.start = at + @]]
           \o (IF next = <<>> THEN <<>> ELSE Chain(disk, base, base + next[1].start))

OsPart(s, b, e) ==
  [part |-> [s |-> s, b |-> b], type |-> e.type, start |-> e.start, len |-> e.len]

OsSlices(disk) ==
  LET mbr  == rawread(disk, 0)
      ext  == SelectSeq(mbr.e, LAMBDA e : IS_PC_SLICE_TYPE_EXTENDED(e.type))
      logs == IF ext = <<>> THEN <<>> ELSE Chain(disk, ext[1].start, ext[1].start)
      gpt  == rawread(disk, 1)
  IN  IF mbr.kind # "table" THEN {}
      ELSE IF mbr.e[1].type = SliceType("gpt") /\ gpt.kind = "gpt"
      THEN {OsPart(i - 1, FF, Slice("linux", gpt.e[i].start, gpt.e[i].last - gpt.e[i].start + 1)) :
              i \in {j \in DOMAIN gpt.e : gpt.e[j].used}}
      ELSE {OsPart(i - 1, FF, mbr.e[i]) : i \in {j \in 1..PC_SLICE_MAX :
               mbr.e[j].type # NONE /\ ~IS_PC_SLICE_TYPE_EXTENDED(mbr.e[j].type)}}
           \cup {OsPart(i + 3, FF, logs[i]) : i \in DOMAIN logs}

InLabel(disk, q) ==
  LET label == rawread(disk, q.start + 1)
  IN  IF ~IS_PC_SLICE_TYPE_BSD(q.type) \/ label.kind # "label" THEN {}
      ELSE {[OsPart(q.part.s, i - 1, label.p[i]) EXCEPT !.type = q.type] :
              i \in {j \in DOMAIN label.p : label.p[j].type # "unused"}}

OsParts(disk) == OsSlices(disk) \cup UNION {InLabel(disk, q) : q \in OsSlices(disk)}

\* The chain begins with a partition, as the tools that make chains leave it.
Ordinary(disk) ==
  LET mbr  == rawread(disk, 0)
      ext  == SelectSeq(mbr.e, LAMBDA e : IS_PC_SLICE_TYPE_EXTENDED(e.type))
      first == rawread(disk, ext[1].start)
  IN  mbr.kind = "table" =>
        \/ ext = <<>>
        \/ first.kind # "table"
        \/ first.e[1].type # NONE /\ ~IS_PC_SLICE_TYPE_EXTENDED(first.e[1].type)

Place(p) == [start |-> p.start, len |-> p.len]

(***************************************************************************)
(* A name means one partition.  Whatever hide, parttype, partnew and       *)
(* makeactive have made of the tables, every partition is reached under    *)
(* the number an operating system gives it; a name that completion offers  *)
(* opens the partition it was offered for, and completion offers every one *)
(* (a slice with a label through its partitions); and `find' prints the    *)
(* name of every partition outside a label that holds the file, once       *)
(* typed in again.  (next_partition and the walks over it, disk_io.c;      *)
(* find_func, builtins.c.)                                                 *)
(***************************************************************************)
PartitionsNamed ==
  start.kind = "bios" =>
    \A d \in DOMAIN disks : IsHd(d) /\ Ordinary(disks[d]) =>
      LET disk  == disks[d]
          Opens(n) == LET dev == set_device(n, root.drive, root.part, Cdrom)
                      IN  open_partition(disks[dev.drive], dev.drive, dev.part)
          shown == print_completions(disks, Cdrom, "h")
          found == find_func("stage2")
          parts == OsParts(disk)
      IN  /\ \A q \in parts : \E o \in {Opens(NameOf(d, q.part))} :
                                          o.ok /\ Place(o) = Place(q)
          /\ \A c \in shown : \E o \in {Opens(c.name)} : o.ok /\ Place(o) = c.place
          /\ \A q \in parts :
               q.part.b # FF \/ ~IS_PC_SLICE_TYPE_BSD(q.type) =>
                 [name |-> NameOf(d, q.part), place |-> Place(q)] \in shown
          /\ \A q \in OsSlices(disk) :
               ~IS_PC_SLICE_TYPE_BSD(q.type) /\ rawread(disk, q.start).kind = "fs" =>
                 NameOf(d, q.part) \in found

Inside(q, p) == q.start >= p.start /\ q.start + q.len <= p.start + p.len

Places(disk) == {[type |-> q.type, start |-> q.start, len |-> q.len] : q \in OsParts(disk)}

(***************************************************************************)
(* A command that changes a table changes the partition it was given.  A   *)
(* partition that another partition's command loses, moves or retypes lay  *)
(* inside that one (a label's, or the chain of an extended one), one that  *)
(* appears lies inside it, and no other disk is written.  (partnew, alone  *)
(* among them, does not refuse a GPT disk: slice 0 is then its protective  *)
(* entry.)                                                                 *)
(* (set_partition_hidden_flag and make_saved_active, disk_io.c;            *)
(* parttype_func and partnew_func, builtins.c.)                            *)
(***************************************************************************)
EditsAreLocal ==
  [][start.kind = "bios" /\ disks' # disks =>
       LET d    == named'.drive
           before == open_partition(disks[d], d, named'.part)
           after  == open_partition(disks'[d], d, named'.part)
           Mine(q) == \/ before.ok /\ Inside(q, before)
                      \/ after.ok /\ Inside(q, after)
       IN  /\ \A e \in DOMAIN disks \ {d} : disks'[e] = disks[e]
           /\ Ordinary(disks[d]) /\ Ordinary(disks'[d])
              /\ ~(rawread(disks[d], 1).kind = "gpt" /\ named'.part.s = 0) =>
                /\ \A q \in Places(disks[d]) \ Places(disks'[d]) : before.ok /\ Inside(q, before)
                /\ \A q \in Places(disks'[d]) \ Places(disks[d]) : Mine(q)]_vars

(***************************************************************************)
(* The firmware's handles and GRUB's names agree.  The handle GRUB was     *)
(* started from, turned into a drive and a partition and back, is the same *)
(* handle (for a CD that of its medium); every disk and partition handle   *)
(* has a name, unless `device' has replaced its drive or slice 0 is a BSD  *)
(* one; and the numbers do not depend on the order in which the firmware   *)
(* lists its handles.  The text that is printed for one of the first nine  *)
(* partitions of a GPT, typed in again, finds the partition's own disk,    *)
(* and no other text finds any.  (name_devices, add_device,                *)
(* grub_get_drive_partition_from_bdev_handle and                           *)
(* grub_efidisk_get_current_bdev_handle, efidisk.c;                        *)
(* grub_efi_print_device_path and parse_device_path_component, efidp.c.)   *)
(***************************************************************************)
HandlesRoundTrip ==
  start.kind = "efi" =>
    /\ \A i \in DOMAIN start.handles :
         LET h == start.handles[i]
             medium == {start.handles[j].id : j \in {k \in DOMAIN start.handles :
                          start.handles[k].path = E!CutCd(h.path)}}
         IN  \E r \in {E!grub_get_drive_partition_from_bdev_handle(lists, start.handles, disks, h)} :
             /\ h.io /\ ~renamed => r.ok
             /\ r.ok => \E o \in {open_partition(disks[r.drive], r.drive, r.part)} :
                          /\ o.ok
                          /\ E!grub_efidisk_get_current_bdev_handle(lists, start.handles, r.drive, o)
                               \in medium
    \* (Only `device' changes the lists: other orders are compared before the first command.)
    /\ left = start.cmds => \A s \in Permutations(DOMAIN start.handles) :
                              lists = E!enumerate_disks([i \in DOMAIN s |-> start.handles[s[i]]])
    /\ \A i \in DOMAIN start.handles :
         LET path == start.handles[i].path
         IN  \E text \in {Printed(path)} : \E node \in {E!parse_device_path_component(text)} :
             /\ node # <<>> <=> text.name = "hd"
             /\ text.name = "hd" /\ Last(path).num < 10 /\ Last(path).sig.len = 36 =>
                  E!get_parent_of_disk(start.handles, node[1]) = Front(path)

(***************************************************************************)
(* The grub shell's transfers reach the disk that device_map names when    *)
(* they are made, at the sector that disk's own table gives, whatever was  *)
(* opened, buffered, reassigned with `device' or unplugged before; and a   *)
(* hard disk keeps its drive number from the start that probed the host to *)
(* the next one, which reads the file.  (get_diskinfo, biosdisk and        *)
(* assign_device_name, asmstub.c; init_device_map and write_to_partition,  *)
(* device.c.)                                                              *)
(***************************************************************************)
TransfersLand ==
  start.kind = "shell" =>
    /\ io.dev # H!NoName => io.dev = io.want.dev /\ io.lba = io.want.lba
    /\ shell.on /\ ~shell.moved =>
         \A d \in DOMAIN shell.first \cup DOMAIN shell.boot :
           IsHd(d) => d \in DOMAIN shell.boot /\ d \in DOMAIN shell.first
                      /\ shell.boot[d] = shell.first[d]

(***************************************************************************)
(* A machine always starts.  Until the end of a first setup, wherever the  *)
(* power is cut and whichever write fails, it starts what it did before;   *)
(* after a setup that succeeded, and while a stage 2 that is loaded        *)
(* directly is installed again, it starts stage 2, with the configuration  *)
(* file setup was given once setup has succeeded, and with the entry saved *)
(* last: one saved with --once is booted once and the one saved before it  *)
(* is then the default again, whatever is installed in between.  (Only a   *)
(* second setup that embeds again passes through states that do not        *)
(* start.)  (setup_func, embed_func, install_func, savedefault_helper,     *)
(* savedefault_shell and default_func, builtins.c.)                        *)
(***************************************************************************)
BootsWhatWasInstalled ==
  start.kind = "install" =>
    \E b \in {I!Boot(disks, start.bios, start.place)} :
        /\ history.setups <= 1 \/ start.direct \/ history.ok => b.runs # "broken"
        /\ history.ok => b.runs = "stage2" /\ b.second.config = history.config
        /\ b.runs = "stage2" => b.second.saved % 256 = history.saved
        /\ booted.runs = "stage2" => booted.entry = history.want

(***************************************************************************)
(* The components of the path of the loaded image, written without the     *)
(* code's pointers.                                                        *)
(***************************************************************************)
Joined(nodes) == FoldLeft(LAMBDA s, n : IF n.file THEN s \o <<"\\">> \o n.name ELSE s, <<>>, nodes)

Components(text) ==
  SelectSeq(FoldLeft(LAMBDA q, t : IF t = "\\" THEN Append(q, <<>>)
                                   ELSE [q EXCEPT ![Len(q)] = Append(@, t)], <<<<>>>>, text),
            LAMBDA c : c \notin {<<>>, <<".">>})

Rooted(nodes) == LET text == Joined(nodes) IN Len(text) > 1 => text[1] = "\\" /\ text[2] = "\\"

Known(deaf) == {n \in ToSet(L!Candidates(Pxe)) : L!FullPath(Pxe, n) \in Pxe.files /\ n \notin deaf}

BestFirst == <<"uuid", "mac">> \o L!IpNames \o <<"efidefault">>

(***************************************************************************)
(* An EFI build starts with the files that lie beside it.  Loaded from     *)
(* \dir\x.efi, in whatever pieces and with whatever superfluous separators *)
(* the firmware gives the path, it reads /dir/x.conf and saves to          *)
(* /dir/x.default when these names fit, and never with one of the two from *)
(* another directory unless only the longer one does not fit; over the     *)
(* network it takes the most specific file that the server has and         *)
(* answered for, and it is started from disk only if there is none; and    *)
(* the entry it starts with is the one saved last.  (A path that does not  *)
(* begin at the root overruns its memory.)  (real_main, efimain.c;         *)
(* grub_efi_file_path_to_path_name, grub_set_config_file and               *)
(* grub_save_saved_default, efimisc.c; grub_efi_pxe_get_config_path,       *)
(* pxe.c.)                                                                 *)
(***************************************************************************)
StartsFromItsFiles ==
  start.kind = "start" =>
    LET m    == start.machine
        path == FlattenSeq([i \in DOMAIN Components(Joined(m.image)) |->
                             <<"/">> \o Components(Joined(m.image))[i]])
        stem == SubSeq(path, 1, Len(path) - 1)
        net  == m.pxe # <<>> /\ Pxe.started
    IN  /\ efi.crashed => ~Rooted(m.image)
        /\ efi.up /\ ~efi.net => ~net \/ Known(efi.deaf) = {}
        /\ efi.up /\ ~efi.net /\ path # <<>> /\ path[Len(path)] = ".efi" =>
             LET c == stem \o <<".conf">>
                 d == stem \o <<".default">>
             IN  \/ efi.names = [config |-> c, default |-> d]
                 \/ /\ L!Length(d) > NameRoom
                    /\ efi.names \in {L!Builtin, [L!Builtin EXCEPT !.config = c]}
        /\ efi.up /\ efi.net =>
             LET n == efi.names.config[3]
             IN  /\ n \in Known(efi.deaf)
                 /\ \A i, j \in DOMAIN BestFirst :
                      BestFirst[i] = n /\ BestFirst[j] \in Known(efi.deaf) => i <= j
        /\ efi.up /\ ~efi.net /\ efi.expect # -1 => efi.entry = efi.expect

(***************************************************************************)
(* A file read over the network in any number of pieces is one version of  *)
(* the file on the server, even when the server replaces it in between,    *)
(* if the transfer that the first piece starts is made.  (A transfer that  *)
(* fails is not noticed.)  (efi_tftp_dir and efi_tftp_read, efitftp.c.)    *)
(***************************************************************************)
NetFileWhole == efi.read.sound => 0 \notin efi.read.seen /\ \A v, w \in efi.read.seen : v = w
=============================================================================
