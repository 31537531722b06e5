------------------------------ MODULE PartTable ------------------------------
(***************************************************************************)
(* Partitions and the names that select them (stage2/disk_io.c and the     *)
(* partition commands of stage2/builtins.c).  Nothing in GRUB keeps a list *)
(* of partitions: whoever needs one walks the tables again with            *)
(* next_partition, whose whole state is in the caller's variables.  The    *)
(* same walk numbers the partitions for the user's names, for `find', for  *)
(* the completions, for the commands that change a table and for the       *)
(* device GRUB was started from, each time with another destination.       *)
(*                                                                         *)
(* A disk is [size, at]: at maps the sectors with contents GRUB            *)
(* interprets to a table of four slices, a BSD label, a GPT header (with   *)
(* the entries it leads to) or a file system.  Every other sector is       *)
(* Blank.                                                                  *)
(***************************************************************************)
EXTENDS Integers, Sequences, FiniteSets, SequencesExt

\* 0xFF in the slice or the BSD field of a partition number: not chosen.
FF == 255

Whole == [s |-> FF, b |-> FF]

PC_SLICE_MAX == 4

(***************************************************************************)
(* Drive numbers: diskettes from 0, hard disks from HD, the CD at CD.      *)
(***************************************************************************)
HD == 128

CD == 256

MAX_HD_NUM == 128

IsHd(drive) == drive >= HD /\ drive < CD

(***************************************************************************)
(* The types of a slice: NONE, the three extended types and the three BSD  *)
(* types (which behave alike), GPT, and two file system types.  A hidden   *)
(* slice is its type with the flag 0x10 set.                               *)
(***************************************************************************)
SliceType(t) == [t |-> t, hidden |-> FALSE]

NONE == SliceType("none")

IS_PC_SLICE_TYPE_EXTENDED(type) == type = SliceType("extended")

IS_PC_SLICE_TYPE_BSD(type) == type = SliceType("bsd")

Slice(t, start, len) == [type |-> SliceType(t), start |-> start, len |-> len, active |-> FALSE]

NoSlice == Slice("none", 0, 0)

\* A sector with a table: its slices and the boot code in front of them.
Table(slices) == [kind |-> "table", code |-> [kind |-> "dos"], e |-> slices]

Blank == [kind |-> "blank"]

rawread(disk, sector) ==
  IF sector \in DOMAIN disk.at THEN disk.at[sector] ELSE Blank

rawwrite(disk, sector, buf) ==
  [disk EXCEPT !.at = [x \in DOMAIN @ \cup {sector} |-> IF x = sector THEN buf ELSE @[x]]]

(***************************************************************************)
(* The caller's variables of a walk: the partition reached, its type (and  *)
(* the type in the BSD label, "none" outside one), its place, the table it *)
(* was found in, the entry there, the extended partition all links are     *)
(* relative to, the GPT and the last sector read.  ok is the result.       *)
(***************************************************************************)
Fresh(disk) ==
  [part |-> Whole, type |-> NONE, bsd |-> "none", start |-> 0, len |-> disk.size,
   offset |-> 0, entry |-> -1, ext |-> 0, gpt |-> FALSE, buf |-> Blank,
   scsi |-> FALSE, ok |-> TRUE, err |-> "none"]

Fail(it, e) == [it EXCEPT !.ok = FALSE, !.err = e]

(***************************************************************************)
(* The next partition of a BSD label.  Reaching the first one reads the    *)
(* label of the slice the walk stands on.                                  *)
(***************************************************************************)
next_bsd_partition(disk, drive, it) ==
  LET first == it.part.b = FF
      label == IF first THEN rawread(disk, it.start + 1) ELSE it.buf
      from  == IF first THEN 1 ELSE it.part.b + 2
  IN  IF first /\ it.len < 2 THEN Fail(it, "bad_part_table")
      ELSE IF label.kind # "label" THEN Fail([it EXCEPT !.buf = label], "bad_part_table")
      ELSE LET used == {i \in from..Len(label.p) : label.p[i].type # "unused"}
           IN  IF used = {} THEN Fail([it EXCEPT !.buf = label], "no_part")
               ELSE LET i == CHOOSE j \in used : \A k \in used : j <= k
                    IN  [it EXCEPT !.buf = label, !.part.b = i - 1, !.bsd = label.p[i].type,
                                   !.start = label.p[i].start, !.len = label.p[i].len,
                                   !.scsi = it.scsi \/ (IsHd(drive) /\ label.scsi)]

(***************************************************************************)
(* The next used entry of a GPT.  The walk goes on from the number it gave *)
(* the partition, not from the entry it found it in.                       *)
(***************************************************************************)
\* Mutant: the walk goes on from the entry, and the number counts partitions.
NumberedByCount(disk, it) ==
  LET table == rawread(disk, 1).e
      first == it.part.s = FF
      used  == {i \in (IF first THEN 1 ELSE it.entry + 2)..Len(table) : table[i].used}
  IN  IF used = {} THEN Fail(it, "no_part")
      ELSE LET i == CHOOSE j \in used : \A k \in used : j <= k
           IN  [it EXCEPT !.part = [s |-> IF first THEN 0 ELSE it.part.s + 1, b |-> FF],
                          !.entry = i - 1, !.gpt = TRUE, !.type = SliceType("linux"),
                          !.start = table[i].start, !.len = table[i].last - table[i].start + 1]

next_gpt_slice(disk, it) ==
  LET first == it.part.s = FF
      table == rawread(disk, 1).e
      from  == IF first THEN 1 ELSE it.entry + 2
      no    == IF first THEN 0 ELSE it.part.s + 1
      used  == {i \in from..Len(table) : table[i].used}
  IN  IF used = {} THEN Fail(it, "no_part")
      ELSE LET i == CHOOSE j \in used : \A k \in used : j <= k
           IN  [it EXCEPT !.part = [s |-> no, b |-> FF], !.entry = no, !.gpt = TRUE,
                          !.type = SliceType("linux"), !.bsd = "none",
                          !.start = table[i].start, !.len = table[i].last - table[i].start + 1]

(***************************************************************************)
(* The next entry of the table at offset, empty ones included; behind the  *)
(* fourth, the first entry of the table its extended slice leads to.  The  *)
(* first four get the numbers of their entries whatever they hold, and so  *)
(* does the entry after them; later ones are counted only when used.       *)
(***************************************************************************)
RECURSIVE next_pc_slice(_, _)
next_pc_slice(disk, start) ==
  LET first == start.part.s = FF
      it    == IF first THEN [start EXCEPT !.offset = 0, !.ext = 0, !.entry = -1] ELSE start
      buf   == rawread(disk, it.offset)
      no    == IF first THEN -1 ELSE it.part.s
      entry == it.entry + 1
      links == {i \in 1..PC_SLICE_MAX : IS_PC_SLICE_TYPE_EXTENDED(buf.e[i].type)}
  IN  IF buf.kind # "table" THEN Fail([it EXCEPT !.buf = buf], "bad_part_table")
      ELSE IF it.entry = -1 /\ it.offset = 0 /\ buf.e[1].type = SliceType("gpt")
              /\ rawread(disk, 1).kind = "gpt"
      THEN next_gpt_slice(disk, it)
      ELSE IF entry = PC_SLICE_MAX /\ links = {}
      THEN Fail([it EXCEPT !.entry = entry, !.gpt = FALSE, !.buf = buf], "no_part")
      ELSE IF entry = PC_SLICE_MAX
      THEN LET i  == CHOOSE j \in links : \A k \in links : j <= k
               at == it.ext + buf.e[i].start
           IN  next_pc_slice(disk, [it EXCEPT !.offset = at, !.entry = -1, !.gpt = FALSE,
                                              !.ext = IF @ = 0 THEN at ELSE @])
      ELSE LET e == buf.e[entry + 1]
               counted == no < PC_SLICE_MAX
                          \/ (~IS_PC_SLICE_TYPE_EXTENDED(e.type) /\ e.type # NONE)
           IN  [it EXCEPT !.part = [s |-> IF counted THEN no + 1 ELSE no, b |-> FF],
                          !.entry = entry, !.gpt = FALSE, !.buf = buf, !.type = e.type,
                          !.bsd = "none", !.start = it.offset + e.start, !.len = e.len]

(***************************************************************************)
(* One step of a walk.  Inside a BSD slice (and on a diskette) the label   *)
(* comes first; when it is used up the walk goes on with the slices unless *)
(* dest asks for a partition of this label.                                *)
(***************************************************************************)
AfterLabel(disk, dest, it) ==
  IF it.ok \/ (dest.b # FF /\ (dest.s = FF \/ dest.s = it.part.s)) THEN it
  ELSE next_pc_slice(disk, [it EXCEPT !.err = "none", !.ok = TRUE])

next_partition(disk, drive, dest, prev) ==
  LET it   == [prev EXCEPT !.ok = TRUE]
      here == IF it.type = NONE THEN [it EXCEPT !.type = SliceType("bsd")] ELSE it
  IN  IF it.part # Whole /\ it.gpt THEN next_gpt_slice(disk, it)
      ELSE IF (it.part # Whole /\ IS_PC_SLICE_TYPE_BSD(it.type)) \/ ~IsHd(drive)
      THEN AfterLabel(disk, dest, next_bsd_partition(disk, drive, here))
      ELSE next_pc_slice(disk, it)

\* The partitions a walk visits, in order.
RECURSIVE WalkFrom(_, _, _, _)
WalkFrom(disk, drive, dest, it) ==
  IF it.ok THEN <<it>> \o WalkFrom(disk, drive, dest, next_partition(disk, drive, dest, it)) ELSE <<>>

Walk(disk, drive, dest) == WalkFrom(disk, drive, dest, next_partition(disk, drive, dest, Fresh(disk)))

(***************************************************************************)
(* real_open_partition(0): the partition part selects, or ok = FALSE.  A   *)
(* BSD partition without a slice is looked for in every label.  The walk   *)
(* moves current_partition along, and a failed one leaves it at the last   *)
(* partition visited.                                                      *)
(***************************************************************************)
FirstMatch(disk, part, walk) ==
  LET match == {i \in DOMAIN walk :
                  /\ walk[i].type # NONE
                  /\ \/ part = walk[i].part
                     \/ part.s = FF /\ part.b = walk[i].part.b}
  IN  IF part = Whole THEN Fresh(disk)
      ELSE IF match = {}
      THEN Fail([Fresh(disk) EXCEPT !.part = IF walk = <<>> THEN Whole
                                             ELSE walk[Len(walk)].part], "no_part")
      ELSE walk[CHOOSE i \in match : \A j \in match : i <= j]

open_partition(disk, drive, part) == FirstMatch(disk, part, Walk(disk, drive, part))

(***************************************************************************)
(* real_open_partition(1) while completing: the names it offers, each with *)
(* the place of the partition it was offered for.  A slice that holds a    *)
(* BSD label is offered through its partitions.                            *)
(***************************************************************************)
Offered(disk, drive) ==
  LET it == ToSet(Walk(disk, drive, Whole))
  IN  {[part |-> w.part, start |-> w.start, len |-> w.len] :
         w \in {v \in it : /\ v.type # NONE
                           /\ ~IS_PC_SLICE_TYPE_EXTENDED(v.type)
                           /\ v.part.b # FF \/ ~IS_PC_SLICE_TYPE_BSD(v.type)}}

(***************************************************************************)
(* Device names.  A typed name is [disk, num, comma, s, b, close]: the     *)
(* letter of the disk ("" when left out), its number, whether a comma      *)
(* follows, the slice and the BSD letter (FF when left out) and whether    *)
(* the parenthesis is closed.                                              *)
(***************************************************************************)
Typed(d, n, comma, s, b) ==
  [disk |-> d, num |-> n, comma |-> comma, s |-> s, b |-> b, close |-> TRUE]

sane_partition(drive, part) ==
  /\ drive % HD < MAX_HD_NUM
  /\ part.b = FF \/ part.b < 8
  /\ part.s = FF \/ IsHd(drive)

(***************************************************************************)
(* set_device: the drive and partition a name stands for, relative to the  *)
(* root device, or ok = FALSE.                                             *)
(***************************************************************************)
set_device(name, saved_drive, saved_partition, cdrom) ==
  LET drive == CASE name.disk = ""  -> saved_drive
                 [] name.disk = "c" -> CD
                 [] name.disk = "h" -> HD + name.num
                 [] OTHER           -> name.num
      part  == IF ~name.comma THEN Whole
               ELSE IF name.s = FF /\ name.b = FF THEN saved_partition
               ELSE [s |-> name.s, b |-> name.b]
      ok    == /\ name.disk = "c" => cdrom
               /\ name.s # FF => IsHd(drive) /\ name.s <= 254
               /\ name.close
               /\ sane_partition(drive, part)
  IN  [ok |-> ok, drive |-> drive, part |-> part]

\* The name printed for a partition (sprint_device, find_func, blocklist_func).
NameOf(drive, part) ==
  IF drive = CD THEN Typed("c", 0, FALSE, FF, FF)
  ELSE Typed(IF IsHd(drive) THEN "h" ELSE "f", drive % HD, part # Whole, part.s, part.b)

(***************************************************************************)
(* print_completions for a device: the disks offered for "(", "(hd" and    *)
(* "(fd", and the partitions offered once the disk is chosen.  A disk that *)
(* is the only one offered is closed at once, or a comma invites a         *)
(* partition.  The result is the set of names the user may end with.       *)
(***************************************************************************)
DisksOffered(present, cdrom, letter) ==
  {NameOf(d, Whole) : d \in {x \in present : /\ x # CD
                                             /\ letter = "h" => IsHd(x)
                                             /\ letter = "f" => ~IsHd(x)}}
  \cup (IF cdrom /\ letter \in {"", "c"} THEN {NameOf(CD, Whole)} ELSE {})

print_completions(disks, cdrom, letter) ==
  LET open == DisksOffered(DOMAIN disks, cdrom, letter)
      Parts(n) == LET d == set_device(n, 0, Whole, cdrom).drive
                  IN  {[name |-> NameOf(d, p.part), place |-> [start |-> p.start, len |-> p.len]] :
                         p \in IF d \in DOMAIN disks THEN Offered(disks[d], d) ELSE {}}
  IN  UNION {Parts(n) : n \in open}

(***************************************************************************)
(* The commands that change a table.  Each one is given the disk and       *)
(* returns [ok, disk].                                                     *)
(***************************************************************************)
Refused(disk) == [ok |-> FALSE, disk |-> disk]

Changed(disk, sector, buf) == [ok |-> TRUE, disk |-> rawwrite(disk, sector, buf)]

\* The four slices of sector 0, which these two commands take for a table unseen.
Slices(disk) ==
  LET mbr == rawread(disk, 0)
  IN  IF mbr.kind = "table" THEN mbr.e ELSE <<NoSlice, NoSlice, NoSlice, NoSlice>>

make_saved_active(disk, drive, part) ==
  LET e == Slices(disk)
      On(i) == [e[i] EXCEPT !.active = (i = part.s + 1)]
  IN  IF ~IsHd(drive) \/ part.s > 3 THEN Refused(disk)
      ELSE IF IS_PC_SLICE_TYPE_EXTENDED(e[part.s + 1].type) THEN Refused(disk)
      ELSE IF rawread(disk, 0).kind # "table" THEN [ok |-> TRUE, disk |-> disk]
      ELSE Changed(disk, 0, [disk.at[0] EXCEPT !.e = <<On(1), On(2), On(3), On(4)>>])

(***************************************************************************)
(* hide, unhide and parttype walk to the slice and change the type in the  *)
(* table the walk stands on.  A GPT is refused.                            *)
(***************************************************************************)
SetType(disk, drive, part, walk, F(_)) ==
  LET hit  == {i \in DOMAIN walk : walk[i].gpt \/ walk[i].part = part}
      it   == walk[CHOOSE i \in hit : \A j \in hit : i <= j]
  IN  IF ~IsHd(drive) \/ part.s = FF \/ part.b # FF \/ hit = {} THEN Refused(disk)
      ELSE IF it.gpt THEN Refused(disk)
      ELSE Changed(disk, it.offset, [it.buf EXCEPT !.e[it.entry + 1].type = F(@)])

\* Mutant: the table on the first sector is changed, not the one walked to.
HideInFirstTable(disk, drive, part, hidden) ==
  LET walk == Walk(disk, drive, Whole)
      hit  == {i \in DOMAIN walk : walk[i].part = part}
      it   == walk[CHOOSE i \in hit : \A j \in hit : i <= j]
  IN  IF ~IsHd(drive) \/ part.s = FF \/ part.b # FF \/ hit = {} THEN Refused(disk)
      ELSE IF it.gpt THEN Refused(disk)
      ELSE Changed(disk, 0, [disk.at[0] EXCEPT !.e[it.entry + 1].type.hidden = hidden])

set_partition_hidden_flag(disk, drive, part, hidden) ==
  SetType(disk, drive, part, Walk(disk, drive, Whole), LAMBDA t : [t EXCEPT !.hidden = hidden])

parttype_func(disk, drive, part, new_type) ==
  SetType(disk, drive, part, Walk(disk, drive, Whole), LAMBDA t : SliceType(new_type))

partnew_func(disk, drive, part, new_type, new_start, new_len) ==
  IF ~IsHd(drive) \/ part.s > 3 \/ part.b # FF \/ new_start + new_len > disk.size
  THEN Refused(disk)
  ELSE LET mbr == rawread(disk, 0)
           old == IF mbr.kind = "table" THEN mbr ELSE Table(Slices(disk))
       IN  Changed(disk, 0, [old EXCEPT !.e[part.s + 1] = Slice(new_type, new_start, new_len)])

(***************************************************************************)
(* set_bootdev: the BSD boot device number for the root device, and the    *)
(* partition table entry handed to a chain-loaded boot sector: the table   *)
(* the last walk ended in, with the entry it ended at as the active one.   *)
(***************************************************************************)
set_bootdev(disk, drive, part, it, hdbias) ==
  [table |-> IF IsHd(drive) /\ it.entry >= 0
             THEN <<rawread(disk, it.offset), it.entry>> ELSE <<>>,
   type  |-> IF IsHd(drive) THEN IF it.scsi THEN 4 ELSE 0 ELSE 2,
   slice |-> IF part = Whole THEN 1 ELSE IF part.s = FF THEN 0 ELSE part.s + 2,
   unit  |-> (drive - hdbias) % HD,
   part  |-> part.b]
=============================================================================
