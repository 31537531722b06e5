------------------------------- MODULE Install -------------------------------
(***************************************************************************)
(* Installing GRUB: setup, embed and install, and savedefault              *)
(* (stage2/builtins.c).  `setup' looks for the images, tries to embed the  *)
(* file system's stage 1.5 behind the master boot record (or in the room   *)
(* the file system leaves), and calls `install', which reads everything it *)
(* needs, then writes the patched sectors one after the other: the second  *)
(* sector of stage 2 when a stage 1.5 leads to it, the first two sectors   *)
(* of the image stage 1 loads, and stage 1 itself.  The power may fail     *)
(* between any two of these writes.                                        *)
(*                                                                         *)
(* Sectors of images are [kind |-> "start", list], the first one with its  *)
(* block list; [kind |-> "second", id, part, dev, config, saved], the one  *)
(* with the version, the place the image was installed from, the name of   *)
(* what it loads next and the saved default; and [kind |-> "body", n].  A  *)
(* file system is [kind |-> "fs", fs, code, files] in the first sector of  *)
(* its partition; files maps names to the sectors of a file.               *)
(***************************************************************************)
EXTENDS PartTable, SequencesExt

\* GRUB_INVALID_DRIVE in an installed image: the drive booted from.
BootDrive == 255

\* Room for the block list in the first sector of an image.
MaxList == 2

\* Sectors a file system leaves free for embedding, by its type.
EmbedRoom(fs) == IF fs \in {"reiserfs", "jfs", "ffs", "ufs2"} THEN 3 ELSE 0

Start(img) == [kind |-> "start", img |-> img, list |-> <<>>]

Second(img, saved) ==
  [kind |-> "second", img |-> img, part |-> Whole,
   dev |-> [drive |-> BootDrive, part |-> Whole], config |-> "built in", saved |-> saved]

Body(img, n) == [kind |-> "body", img |-> img, n |-> n]

\* A file system sector put on a partition, and an image in the sectors of a file.
FileSystem(fs, files) ==
  [kind |-> "fs", fs |-> fs, code |-> [kind |-> "none"], files |-> files]

(***************************************************************************)
(* Opening a device and a file on it.                                      *)
(***************************************************************************)
MountedAt(disk, p) ==
  LET s == rawread(disk, p.start)
  IN  [ok |-> p.ok /\ s.kind = "fs", start |-> p.start, fs |-> s]

Mounted(disks, drive, part) == MountedAt(disks[drive], open_partition(disks[drive], drive, part))

FileOf(m, name) ==
  IF ~m.ok THEN <<>> ELSE IF name \in DOMAIN m.fs.files THEN m.fs.files[name] ELSE <<>>

check_file(disks, drive, part, name) == FileOf(Mounted(disks, drive, part), name)

(***************************************************************************)
(* embed_func: where a stage 1.5 of size sectors goes on a device, 0 when  *)
(* it does not fit.                                                        *)
(***************************************************************************)
BehindFs(m, size) == IF m.ok /\ EmbedRoom(m.fs.fs) >= size THEN m.start + 1 ELSE 0

EmbedSector(disks, drive, part, size) ==
  LET mbr == rawread(disks[drive], 0)
  IN  IF part = Whole
      THEN IF /\ IsHd(drive) /\ mbr.kind = "table"
              /\ \A i \in 1..PC_SLICE_MAX : mbr.e[i].type = NONE \/ mbr.e[i].start - 1 >= size
              \* EZ-BIOS keeps its code behind the master boot record.
              /\ \A lba \in {1, 2} : rawread(disks[drive], lba).kind # "ezbios"
           THEN 1 ELSE 0
      ELSE BehindFs(Mounted(disks, drive, part), size)

Write(drive, lba, sector) == [drive |-> drive, lba |-> lba, sector |-> sector]

Embedding(drive, at, stage1_5) ==
  [ok |-> at # 0,
   sectors |-> [i \in DOMAIN stage1_5 |-> at + i - 1],
   writes |-> [i \in DOMAIN stage1_5 |-> Write(drive, at + i - 1, stage1_5[i])]]

embed_func(disks, drive, part, stage1_5) ==
  Embedding(drive, EmbedSector(disks, drive, part, Len(stage1_5)), stage1_5)

(***************************************************************************)
(* install_blocklist_helper, called for every sector read: extend the last *)
(* run or begin another one.                                               *)
(***************************************************************************)
install_blocklist_helper(list, sector) ==
  IF list # <<>> /\ list[Len(list)].sector + list[Len(list)].count = sector
  THEN [list EXCEPT ![Len(list)].count = @ + 1]
  ELSE Append(list, [sector |-> sector, count |-> 1])

BlockList(sectors) == FoldLeft(install_blocklist_helper, <<>>, sectors)

(***************************************************************************)
(* install_func: the writes it makes, in order, or ok = FALSE when it ends *)
(* before the first one.  p is dest, opened; file is the image stage 1 loads: its drive,      *)
(* partition and sectors, and their contents as they will be.              *)
(* config is what it loads in turn: the stage 2 file [drive, part,         *)
(* sectors] of a stage 1.5 or <<>>.                                        *)
(***************************************************************************)
Stage1At(disks, dest, p, s1) ==
  LET old  == rawread(disks[dest.drive], p.start)
      kept == IF old.kind \in {"table", "fs"} THEN old ELSE Table(<<NoSlice, NoSlice, NoSlice, NoSlice>>)
  IN  Write(dest.drive, p.start, [kept EXCEPT !.code = s1])

install_func(disks, dest, p, file, config, d_option, config_file) ==
  LET list   == BlockList(Tail(file.sectors))
      is1_5  == config # <<>>
      first  == [file.image[1] EXCEPT !.list = list]
      target == [drive |-> IF config[1].drive = file.drive THEN BootDrive ELSE config[1].drive,
                 part |-> config[1].part]
      second == IF is1_5
                THEN [file.image[2] EXCEPT !.part = file.part, !.dev = target, !.config = "stage2"]
                ELSE [file.image[2] EXCEPT !.part = file.part, !.config = config_file]
      stage1 == [kind |-> "stage1", drive |-> IF d_option THEN file.drive ELSE BootDrive,
                 sector |-> file.sectors[1]]
      stage2 == rawread(disks[config[1].drive], config[1].sectors[2])
  IN  IF Len(file.sectors) < 2 \/ Len(list) > MaxList \/ ~p.ok
      THEN [ok |-> FALSE, writes |-> <<>>]
      ELSE [ok |-> TRUE,
            writes |-> (IF is1_5 THEN <<Write(config[1].drive, config[1].sectors[2],
                                              [stage2 EXCEPT !.config = config_file])>>
                        ELSE <<>>)
                       \o <<Write(file.drive, file.sectors[1], first),
                            Write(file.drive, file.sectors[2], second),
                            Stage1At(disks, dest, p, stage1)>>]

(***************************************************************************)
(* setup_func tries to embed on the destination, and otherwise installs    *)
(* stage 2 directly.  (It also calls embed for the image's own partition,  *)
(* but with errnum still set by the first call, so that grub_open does not *)
(* open the stage 1.5 and nothing is written.)  An embedding that does not *)
(* fit or cannot be written is given up and its error forgotten.  A setup  *)
(* is [dest, image, config, try, queue]: what it does and the writes it    *)
(* still has to make.  try is "embed" while embedding, "embedded" while    *)
(* install's writes follow that, "direct" while they follow none, and      *)
(* "none" when setup has failed.                                           *)
(***************************************************************************)
Content(disks, su, secs) == [i \in DOMAIN secs |-> rawread(disks[su.image.drive], secs[i])]

File(disks, su, name) == check_file(disks, su.image.drive, su.image.part, name)

embed_stage1_5(disks, su) ==
  embed_func(disks, su.dest.drive, su.dest.part, Content(disks, su, File(disks, su, "stage1_5")))

Direct(disks, su, stage2) ==
  [drive |-> su.image.drive, part |-> su.image.part, sectors |-> stage2, image |-> Content(disks, su, stage2)]

Embedded(disks, su) ==
  [drive |-> su.dest.drive, part |-> su.dest.part, sectors |-> embed_stage1_5(disks, su).sectors,
   image |-> Content(disks, su, File(disks, su, "stage1_5"))]

InstallWrites(disks, su, try) ==
  LET onward == [drive |-> su.image.drive, part |-> su.image.part, sectors |-> File(disks, su, "stage2")]
  IN  install_func(disks, su.dest, open_partition(disks[su.dest.drive], su.dest.drive, su.dest.part),
                   IF try = "direct" THEN Direct(disks, su, File(disks, su, "stage2")) ELSE Embedded(disks, su),
                   IF try = "direct" THEN <<>> ELSE <<onward>>, su.dest.drive # su.image.drive, su.config)

\* Mutant: stage 1 is written before what it leads to.
Stage1First(su, try, result) ==
  IF result.ok THEN [su EXCEPT !.try = try, !.queue = Reverse(result.writes)]
  ELSE [su EXCEPT !.try = "none", !.queue = <<>>]

Installing(su, try, result) ==
  IF result.ok THEN [su EXCEPT !.try = try, !.queue = result.writes]
  ELSE [su EXCEPT !.try = "none", !.queue = <<>>]

InstallDirect(disks, su) == Installing(su, "direct", InstallWrites(disks, su, "direct"))

Attempt(disks, su) ==
  LET embed == embed_stage1_5(disks, su)
  IN  IF File(disks, su, "stage1_5") # <<>> /\ embed.ok
      THEN [su EXCEPT !.try = "embed", !.queue = embed.writes]
      ELSE InstallDirect(disks, su)

setup_func(disks, dest, image, config_file) ==
  LET su == [dest |-> dest, image |-> image, config |-> config_file, try |-> "none", queue |-> <<>>]
  IN  IF File(disks, su, "stage1") = <<>> \/ File(disks, su, "stage2") = <<>> THEN su
      ELSE Attempt(disks, su)

\* After a write: the rest, and behind the last write of embed those of install.
Written(disks, su) ==
  IF Len(su.queue) > 1 \/ su.try # "embed" THEN [su EXCEPT !.queue = Tail(@)]
  ELSE Installing(su, "embedded", InstallWrites(disks, su, "embedded"))

\* After a write that failed: stage 2 directly, or the end of install.
Unwritten(disks, su) ==
  IF su.try = "embed" THEN InstallDirect(disks, su) ELSE [su EXCEPT !.queue = <<>>, !.try = "none"]

(***************************************************************************)
(* What the machine does when it is started from a drive (stage1.S,        *)
(* start.S and stage 1.5's cmain): "dos" when the boot record is not       *)
(* GRUB's, the stage 2 it ends in with its partition, its configuration    *)
(* file and the place of its second sector, or "broken".                   *)
(***************************************************************************)
Broken == [runs |-> "broken"]

Complete(image, first) == \A i \in DOMAIN image : image[i] = Body(first.img, i + 2)

LoadImage(disks, drive, sector) ==
  LET first == rawread(disks[drive], sector)
      secs  == FlattenSeq([i \in DOMAIN first.list |->
                 [j \in 1..first.list[i].count |-> first.list[i].sector + j - 1]])
      rest  == [i \in DOMAIN secs |-> rawread(disks[drive], secs[i])]
  IN  IF first.kind # "start" THEN Broken
      ELSE IF rest = <<>> THEN Broken
      ELSE IF rest[1].kind # "second" \/ ~Complete(Tail(rest), first) THEN Broken
      ELSE [runs |-> first.img, second |-> rest[1], place |-> <<drive, secs[1]>>, entry |-> 0]

RunFile(disks, d, secs) ==
  LET two == rawread(disks[d], secs[2])
  IN  IF Len(secs) < 2 THEN Broken
      ELSE IF two.kind # "second" THEN Broken
      ELSE [runs |-> "stage2", second |-> two, place |-> <<d, secs[2]>>, entry |-> 0]

LoadFile(disks, drive, second) ==
  LET d == IF second.dev.drive = BootDrive THEN drive ELSE second.dev.drive
  IN  RunFile(disks, d, check_file(disks, d, second.dev.part, second.config))

Boot(disks, bios, place) ==
  LET code  == rawread(disks[bios], place).code
      drive == IF code.drive = BootDrive THEN bios ELSE code.drive
      image == LoadImage(disks, drive, code.sector)
  IN  IF code.kind # "stage1" THEN [runs |-> "dos"]
      ELSE IF image.runs = "stage1_5" THEN LoadFile(disks, drive, image.second)
      ELSE image

(***************************************************************************)
(* savedefault_helper: the saved entry goes into the second sector of the  *)
(* stage 2 that was booted, if a stage 2 of this version is still there.   *)
(***************************************************************************)
savedefault_helper(disks, place, new_default) ==
  LET two == rawread(disks[place[1]], place[2])
  IN  IF two.kind # "second" THEN disks
      ELSE IF two.img # "stage2" THEN disks
      ELSE [disks EXCEPT ![place[1]] = rawwrite(@, place[2], [two EXCEPT !.saved = new_default])]

(***************************************************************************)
(* savedefault_shell, the command of the grub shell under an operating     *)
(* system: with --once the entry goes above the default already saved.     *)
(***************************************************************************)
STAGE2_ONCEONLY_ENTRY == 65536

OnceOnly(saved) == (saved \div STAGE2_ONCEONLY_ENTRY) % 2 = 1

savedefault_shell(disks, place, n, once) ==
  LET old == rawread(disks[place[1]], place[2]).saved
  IN  savedefault_helper(disks, place, IF once THEN n * 256 + STAGE2_ONCEONLY_ENTRY + (old % 256)
                                       ELSE n)

(***************************************************************************)
(* default_func of the stage 2 that was booted, for `default saved': an    *)
(* entry that counts once is taken off the disk before it is used.         *)
(***************************************************************************)
default_func(disks, b) ==
  LET saved == b.second.saved
      old   == saved % STAGE2_ONCEONLY_ENTRY
  IN  IF OnceOnly(saved)
      THEN [entry |-> old \div 256, disks |-> savedefault_helper(disks, b.place, old % 256)]
      ELSE [entry |-> saved, disks |-> disks]
=============================================================================
