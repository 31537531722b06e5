------------------------------ MODULE HostDisks ------------------------------
(***************************************************************************)
(* The grub shell's BIOS (lib/device.c, grub/asmstub.c and grub/main.c):   *)
(* the same stage 2 as a process of an operating system, whose drives are  *)
(* the host's disks.  device.map says which; it is read when it exists and *)
(* written from a probe of the host's disks when it does not.  A drive is  *)
(* opened at its first use and stays open under a file descriptor that the *)
(* geometry carries.                                                       *)
(*                                                                         *)
(* A host is [devfs, dev, parts]: dev maps the names of its disks to       *)
(* [class, unit, present, cdrom, mode, size, heads]; parts gives the       *)
(* kernel's view of their partitions.  A shell is [map, fd, files, ro]:    *)
(* device_map, the descriptor of every drive (-1 when closed), what each   *)
(* descriptor is open on, and --read-only.                                 *)
(***************************************************************************)
EXTENDS PartTable, SequencesExt

NoName == "none"

NUM_DISKS == 256

(***************************************************************************)
(* Probing.  The classes of disks, in the order init_device_map tries      *)
(* them; within a class by controller and unit.                            *)
(***************************************************************************)
Classes == <<"ide", "ataraid", "scsi", "dac960", "i2o", "cciss", "ida">>

check_device(host, name) ==
  /\ host.dev[name].present
  /\ ~host.dev[name].cdrom
  /\ host.dev[name].mode # "unreadable"

InOrder(host, class) ==
  SetToSortSeq({n \in DOMAIN host.dev : host.dev[n].class = class /\ check_device(host, n)},
               LAMBDA a, b : host.dev[a].unit < host.dev[b].unit)

\* The disks the probe finds; under devfs those of /dev/discs, unchecked.
Probed(host) ==
  IF host.devfs
  THEN SetToSortSeq({n \in DOMAIN host.dev : host.dev[n].class # "floppy" /\ host.dev[n].present},
                    LAMBDA a, b : host.dev[a].unit < host.dev[b].unit)
  ELSE FlattenSeq([i \in DOMAIN Classes |-> InOrder(host, Classes[i])])

Floppies(host, floppy_disks) ==
  SelectSeq(SetToSortSeq({n \in DOMAIN host.dev : host.dev[n].class = "floppy"},
                         LAMBDA a, b : host.dev[a].unit < host.dev[b].unit),
            LAMBDA n : host.dev[n].unit < floppy_disks)

Line(d, num, name) == [d |-> d, num |-> num, name |-> name]

EmptyMap == [d \in {} |-> NoName]

WithDrive(map, drive, name) ==
  [d \in DOMAIN map \cup {drive} |-> IF d = drive THEN name ELSE map[d]]

(***************************************************************************)
(* read_device_map: comments and blank lines ("#") are skipped, a drive    *)
(* behind the BIOS's last is ignored, and the first line that is malformed *)
(* or names a drive twice ends the program.                                *)
(***************************************************************************)
ReadLine(state, l) ==
  LET drive == IF l.d = "h" THEN HD + l.num ELSE l.num
  IN  IF ~state.ok \/ l.d = "#" THEN state
      ELSE IF l.d \notin {"f", "h"} \/ l.name = NoName THEN [state EXCEPT !.ok = FALSE]
      ELSE IF l.num > 127 THEN state
      ELSE IF drive \in DOMAIN state.map THEN [state EXCEPT !.ok = FALSE]
      ELSE [state EXCEPT !.map = WithDrive(@, drive, l.name)]

read_device_map(file) == FoldLeft(ReadLine, [ok |-> TRUE, map |-> EmptyMap], file)

(***************************************************************************)
(* init_device_map: [ok, map, file].  The probe lists every diskette in    *)
(* the file, present or not, but maps only the ones it could read.         *)
(***************************************************************************)
init_device_map(host, file, floppy_disks) ==
  LET fds   == Floppies(host, floppy_disks)
      hds   == Probed(host)
      lines == [i \in DOMAIN fds |-> Line("f", i - 1, fds[i])]
               \o [i \in DOMAIN hds |-> Line("h", i - 1, hds[i])]
      there == {i \in DOMAIN fds : check_device(host, fds[i])}
      map   == [d \in {i - 1 : i \in there} \cup {HD + i - 1 : i \in DOMAIN hds} |->
                  IF d < HD THEN fds[d + 1] ELSE hds[d - HD + 1]]
      old   == read_device_map(file.lines)
  IN  IF file.exists THEN [ok |-> old.ok, map |-> old.map, file |-> file]
      ELSE [ok |-> TRUE, map |-> map,
            file |-> IF file.writable THEN [file EXCEPT !.exists = TRUE, !.lines = lines]
                     ELSE file]

(***************************************************************************)
(* grub_stage2: a new process has no drive open.                           *)
(***************************************************************************)
NewShell(map, read_only) ==
  [map |-> map, fd |-> [d \in {} |-> -1], files |-> [f \in {} |-> NoName],
   user |-> [d \in {} |-> 0], ro |-> read_only]

Fd(sh, drive) == IF drive \in DOMAIN sh.fd THEN sh.fd[drive] ELSE -1

MapOf(sh, drive) == IF drive \in DOMAIN sh.map THEN sh.map[drive] ELSE NoName

Close(sh, drive) ==
  IF Fd(sh, drive) = -1 THEN sh
  ELSE [sh EXCEPT !.files = [f \in DOMAIN @ \ {sh.fd[drive]} |-> @[f]], !.fd[drive] = -1]

(***************************************************************************)
(* assign_device_name: another host file (or none) for a drive.  A drive   *)
(* that is open is closed.                                                 *)
(***************************************************************************)
\* Mutant: the drive stays open on the file it had.
StaysOpen(sh, drive, device) == [sh EXCEPT !.map = WithDrive(@, drive, device)]

assign_device_name(sh, drive, device) ==
  [Close(sh, drive) EXCEPT !.map = WithDrive(@, drive, device)]

(***************************************************************************)
(* get_diskinfo: the shell afterwards and the drive's geometry, of which   *)
(* the descriptor and the number of sectors count.  A drive that cannot be *)
(* opened or read leaves the map.  The kernel gives a new descriptor the   *)
(* lowest number that is free.                                             *)
(***************************************************************************)
LowestFree(sh) ==
  CHOOSE f \in 0..NUM_DISKS : f \notin DOMAIN sh.files /\ \A g \in 0..(f - 1) : g \in DOMAIN sh.files

Opened(sh, drive) ==
  LET f == LowestFree(sh)
  IN  [sh EXCEPT !.fd = [d \in DOMAIN @ \cup {drive} |-> IF d = drive THEN f ELSE @[d]],
                 !.files = [g \in DOMAIN @ \cup {f} |-> IF g = f THEN sh.map[drive] ELSE @[g]]]

(***************************************************************************)
(* get_drive_geometry: the size the kernel reports and the heads of the    *)
(* partition table or else of the kernel; a floppy's or a disk's defaults  *)
(* for a device that is not a disk.  `geometry' overrides the size.        *)
(***************************************************************************)
get_drive_geometry(host, sh, drive) ==
  [fd    |-> Fd(sh, drive),
   total |-> IF drive \in DOMAIN sh.user THEN sh.user[drive]
             ELSE host.dev[sh.files[Fd(sh, drive)]].size]

get_diskinfo(host, sh, drive) ==
  LET name == MapOf(sh, drive)
      dev  == host.dev[name]
      able == dev.present /\ (dev.mode = "rw" \/ dev.mode = "ro")
  IN  IF Fd(sh, drive) # -1
      THEN [ok |-> TRUE, sh |-> sh, geom |-> get_drive_geometry(host, sh, drive)]
      ELSE IF name = NoName THEN [ok |-> FALSE, sh |-> sh, geom |-> [fd |-> -1, total |-> 0]]
      ELSE IF name \notin DOMAIN host.dev \/ ~able
      THEN [ok |-> FALSE, sh |-> assign_device_name(sh, drive, NoName),
            geom |-> [fd |-> -1, total |-> 0]]
      ELSE LET new == Opened(sh, drive)
           IN  [ok |-> TRUE, sh |-> new, geom |-> get_drive_geometry(host, new, drive)]

(***************************************************************************)
(* biosdisk: the device a transfer with this geometry reaches, or NoName.  *)
(* A geometry whose descriptor is no longer the drive's is refused; a      *)
(* write fails on a read-only device, and --read-only leaves it out.       *)
(***************************************************************************)
biosdisk(host, sh, drive, geom, write) ==
  IF geom.fd = -1 \/ geom.fd # Fd(sh, drive) THEN NoName
  ELSE IF write /\ (sh.ro \/ host.dev[sh.files[geom.fd]].mode # "rw") THEN NoName
  ELSE IF ~host.dev[sh.files[geom.fd]].present THEN NoName
  ELSE sh.files[geom.fd]

(***************************************************************************)
(* write_to_partition: the place a write to the kernel's partition device  *)
(* reaches.  The device is the disk's name with the slice number + 1; ret  *)
(* is -1 when there is no such device.  --read-only is not looked at.      *)
(***************************************************************************)
write_to_partition(host, sh, drive, part, sector) ==
  LET name == MapOf(sh, drive)
      mine == {p \in host.parts[name] : p.s = part.s}
  IN  IF part.b # FF THEN [ret |-> 1, dev |-> NoName, lba |-> 0, err |-> "dev_values"]
      ELSE IF mine = {} THEN [ret |-> -1, dev |-> NoName, lba |-> 0, err |-> "none"]
      ELSE IF host.dev[name].mode # "rw"
      THEN [ret |-> 0, dev |-> NoName, lba |-> 0, err |-> "no_part"]
      ELSE [ret |-> 1, dev |-> name, lba |-> (CHOOSE p \in mine : TRUE).start + sector,
            err |-> "none"]
=============================================================================
