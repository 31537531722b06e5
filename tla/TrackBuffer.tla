----------------------------- MODULE TrackBuffer -----------------------------
(***************************************************************************)
(* The raw disk layer of GRUB Legacy: rawread, devread, rawwrite and       *)
(* devwrite of stage2/disk_io.c, above the firmware's biosdisk             *)
(* (stage2/bios.c or efi/efidisk.c) and below every filesystem driver.     *)
(*                                                                         *)
(* One buffer (BUFFERADDR, BUFFERLEN bytes) caches one "virtual track" of  *)
(* one drive.  buf_drive, buf_track and buf_geom say what it holds.  The   *)
(* model works in whole sectors: byte_offset and byte_len of the C calls   *)
(* are abstracted to the first sector touched and the number of sectors    *)
(* touched, which is what decides every branch.                            *)
(***************************************************************************)
EXTENDS Integers

CONSTANTS
  Drives,          \* BIOS drive numbers
  NoDrive,         \* buf_drive = -1
  Removable,       \* drives whose medium the user can exchange
  Geometry,        \* what get_diskinfo reports, and chs_sectors = C * H * S
  PhysSectors,     \* drive -> number of sectors the medium really has
  Partitions,      \* drive -> set of <<start, length>> its partition tables name
  MaxSector,       \* bound: sector numbers are below MaxSector
  MaxLength,       \* bound: the longest devread, in sectors
  BufferSlots,     \* sectors the buffer has room for
  Data,            \* contents of a sector
  EzData,          \* the contents that carry PC_SLICE_TYPE_EZD in a slice entry
  Junk,            \* memory nobody has written disk data to
  Media,           \* drive -> the media that can be in it, as sector -> contents
  Writes,          \* bound: drive -> the <<first sector, number, contents>> written
  Firmwares        \* the builds: "bios" (stage2/bios.c), "efi" (efi/efidisk.c)

Sector == 0 .. MaxSector - 1
Slot == 0 .. BufferSlots - 1

(* struct geometry; buffer_sectors is BUFFERLEN >> sector_size_bits.       *)
GeometryType == [total_sectors : Nat, chs_sectors : Nat, sectors : Nat \ {0, 1},
                 buffer_sectors : Nat \ {0, 1}, lba : BOOLEAN, cdrom : BOOLEAN]

(* sectors_per_vtrack: a track, cut to what fits in the buffer.            *)
VTrack(g) == IF g.sectors > g.buffer_sectors THEN g.buffer_sectors ELSE g.sectors

ASSUME SizeAssumption ==
  /\ MaxSector \in Nat \ {0}
  /\ MaxLength \in Nat \ {0}
  /\ BufferSlots \in Nat \ {0}

ASSUME DriveAssumption ==
  /\ NoDrive \notin Drives
  /\ Removable \subseteq Drives
  /\ PhysSectors \in [Drives -> 1 .. MaxSector]
  /\ Partitions \in [Drives -> SUBSET (Nat \X Nat)]
  /\ Geometry \in [Drives -> GeometryType]
  /\ \A d \in Drives : VTrack(Geometry[d]) <= BufferSlots

ASSUME DataAssumption ==
  /\ EzData \subseteq Data
  /\ Junk \notin Data
  /\ Media \in [Drives -> SUBSET [Sector -> Data]]
  /\ Writes \in [Drives -> SUBSET (Sector \X (Nat \ {0}) \X Data)]
  /\ Firmwares \subseteq {"bios", "efi"}

VARIABLES
  firmware,   \* which build runs; chosen when GRUB starts
  disk,       \* drive -> sector -> contents of the medium in the drive
  buf,        \* BUFFERADDR, by sector
  buf_drive, buf_track, buf_geom,
  part,       \* current_drive, part_start and part_length
  errnum,
  pc,         \* "prompt", "command", "reading", "writing", "read", "written"
  call,       \* the transfer in progress: drive, first, last, next sector, value
  out,        \* the memory rawread fills, by absolute sector number
  doubt       \* history: what happened in this command that may have made the
              \* buffer wrong without the code noticing (see Doubts)

vars == <<firmware, disk, buf, buf_drive, buf_track, buf_geom, part, errnum, pc, call, out, doubt>>
bufvars == <<buf, buf_drive, buf_track, buf_geom>>

ReadErrors == {"none", "ERR_NO_DISK", "ERR_GEOM", "ERR_READ", "ERR_OUTSIDE_PART"}
Errors == ReadErrors \cup {"ERR_WRITE"}

(* Four places where the code trusts what it should not.                    *)
(*   dropped  efidisk.c returns zero for a transfer that failed            *)
(*   torn     a later round of a read ends at total_sectors, after the end *)
(*            of a track alone was buffered under the track's name         *)
(*   kept     rawwrite leaves a written sector in the buffer: it compares  *)
(*            the first sector of the drive's track, not of the virtual    *)
(*            one, and a write that fails is not looked at at all          *)
(*   mapped   another sector than 0, first of a partial read of track 0,   *)
(*            has an EZ-Drive type byte and is replaced by the next one    *)
Doubts == {"dropped", "torn", "kept", "mapped"}

NoPart == [drive |-> NoDrive, start |-> 0, length |-> 0]
NoCall == [drive |-> NoDrive, first |-> 0, last |-> 0, sector |-> 0, value |-> Junk]
NoGeom == [total_sectors |-> 0, chs_sectors |-> 0, sectors |-> 2,
           buffer_sectors |-> 2, lba |-> FALSE, cdrom |-> FALSE]
BlankBuf == [i \in Slot |-> Junk]
BlankOut == [s \in Sector |-> Junk]

Content(d, s) == IF s < PhysSectors[d] THEN disk[d][s] ELSE Junk

IsEZD(v) == v \in EzData

(* What a caller of rawread must get for sector s of drive d: an EZ-Drive  *)
(* disk keeps its partition table in sector 1, so sector 0 reads as 1.     *)
Logical(d, s) ==
  IF s = 0 /\ IsEZD(Content(d, 0)) THEN Content(d, 1) ELSE Content(d, s)

-----------------------------------------------------------------------------
(***************************************************************************)
(* The firmware.  A call yields the error biosdisk returns, the geometry   *)
(* it leaves behind and whether the transfer took place.  bios.c retries   *)
(* a failed LBA request in CHS mode, after shrinking total_sectors to the  *)
(* CHS capacity, unless the drive is a CD-ROM; efidisk.c computes the      *)
(* status of the transfer and returns zero whatever it was.                *)
(***************************************************************************)
Outcome(e, g, st) == [err |-> e, geom |-> g, data |-> st]

Fallback(g) == [g EXCEPT !.lba = FALSE, !.total_sectors = g.chs_sectors]

Transfer(d, g, s, n) ==
  {Outcome("other", g, "lost")}
    \cup {o \in {Outcome("none", g, "moved")} : s + n <= PhysSectors[d]}

ChsTransfer(d, g, s, n) ==
  IF s >= g.chs_sectors THEN {Outcome("geometry", g, "lost")}
                        ELSE Transfer(d, g, s, n)

biosdisk_bios(d, g, s, n) ==
  IF g.lba
  THEN {o \in Transfer(d, g, s, n) : o.data = "moved"}
         \cup (IF g.cdrom THEN {Outcome("other", g, "lost")}
                          ELSE ChsTransfer(d, Fallback(g), s, n))
  ELSE ChsTransfer(d, g, s, n)

biosdisk_efi(d, g, s, n) ==
  {Outcome("none", g, o.data) : o \in Transfer(d, g, s, n)}

biosdisk(d, g, s, n) ==
  IF firmware = "efi" THEN biosdisk_efi(d, g, s, n) ELSE biosdisk_bios(d, g, s, n)

(* The status of a failed transfer that is not reported.                   *)
Dropped(o) == {x \in {"dropped"} : o.err = "none" /\ o.data = "lost"}

(* The buffer after a read of n sectors from s: a transfer that failed     *)
(* leaves what was there, or nothing usable.                               *)
Filled(d, b, s, n, st) ==
  IF st = "moved"
  THEN {[i \in Slot |-> IF i < n THEN Content(d, s + i) ELSE b[i]]}
  ELSE {b, BlankBuf}

(* get_diskinfo on failure: bios.c has cleared the flags by then.          *)
DiskinfoFailed(g) == IF firmware = "bios" THEN [g EXCEPT !.lba = FALSE] ELSE g

-----------------------------------------------------------------------------
Init ==
  /\ firmware \in Firmwares
  /\ doubt = {}
  /\ disk \in [Drives -> UNION {Media[d] : d \in Drives}]
  /\ \A d \in Drives : disk[d] \in Media[d]
  /\ buf = BlankBuf /\ buf_drive = NoDrive /\ buf_track = 0 /\ buf_geom = NoGeom
  /\ part = NoPart
  /\ errnum = "none"
  /\ pc = "prompt"
  /\ call = NoCall
  /\ out = BlankOut

(* The user exchanges the medium of a removable drive at the prompt.       *)
ExchangeMedium(d) ==
  /\ pc = "prompt"
  /\ d \in Removable
  /\ \E m \in Media[d] : disk' = [disk EXCEPT ![d] = m]
  /\ UNCHANGED <<firmware, bufvars, part, errnum, pc, call, out, doubt>>

(* enter_cmdline and run_script forget the buffer before every builtin;    *)
(* with buf_drive = -1, setup_part opens the partition again.              *)
StartCommand ==
  /\ pc = "prompt"
  /\ pc' = "command"
  /\ errnum' = "none"
  /\ buf_drive' = NoDrive
  /\ part' = NoPart
  /\ doubt' = {}
  /\ UNCHANGED <<firmware, disk, buf, buf_track, buf_geom, call, out>>

EndCommand ==
  /\ pc = "command"
  /\ pc' = "prompt"
  /\ UNCHANGED <<firmware, disk, bufvars, part, errnum, call, out, doubt>>

(* real_open_partition, setup_part, grub_open and the builtins find and    *)
(* geometry clear errnum after a failed read, and setup after a failed     *)
(* write of embed; they go on with the same drive.                         *)
IgnoreError ==
  /\ pc = "command"
  /\ errnum # "none"
  /\ errnum' = "none"
  /\ UNCHANGED <<firmware, disk, bufvars, part, pc, call, out, doubt>>

(* install and savedefault outside a write: buf_track = -1.                *)
InvalidateTrack ==
  /\ pc = "command"
  /\ buf_track' = -1
  /\ UNCHANGED <<firmware, disk, buf, buf_drive, buf_geom, part, errnum, pc, call, out,
                 doubt>>

(* real_open_partition: make buf_geom valid, then name the whole disk or   *)
(* the partition that the walk over the tables, made of rawreads, found.   *)
OpenPartition(d) ==
  /\ pc = "command" /\ errnum = "none"
  /\ \/ /\ buf_drive = d
        /\ UNCHANGED bufvars
        /\ \E p \in Partitions[d] \cup {<<0, buf_geom.total_sectors>>} :
             part' = [drive |-> d, start |-> p[1], length |-> p[2]]
        /\ UNCHANGED errnum
     \/ /\ buf_drive # d
        /\ buf_drive' = d /\ buf_track' = -1 /\ buf_geom' = Geometry[d]
        /\ \E p \in Partitions[d] \cup {<<0, Geometry[d].total_sectors>>} :
             part' = [drive |-> d, start |-> p[1], length |-> p[2]]
        /\ UNCHANGED <<buf, errnum>>
     \/ /\ buf_drive # d
        /\ errnum' = "ERR_NO_DISK"
        /\ buf_geom' = DiskinfoFailed(buf_geom)
        /\ part' = NoPart
        /\ UNCHANGED <<buf, buf_drive, buf_track>>
  /\ UNCHANGED <<firmware, disk, pc, call, out, doubt>>

Call(d, s, n, v) ==
  [drive |-> d, first |-> s, last |-> s + n - 1, sector |-> s, value |-> v]

(* rawread of one sector: partition tables and boot sectors, at whatever   *)
(* sector number the tables on the disk give.                              *)
RawRead(d, s) ==
  /\ pc = "command" /\ errnum = "none"
  /\ pc' = "reading"
  /\ call' = Call(d, s, 1, Junk)
  /\ out' = BlankOut
  /\ UNCHANGED <<firmware, disk, bufvars, part, errnum, doubt>>

(* devread: n sectors from sector s of the open partition.                 *)
DevRead(s, n) ==
  /\ pc = "command" /\ errnum = "none"
  /\ part.drive # NoDrive
  /\ IF s + n - 1 >= part.length
     THEN /\ errnum' = "ERR_OUTSIDE_PART"
          /\ UNCHANGED <<pc, call, out>>
     ELSE /\ pc' = "reading"
          /\ call' = Call(part.drive, part.start + s, n, Junk)
          /\ out' = BlankOut
          /\ UNCHANGED errnum
  /\ UNCHANGED <<firmware, disk, bufvars, part, doubt>>

-----------------------------------------------------------------------------
(***************************************************************************)
(* One round of the loop of rawread.                                       *)
(***************************************************************************)
left == call.last - call.sector + 1                              \* slen
CallGeom == IF buf_drive = call.drive THEN buf_geom ELSE Geometry[call.drive]
AnyDrive == buf_track                                               \* mutant
CallTrack == IF buf_drive = call.drive THEN buf_track ELSE -1
soff(g) == call.sector % VTrack(g)
track(g) == call.sector - soff(g)
num_sect(g) == VTrack(g) - soff(g)

(* get_diskinfo fails for the drive.                                       *)
ReadNoDisk ==
  /\ pc = "reading"
  /\ buf_drive # call.drive
  /\ errnum' = "ERR_NO_DISK"
  /\ buf_geom' = DiskinfoFailed(buf_geom)
  /\ pc' = "read"
  /\ UNCHANGED <<firmware, disk, buf, buf_drive, buf_track, part, call, out, doubt>>

(* "Make sure that SECTOR is valid."                                       *)
ReadBeyondDisk ==
  /\ pc = "reading"
  /\ call.sector >= CallGeom.total_sectors
  /\ errnum' = "ERR_GEOM"
  /\ pc' = "read"
  /\ buf_drive' = call.drive /\ buf_geom' = CallGeom /\ buf_track' = CallTrack
  /\ doubt' = doubt \cup {x \in {"torn"} : call.first < call.sector}
  /\ UNCHANGED <<firmware, disk, buf, part, call, out>>

(* Copy what this round has from slot base of buffer b, and go round again *)
(* unless the request is complete or an error is pending.                  *)
Deliver(g, b, bt, base, e, D) ==
  /\ doubt' = doubt \cup D
  /\ buf' = b /\ buf_drive' = call.drive /\ buf_track' = bt /\ buf_geom' = g
  /\ errnum' = e
  /\ out' = [s \in Sector |->
               IF s \in call.sector .. call.last /\ s < call.sector + num_sect(CallGeom)
               THEN b[base + s - call.sector] ELSE out[s]]
  /\ call' = [call EXCEPT !.sector = call.sector + num_sect(CallGeom)]
  /\ pc' = IF e # "none" \/ left <= num_sect(CallGeom) THEN "read" ELSE "reading"
  /\ UNCHANGED <<firmware, disk, part>>

(* The track is in the buffer.                                             *)
ReadHit ==
  /\ pc = "reading"
  /\ call.sector < CallGeom.total_sectors
  /\ track(CallGeom) = CallTrack
  /\ Deliver(CallGeom, buf, CallTrack, soff(CallGeom), "none", {})

(* "This is a EZD disk map sector 0 to sector 1."  Slot 0 of the buffer     *)
(* holds sector call.sector - base.                                        *)
DeliverEZD(g, b, bt, base, e, D) ==
  LET mapped == (bt = 0 \/ call.sector = 0) /\ IsEZD(b[0]) IN
  \/ ~mapped /\ Deliver(g, b, bt, base, e, D)
  \/ /\ mapped /\ (bt = 0 \/ left >= 2)
     /\ Deliver(g, [b EXCEPT ![0] = b[1]], bt, base, e,
                D \cup {x \in {"mapped"} : call.sector # base})
  \/ /\ mapped /\ ~(bt = 0 \/ left >= 2)
     /\ \E o \in biosdisk(call.drive, g, 1, 1) :
          \E c \in Filled(call.drive, b, 1, 1, o.data) :
            Deliver(o.geom, c, bt, base, IF o.err = "none" THEN e ELSE "ERR_READ",
                    D \cup Dropped(o))

(* The track is not in the buffer: read it, or only the needed end of it   *)
(* when the request goes on into the next one; after an error, retry with  *)
(* just the sectors that are needed.                                       *)
ReadMiss ==
  /\ pc = "reading"
  /\ call.sector < CallGeom.total_sectors
  /\ track(CallGeom) # CallTrack
  /\ LET g == CallGeom
         partial == left > num_sect(g)
         start == IF partial THEN call.sector ELSE track(g)
         len == IF partial THEN num_sect(g) ELSE VTrack(g)
         base == IF partial THEN 0 ELSE soff(g)
     IN \E o \in biosdisk(call.drive, g, start, len) :
          \E b \in Filled(call.drive, buf, start, len, o.data) :
            \/ /\ o.err = "none"
               /\ DeliverEZD(o.geom, b, track(g), base, "none", Dropped(o))
            \/ o.err = "geometry" /\ DeliverEZD(o.geom, b, -1, base, "ERR_GEOM", {})
            \/ o.err = "other" /\ partial /\ DeliverEZD(o.geom, b, -1, 0, "ERR_READ", {})
            \/ /\ o.err = "other" /\ ~partial
               /\ \E p \in biosdisk(call.drive, o.geom, call.sector, left) :
                    \E c \in Filled(call.drive, b, call.sector, left, p.data) :
                      DeliverEZD(p.geom, c, -1, 0,
                                 IF p.err = "none" THEN "none" ELSE "ERR_READ", Dropped(p))

ReadStep == ReadNoDisk \/ ReadBeyondDisk \/ ReadHit \/ ReadMiss

-----------------------------------------------------------------------------
(***************************************************************************)
(* devwrite and rawwrite.  Every caller has read from the drive or opened  *)
(* it before, so buf_geom is the geometry of the drive.  embed, partnew,   *)
(* parttype, hide and install with its Stage 2 set buf_track = -1 before   *)
(* they write; makeactive, savedefault and the last writes of install do   *)
(* not.                                                                    *)
(***************************************************************************)
DevWrite(d, s, n, v) ==
  /\ pc = "command" /\ errnum = "none"
  /\ buf_drive = d
  /\ pc' = "writing"
  /\ call' = Call(d, s, n, v)
  /\ buf_track' \in {buf_track, -1}
  /\ UNCHANGED <<firmware, disk, buf, buf_drive, buf_geom, part, errnum, out, doubt>>

(* The buffer still holds sector t, which may have been written: rawwrite  *)
(* compares the tracks of the drive and not the virtual tracks, and it     *)
(* returns after a failed write before it compares anything.               *)
Kept(o, t) ==
  {x \in {"kept"} : /\ o.err # "none" \/ VTrack(o.geom) < o.geom.sectors
                    /\ buf_track' >= 0
                    /\ buf_track' <= t /\ t < buf_track' + VTrack(o.geom)}

IgnoreStatus(t, g, D) ==                                            \* mutant
  \E o \in biosdisk(call.drive, g, t, 1) :
    /\ disk' \in {[disk EXCEPT ![call.drive][t] = call.value]}
                  \cup {x \in {disk} : o.data = "lost"}
    /\ pc' = "written" /\ buf_track' = -1 /\ doubt' = doubt \cup D \cup Dropped(o)
    /\ UNCHANGED <<firmware, buf, buf_drive, buf_geom, part, errnum, call, out>>

(* The transfer of one sector to sector t; a failed one may have written.  *)
WriteSector(t, g, D) ==
  LET written == [disk EXCEPT ![call.drive][t] = call.value]
      done == call.sector = call.last
  IN \E o \in biosdisk(call.drive, g, t, 1) :
       /\ disk' \in {written} \cup {x \in {disk} : o.data = "lost"}
       /\ buf_geom' = o.geom
       /\ IF o.err = "none"
          THEN /\ errnum' = "none"
               /\ buf_track' = IF t - (t % o.geom.sectors) = buf_track THEN -1 ELSE buf_track
               /\ call' = [call EXCEPT !.sector = IF done THEN @ ELSE @ + 1]
               /\ pc' = IF done THEN "written" ELSE "writing"
          ELSE /\ errnum' = "ERR_WRITE"
               /\ pc' = "written"
               /\ UNCHANGED <<buf_track, call>>
       /\ doubt' = doubt \cup D \cup Dropped(o) \cup Kept(o, t)
       /\ UNCHANGED <<firmware, buf, buf_drive, part, out>>

(* rawwrite of a sector other than 0.                                      *)
WriteStep ==
  /\ pc = "writing"
  /\ call.sector # 0
  /\ WriteSector(call.sector, buf_geom, {})

(* rawwrite of sector 0 looks at the sector first: on an EZ-Drive disk the *)
(* write goes to sector 1.                                                 *)
WriteStep0 ==
  /\ pc = "writing"
  /\ call.sector = 0
  /\ \E o \in biosdisk(call.drive, buf_geom, 0, 1) :
       \/ /\ o.err # "none"
          /\ errnum' = "ERR_WRITE"
          /\ pc' = "written"
          /\ buf_geom' = o.geom
          /\ UNCHANGED <<firmware, disk, buf, buf_drive, buf_track, part, call, out, doubt>>
       \/ /\ o.err = "none"
          /\ \E ez \in IF o.data = "moved" THEN {IsEZD(Content(call.drive, 0))} ELSE BOOLEAN :
               WriteSector(IF ez THEN 1 ELSE 0, o.geom, Dropped(o))

(* rawread or devwrite returns to the command.                             *)
Return ==
  /\ pc \in {"read", "written"}
  /\ pc' = "command"
  /\ call' = NoCall
  /\ out' = BlankOut
  /\ UNCHANGED <<firmware, disk, bufvars, part, errnum, doubt>>

Next ==
  \/ \E d \in Drives : ExchangeMedium(d) \/ OpenPartition(d)
  \/ StartCommand \/ EndCommand \/ IgnoreError \/ InvalidateTrack
  \/ \E d \in Drives, s \in Sector : RawRead(d, s)
  \/ \E s \in Sector, n \in 1 .. MaxLength : DevRead(s, n)
  \/ \E d \in Drives : \E w \in Writes[d] :
       /\ w[1] + w[2] <= PhysSectors[d]
       /\ w[1] = 0 => w[3] \notin EzData
       /\ DevWrite(d, w[1], w[2], w[3])
  \/ ReadStep \/ WriteStep \/ WriteStep0 \/ Return

Spec == Init /\ [][Next]_vars

-----------------------------------------------------------------------------
(* Every variable of the disk layer has its type.                          *)
TypeOK ==
  /\ firmware \in Firmwares
  /\ disk \in [Drives -> [Sector -> Data]]
  /\ buf \in [Slot -> Data \cup {Junk}]
  /\ buf_drive \in Drives \cup {NoDrive}
  /\ buf_track \in Int
  /\ buf_geom \in GeometryType
  /\ part \in [drive : Drives \cup {NoDrive}, start : Nat, length : Nat]
  /\ errnum \in Errors
  /\ pc \in {"prompt", "command", "reading", "writing", "read", "written"}
  /\ call \in [drive : Drives \cup {NoDrive}, first : Nat, last : Nat,
               sector : Nat, value : Data \cup {Junk}]
  /\ out \in [Sector -> Data \cup {Junk}]
  /\ doubt \in SUBSET Doubts

(* A rawread or devread that returns without an error has put into the     *)
(* caller's memory what the medium in the drive holds at that moment,      *)
(* whatever the track buffer, retries, fall back to CHS, EZ-Drive mapping  *)
(* and earlier writes or exchanges of media did, in both builds and        *)
(* whether or not a track fits in the buffer.  The exceptions are the four *)
(* Doubts, each a fault of the code named where it happens; a command      *)
(* starts without one.                                                     *)
ReadCoherent ==
  pc = "read" /\ errnum = "none" /\ doubt = {} =>
    \A s \in Sector : s \in call.first .. call.last => out[s] = Logical(call.drive, s)

(* While a command runs, a buffer that claims to hold a track holds that   *)
(* track as it is on the medium, without a doubt: rawread may hand it out  *)
(* without reading.                                                        *)
BufferCoherent ==
  (/\ pc \in {"command", "read", "written"}
   /\ doubt = {}
   /\ buf_drive \in Drives /\ buf_track >= 0)
    => \A i \in 0 .. VTrack(Geometry[buf_drive]) - 1 :
         buf[i] = Logical(buf_drive, buf_track + i)

(* A devwrite that returns without an error has written every sector:      *)
(* reading them back from the medium gives the value written, unless       *)
(* efidisk.c has dropped the status of a failed transfer.                  *)
WriteDurable ==
  pc = "written" /\ errnum = "none" /\ "dropped" \notin doubt =>
    \A s \in Sector : s \in call.first .. call.last =>
                        Logical(call.drive, s) = call.value

(* No round of the loops of rawread and devwrite is idle: it ends the call *)
(* or leaves fewer sectors of the range to do, after retries, a fall back  *)
(* to CHS and partial buffer hits too.  So every call returns.             *)
TransfersAdvance ==
  [][(pc' = pc /\ pc \in {"reading", "writing"})
       => call.sector < call'.sector /\ call'.sector <= call.last]_vars
-----------------------------------------------------------------------------
(***************************************************************************)
(* The inductive invariant.                                                *)
(***************************************************************************)
V(d) == VTrack(Geometry[d])

(* g has the tracks of drive d; total_sectors shrinks when LBA fails.      *)
SameGeom(g, d) ==
  /\ g.sectors = Geometry[d].sectors
  /\ g.buffer_sectors = Geometry[d].buffer_sectors

GeomInv == buf_drive \in Drives => SameGeom(buf_geom, buf_drive)

(* The request in progress.                                                *)
CallInv ==
  /\ pc \in {"reading", "writing", "read", "written"} =>
       /\ call.drive \in Drives
       /\ call.first <= call.last
  /\ pc \in {"reading", "writing"} =>
       /\ errnum = "none"
       /\ call.first <= call.sector /\ call.sector <= call.last
  /\ pc = "read" /\ errnum = "none" => call.last < call.sector
  /\ pc \in {"writing", "written"} =>
       /\ buf_drive = call.drive
       /\ call.last < PhysSectors[call.drive]
       /\ call.value \in Data
       /\ call.first = 0 => call.value \notin EzData

(* What rawread has delivered so far is right.                             *)
OutInv ==
  pc \in {"reading", "read"} /\ errnum = "none" /\ doubt = {} =>
    \A s \in Sector : call.first <= s /\ s < call.sector /\ s <= call.last =>
      out[s] = Logical(call.drive, s)

(* The buffer is valid, aligned and coherent; between two rounds of one    *)
(* rawread it may instead hold the end of an earlier track, which the next *)
(* round does not look at.                                                 *)
Coherent ==
  \A i \in 0 .. V(buf_drive) - 1 : buf[i] = Logical(buf_drive, buf_track + i)

BufferInv ==
  buf_drive \in Drives =>
    /\ buf_track = -1 \/ (buf_track \in Nat /\ buf_track % V(buf_drive) = 0)
    /\ \/ buf_track = -1
       \/ pc = "prompt"
       \/ doubt # {}
       \/ pc = "reading" /\ call.first < call.sector
       \/ Coherent

RoundInv ==
  pc = "reading" /\ call.first < call.sector =>
    /\ buf_drive = call.drive
    /\ buf_track < call.sector
    /\ call.sector % V(call.drive) = 0

WroteInv ==
  pc \in {"writing", "written"} /\ errnum = "none" /\ "dropped" \notin doubt =>
    \A s \in Sector :
      (/\ call.first <= s /\ s <= call.last
       /\ (s < call.sector \/ pc = "written")) => Logical(call.drive, s) = call.value

IInv == /\ TypeOK /\ GeomInv /\ CallInv
        /\ OutInv /\ BufferInv /\ RoundInv /\ WroteInv
=============================================================================
