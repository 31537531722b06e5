-------------------------------- MODULE Fsys -------------------------------
(***************************************************************************)
(* The file service of disk_io.c over the filesystem drivers: dir,         *)
(* grub_open, grub_seek and grub_read, and the mount before them; and      *)
(* gunzip beside them.                                                     *)
(***************************************************************************)
EXTENDS FsysDir, Gunzip

CONSTANT Parts   \* partitions: what their sectors say to the mount functions

\* What the maps of a format can reach.
Reach == CASE Driver = "minix" -> NDir + Addr + Addr * Addr
           [] Driver \in {"ffs", "ufs2"} -> NDir + Addr
           [] OTHER -> MAXINT   \* of fsmax

\* filemax.  A file of minix is never longer than its map; UFS has a third level
\* that the drivers do not know, and fsmax says so.
Units(f) == IF walk.block THEN 2 * Blocks[f]
            ELSE IF fs = "minix" THEN AtMost(Blocks[f], Reach) ELSE Blocks[f]
----------------------------------------------------------------------------
(* Mounting.  p.slice is the type of the partition, p.long whether it is   *)
(* long enough for any superblock, p.magic the formats whose superblock is *)
(* found where they look for it.                                           *)

Typed(p, types) == p.slice \in types \cup {"none"}     \* a whole disk has no type
Magic(p, m) == p.long /\ m \in p.magic

fat_mount(p)      == Typed(p, {"linux", "fat", "bsd_msdos"}) /\ Magic(p, "fat")
ext2fs_mount(p)   == Typed(p, {"linux", "bsd_ext2", "bsd_other"}) /\ Magic(p, "ext2fs")
minix_mount(p)    == Typed(p, {"minix", "bsd_other"}) /\ Magic(p, "minix")
\* At the new place or, if its journal lies before that, at the old one.
reiserfs_mount(p) == Magic(p, "reiserfs") \/ Magic(p, "reiserfs_old")
jfs_mount(p)      == Magic(p, "jfs")
xfs_mount(p)      == "xfs" \in p.magic
ufs2_mount(p)     == Typed(p, {"bsd_ffs"}) /\ Magic(p, "ufs2")
iso9660_mount(p)  == p.slice \in {"none", "bsd_iso"} /\ "iso9660" \in p.magic
ffs_mount(p)      == Typed(p, {"bsd_ffs"}) /\ Magic(p, "ffs")

\* fsys_table, in its order; the last is NUM_FSYS.
attempt_mount(p) == CASE fat_mount(p) -> "fat"
                      [] ~fat_mount(p) /\ ext2fs_mount(p) -> "ext2fs"
                      [] OTHER ->
                         IF minix_mount(p) THEN "minix"
                         ELSE IF reiserfs_mount(p) THEN "reiserfs"
                         ELSE IF jfs_mount(p) THEN "jfs"
                         ELSE IF xfs_mount(p) THEN "xfs"
                         ELSE IF ufs2_mount(p) THEN "ufs2"
                         ELSE IF iso9660_mount(p) THEN "iso9660"
                         ELSE IF ffs_mount(p) THEN "ffs" ELSE "none"

\* One driver serves two formats: what the superblock says else.
Format(d, p) == CASE d = "fat" -> IF p.wide THEN "fat32" ELSE "fat16"
                  [] d = "ext2fs" -> IF p.wide THEN "ext4" ELSE "ext2fs"
                  [] OTHER -> d

\* What a mount leaves in the buffers.
AfterMount(f) == IF f = "reiserfs" THEN journal_init(Mounted) ELSE Mounted

\* What a driver must read for itself is within its map: directories, and the texts
\* of links where it follows them.
ASSUME MapAssumption ==
  \A p \in Parts, f \in Files :
    /\ attempt_mount(p) = "minix" /\ Kind[f] # "reg" => Blocks[f] <= NDir + Addr + Addr * Addr
    /\ attempt_mount(p) \in {"ffs", "ufs2"} /\ Kind[f] = "dir" => Blocks[f] <= NDir + Addr

fsInit == /\ \E p \in Parts : fs = Format(attempt_mount(p), p)
          /\ pc = "idle" /\ file = Dir /\ walk = Start(<<>>, FALSE)
          /\ filepos = 0 /\ left = 0 /\ goal = 0 /\ mem = AfterMount(fs)
          /\ got = {} /\ errnum = "unmounted"
----------------------------------------------------------------------------
\* setup_part mounts again for every new command, after an error or a block list
\* (which uses the same buffers), and when the name has a device in it.  Otherwise
\* the buffers are those that the last file has left.
Buffers == IF errnum # "none" \/ walk.block THEN {AfterMount(fs)} ELSE {AfterMount(fs), mem}

BeginWalk(p, list) ==
  /\ pc = "idle" /\ fs # "none"
  /\ \E m \in Buffers : mem' = IF fs = "reiserfs" THEN search_stat(m, Dir) ELSE Inode(m)
  /\ walk' = Start(p, list) /\ file' = Dir /\ pc' = "walk" /\ errnum' = "none"
  /\ filepos' = 0 /\ left' = 0 /\ goal' = 0 /\ got' = {} /\ UNCHANGED fs

grub_open == \E p \in Paths : BeginWalk(p, FALSE)
dir       == \E p \in Paths : p # <<>> /\ BeginWalk(p, TRUE)

\* A block list: the blocks of some file.
grub_open_blocks ==
  /\ pc = "idle" /\ file' \in {f \in Files : Kind[f] = "reg"}
  /\ walk' = [Start(<<>>, FALSE) EXCEPT !.open = TRUE, !.block = TRUE]
  /\ mem' = Mounted /\ errnum' = "none" /\ filepos' = 0 /\ left' = 0 /\ goal' = 0
  /\ got' = {} /\ UNCHANGED <<fs, pc>>

Open == pc = "idle" /\ errnum = "none" /\ walk.open

grub_seek == /\ Open
             /\ filepos' \in 0 .. Units(file) - 1 /\ goal' = filepos' /\ got' = {}
             /\ UNCHANGED <<fs, pc, file, walk, left, mem, errnum>>

\* The length is cut to the end of the file and must not pass fsmax; the driver prepares its cursor.
grub_read == /\ Open /\ filepos < Units(file)
             /\ \E len \in 1 .. Units(file) - filepos :
                  IF filepos + len > Reach
                    THEN errnum' = "length" /\ UNCHANGED <<left, goal, pc>>
                    ELSE /\ left' = len /\ goal' = filepos + len /\ pc' = "read"
                         /\ UNCHANGED errnum
             /\ got' = {}
             /\ mem' = CASE Driver = "reiserfs" -> ReiserStart(mem)
                         [] Driver \in {"xfs", "jfs"} -> init_extents(mem)
                         [] OTHER -> mem
             /\ UNCHANGED <<fs, file, walk, filepos>>

CallEnds == /\ pc = "read" /\ left = 0 /\ pc' = "idle" /\ got' = {}
            /\ goal' = filepos
            /\ UNCHANGED <<fs, file, walk, filepos, left, mem, errnum>>

Rounds == \/ ext2fs_read \/ minix_read \/ ffs_read \/ ufs2_read \/ fat_chain \/ fat_read
          \/ xfs_read \/ jfs_read \/ reiserfs_read \/ iso9660_read
          \/ blocklist_seek \/ blocklist_read

Dirs == \/ ext2fs_dir \/ minix_dir \/ reiserfs_dir \/ xfs_dir \/ jfs_dir \/ ffs_dir
        \/ ufs2_dir \/ fat_dir \/ iso9660_dir \/ LinkRead \/ DirEnds
        \/ ext2fs_entries \/ minix_entries \/ reiserfs_entries \/ xfs_entries \/ jfs_entries
        \/ ffs_entries \/ ufs2_entries \/ fat_entries \/ iso9660_entries
        \/ jfs_next_dentry \/ reiserfs_dir_item

Next == \/ grub_open \/ dir \/ grub_open_blocks \/ grub_seek \/ grub_read \/ CallEnds
        \/ Rounds \/ Dirs \/ ReadFails
----------------------------------------------------------------------------
\* The driver jfs loses the first extent of every leaf but the first.
Exempt == Driver = "jfs" /\ Leaves(file) > 1

\* Whatever was read, opened and sought before, each block that is delivered is
\* the one of the file at that position: no map, window, node or copy in the journal
\* that the driver kept is used for another file or another part of it.  Only the
\* blocks that Lost names are delivered from another place.
Right(g)   == Lost(g[1], g[2]) \/ g[3] = Content(g[1], g[2])
ReadIsFile == ~Exempt => \A g \in got : Right(g)

\* A read that meets no error delivers as much as was asked for, and the search of
\* a directory does not end before the directory does.
ReadComplete == (pc \in {"scan", "link", "read"} /\ left = 0 /\ ~Exempt) => filepos = goal

\* XFS and JFS have written over the rest of the path (a link inside the text of a link).
Overwritten == fs \in {"xfs", "jfs"} /\ walk.links > 1

\* Some directory has blocks that the driver does not find.
Astray == \E d \in Files : Kind[d] = "dir" /\ \E n \in 0 .. Blocks[d] - 1 : Lost(d, n)

\* A path that the driver accepts is the file that the path means; what it refuses
\* has no meaning, and the error says why.  A list of completions is the list of the
\* names in that directory.
NameResolved ==
  LET p == walk.asked
      m == IF walk.list THEN Meaning[Dir, SubSeq(p, 1, Len(p) - 1), 0] ELSE Meaning[Dir, p, 0]
      Regular(f) == Kind[f] = "reg" \/ (fs \in Fats /\ Kind[f] = "link")
  IN (pc = "idle" /\ ~walk.block /\ errnum \notin {"read", "length", "unmounted"}
      /\ ~Overwritten /\ ~Astray)
     => IF walk.list
          THEN walk.shown = IF m.ok /\ Kind[m.at] = "dir"
                              THEN {n \in Names(m.at) \ Hidden(m.at) : <<p[Len(p)], n>> \in Prefix}
                              ELSE {}
          ELSE IF walk.open THEN m.ok /\ Regular(m.at) /\ file = m.at
          ELSE IF m.ok THEN errnum = "type" /\ ~Regular(m.at) ELSE errnum = m.at
----------------------------------------------------------------------------
(* Files as commands see them: the filesystem drivers, and gunzip above a  *)
(* block list.  (Above a driver gunzip reads what ReadIsFile promises.)    *)

filesInit == fsInit /\ gzInit

filesNext == \/ /\ gz.file = NoFile /\ Next /\ UNCHANGED gz
             \/ /\ fs = "none" /\ errnum = "unmounted" /\ gzNext /\ UNCHANGED fsVars

Runs == \/ (Rounds \/ Dirs \/ CallEnds) /\ UNCHANGED gz
        \/ (gunzip_copy \/ inflate_window) /\ UNCHANGED fsVars

filesSpec == filesInit /\ [][filesNext]_<<fsVars, gz>> /\ WF_<<fsVars, gz>>(Runs)

\* Every call comes back: no chain of clusters, tree, directory, link or window makes
\* a driver go round without end.
CallsReturn == []<>(pc = "idle" /\ gz.pc \in {"idle", "closed"})
=============================================================================
