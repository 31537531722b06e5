------------------------------ MODULE FsysDir ------------------------------
(***************************************************************************)
(* The dir functions of the filesystem drivers: a path is followed from    *)
(* the root through directories and symbolic links, or the names that a    *)
(* prefix can stand for are listed (print_possibilities).  A directory is  *)
(* searched block by block; its blocks are read by the driver's own maps.  *)
(***************************************************************************)
EXTENDS FsysRead

CONSTANTS Kind,       \* [Files -> {"dir", "reg", "link"}]
          Entry,      \* [directories -> [names -> [to, blk]]]: inode and block of each entry
          Text,       \* [links -> [abs, names, fast]]: fast if kept in the inode
          Paths,      \* names that are asked for; a last name "" is a slash at the end
          Prefix,     \* <<p, n>>: the name n begins with p
          PathMax,    \* names that fit in linkbuf
          MaxLinks    \* MAX_LINK_COUNT

Names(d) == DOMAIN Entry[d]

ASSUME EntryAssumption ==
  /\ Kind[Dir] = "dir"
  /\ \A d \in Files : Kind[d] = "dir" => \A n \in Names(d) : Entry[d][n].to \in Files

Linked   == {"ext2fs", "ext4", "minix", "reiserfs", "xfs", "jfs"}   \* drivers that follow links

\* asked: the path; path: what is left of it; up: the directory of the last name;
\* off: names of linkbuf before it (-1 when it is not in linkbuf).
Start(p, list) == [asked |-> p, path |-> p, up |-> Dir, links |-> 0, off |-> 0 - 1,
                   list |-> list, shown |-> {}, open |-> FALSE, block |-> FALSE]

Rest == UNCHANGED <<fs, filepos, left, goal>> /\ got' = {}

DirFails(e) == /\ errnum' = e /\ pc' = "idle"
               /\ UNCHANGED <<file, walk, mem>> /\ Rest
----------------------------------------------------------------------------
(* One turn of the loop: the inode `file` is loaded.                       *)

\* The text of a link in the place of the name.
Spliced(f, rest) == Text[f].names \o rest

\* Mutants of Jump: a relative link is followed from the root; a link is not counted.
FromRoot(path) == /\ walk' = [walk EXCEPT !.path = path, !.links = @ + 1, !.off = 0]
                  /\ file' = Dir /\ pc' = "walk" /\ UNCHANGED errnum /\ Rest
                  /\ mem' = IF fs = "reiserfs" THEN search_stat(mem, Dir) ELSE Inode(mem)
Uncounted(path) == /\ walk' = [walk EXCEPT !.path = path, !.off = 0]
                   /\ file' = IF Text[file].abs THEN Dir ELSE walk.up
                   /\ mem'  = IF fs = "reiserfs" THEN search_stat(mem, file') ELSE Inode(mem)
                   /\ pc'   = "walk" /\ UNCHANGED errnum /\ Rest

\* After the text: the root or the directory of the link is the next inode.
Jump(path) == /\ walk' = [walk EXCEPT !.path = path, !.links = @ + 1, !.off = 0]
              /\ file' = IF Text[file].abs THEN Dir ELSE walk.up
              /\ mem'  = IF fs = "reiserfs" THEN search_stat(mem, file') ELSE Inode(mem)
              /\ pc'   = "walk" /\ UNCHANGED errnum /\ Rest

\* The text is read like a file, or it is in the inode.
ReadLink == /\ pc' = "link" /\ left' = Blocks[file] /\ filepos' = 0 /\ goal' = Blocks[file]
            /\ got' = {} /\ mem' = IF fs = "reiserfs" THEN next_key(mem) ELSE init_extents(mem)
            /\ UNCHANGED <<fs, file, walk, errnum>>

FollowLink(limit, path) ==
  IF walk.links + 1 > MaxLinks THEN DirFails("loop")
  ELSE IF limit > PathMax THEN DirFails("length")
  ELSE IF Text[file].fast /\ fs \notin {"minix", "reiserfs"} THEN Jump(path)
  ELSE ReadLink

\* The end of the path must be a regular file.
NameEnds == IF Kind[file] # "reg" THEN DirFails("type")
            ELSE /\ walk' = [walk EXCEPT !.open = TRUE] /\ pc' = "idle"
                 /\ filepos' = 0 /\ left' = 0 /\ goal' = 0 /\ got' = {}
                 /\ mem' = IF fs = "reiserfs" THEN next_key(mem) ELSE mem
                 /\ UNCHANGED <<fs, file, errnum>>

\* Anything else must be a directory, which is then searched from its start.
Search == IF Kind[file] # "dir" THEN DirFails("type")
          ELSE /\ pc' = "scan" /\ filepos' = 0 /\ left' = Blocks[file] /\ goal' = Blocks[file]
               /\ walk' = [walk EXCEPT !.up = file] /\ mem' = init_extents(mem) /\ got' = {}
               /\ UNCHANGED <<fs, file, errnum>>

Turn == pc = "walk"
Tail1 == Len(walk.path)
Whole(f) == Spliced(f, walk.path)

\* ext2, minix and ReiserFS move the rest of the path to its place before they read
\* the text of the link: linkbuf may hold both.
ext2fs_dir == /\ Turn /\ fs \in {"ext2fs", "ext4"}
              /\ IF Kind[file] = "link"
                   THEN FollowLink(Len(Text[file].names) + Tail1, Whole(file))
                 ELSE IF walk.path = <<>> THEN NameEnds ELSE Search

minix_dir == /\ Turn /\ fs = "minix"
             /\ IF Kind[file] = "link"
                  THEN FollowLink(Len(Text[file].names) + Tail1, Whole(file))
                ELSE IF walk.path = <<>> THEN NameEnds ELSE Search

reiserfs_dir == /\ Turn /\ fs = "reiserfs"
                /\ IF Kind[file] = "link"
                     THEN FollowLink(Len(Text[file].names) + Tail1, Whole(file))
                   ELSE IF walk.path = <<>> THEN NameEnds ELSE Search

\* XFS and JFS read the text first.  If the rest of the path is in linkbuf, and the
\* text reaches over it, the copy that follows repeats the text's end until linkbuf is full.
Overlaid(f) == LET t == Text[f].names
                   o == walk.off
               IN IF o < 0 \/ o >= Len(t)
                    THEN SubSeq(t \o walk.path, 1,
                                IF Len(t) + Tail1 < PathMax THEN Len(t) + Tail1 ELSE PathMax)
                    ELSE [i \in 1 .. PathMax |->
                            IF i <= Len(t) THEN t[i] ELSE t[o + 1 + ((i - o - 1) % (Len(t) - o))]]

xfs_dir == /\ Turn /\ fs = "xfs"
           /\ IF Kind[file] = "link" THEN FollowLink(Len(Text[file].names), Overlaid(file))
              ELSE IF walk.path = <<>> THEN NameEnds ELSE Search

jfs_dir == /\ Turn /\ fs = "jfs"
           /\ IF Kind[file] = "link" THEN FollowLink(Len(Text[file].names), Overlaid(file))
              ELSE IF walk.path = <<>> THEN NameEnds ELSE Search

ffs_dir  == /\ Turn /\ fs = "ffs"  /\ IF walk.path = <<>> THEN NameEnds ELSE Search
ufs2_dir == /\ Turn /\ fs = "ufs2" /\ IF walk.path = <<>> THEN NameEnds ELSE Search

\* FAT knows directories and files only.
fat_dir == /\ Turn /\ fs \in Fats
           /\ IF walk.path = <<>>
                THEN IF Kind[file] = "dir" THEN DirFails("type")
                     ELSE /\ walk' = [walk EXCEPT !.open = TRUE] /\ pc' = "idle"
                          /\ filepos' = 0 /\ left' = 0 /\ goal' = 0 /\ got' = {}
                          /\ UNCHANGED <<fs, file, mem, errnum>>
                ELSE Search

\* ISO 9660 looks at the type of an entry before it goes to it, and at the root never.
iso9660_dir == /\ Turn /\ fs = "iso9660" /\ IF walk.path = <<>> THEN NameEnds ELSE Search

\* The text of the link has been read.
LinkRead == /\ pc = "link" /\ left = 0
            /\ Jump(IF fs \in {"xfs", "jfs"} THEN Overlaid(file) ELSE Whole(file))
----------------------------------------------------------------------------
(* The search of a directory.                                              *)

\* Parents that a driver cannot find: ISO 9660 passes over both special entries,
\* XFS names the one of a directory in its inode wrongly (it has one block here), and
\* FAT writes cluster 0 for the root, where the driver finds no directory.
Hidden(d) == IF \/ fs = "iso9660" \/ (fs = "xfs" /\ Blocks[d] = 1)
                \/ (fs \in Fats /\ ".." \in Names(d) /\ Entry[d][".."].to = Dir)
               THEN {".."} ELSE {}
Found(d, bs) == {n \in Names(d) \ Hidden(d) : Entry[d][n].blk \in bs}

\* A block has arrived: completions of it are printed, or the name is found.  (In a
\* block that is not the directory's no entry is taken to be seen.)
DirBlock(drivers) ==
  /\ pc = "scan" /\ got # {} /\ fs \in drivers
  /\ LET here  == Found(file, {g[2] : g \in {h \in got : h[3] = Content(file, h[2])}})
         name  == Head(walk.path)
         list  == walk.list /\ Len(walk.path) = 1
         match == {n \in here : <<name, n>> \in Prefix}
     IN IF ~list /\ name \in here
          THEN /\ file' = Entry[file][name].to /\ pc' = "walk"
               /\ walk' = [walk EXCEPT !.path = Tail(@), !.off = IF @ < 0 THEN @ ELSE @ + 1]
               /\ mem' = IF fs = "reiserfs" THEN search_stat(mem, file') ELSE Inode(mem)
               /\ UNCHANGED errnum
          ELSE /\ walk' = [walk EXCEPT !.shown = @ \cup (IF list THEN match ELSE {})]
               /\ mem' = init_extents(mem) /\ UNCHANGED <<file, pc, errnum>>
  /\ Rest

ext2fs_entries   == DirBlock({"ext2fs", "ext4"})
minix_entries    == DirBlock({"minix"})
reiserfs_entries == DirBlock({"reiserfs"})
xfs_entries      == DirBlock({"xfs"})
jfs_entries      == DirBlock({"jfs"})
ffs_entries      == DirBlock({"ffs"})
ufs2_entries     == DirBlock({"ufs2"})
\* An entry has a short name and may have a long one before it; either is its name.
fat_entries      == DirBlock(Fats)
\* The name and the type of an entry come from its Rock Ridge records, if it has any.
iso9660_entries  == DirBlock({"iso9660"})

\* The end of the directory: nothing was found, or something was printed.
DirEnds == /\ pc = "scan" /\ got = {} /\ left = 0
           /\ errnum' = IF walk.shown # {} THEN "none" ELSE "notfound"
           /\ pc' = "idle" /\ UNCHANGED <<file, walk, mem>> /\ Rest

\* JFS directories are a chain of pages that the entries lead through.
jfs_next_dentry == /\ InCall /\ Driver = "jfs" /\ pc = "scan"
                   /\ LET V(i) == <<file, filepos>> IN Deliver(1, V)
                   /\ UNCHANGED mem /\ Same

\* ReiserFS directories are items of the tree.
reiserfs_dir_item ==
  /\ InCall /\ Driver = "reiserfs" /\ pc = "scan"
  /\ LET m == next_key(mem)
         V(i) == IF m.old THEN <<"old">> ELSE <<file, filepos + i>>
     IN /\ mem' = m
        /\ IF Item(m).obj # file THEN got' = {} /\ left' = 0 /\ UNCHANGED filepos
           ELSE Deliver(Item(m).n, V)
  /\ Same
----------------------------------------------------------------------------
(* The meaning of a path: the text of a link is followed from where the    *)
(* link is, and then the rest of the path.  c counts links.                *)
Meaning[d \in Files, p \in Seq(STRING), c \in 0 .. MaxLinks] ==
  IF p = <<>> THEN [ok |-> TRUE, at |-> d, links |-> c]
  ELSE IF Kind[d] # "dir" THEN [ok |-> FALSE, at |-> "type", links |-> c]
  ELSE IF Head(p) \notin Names(d) \ Hidden(d)
    THEN [ok |-> FALSE, at |-> "notfound", links |-> c]
  ELSE LET t == Entry[d][Head(p)].to
       IN IF Kind[t] # "link" \/ fs \notin Linked THEN Meaning[t, Tail(p), c]
          ELSE IF c = MaxLinks THEN [ok |-> FALSE, at |-> "loop", links |-> c]
          ELSE LET r == Meaning[IF Text[t].abs THEN Dir ELSE d, Text[t].names, c + 1]
               IN IF r.ok THEN Meaning[r.at, Tail(p), r.links] ELSE r

=============================================================================
