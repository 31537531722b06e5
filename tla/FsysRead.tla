------------------------------ MODULE FsysRead -----------------------------
(***************************************************************************)
(* The read functions of the filesystem drivers, under grub_open and       *)
(* grub_read of disk_io.c.  A file is opened (the driver is mounted, scans *)
(* the blocks of the directory and loads the inode), read at any position  *)
(* in calls of any length, and another one opened.  A call is a number of  *)
(* rounds, each of which reads one block or one extent and may fail.       *)
(*                                                                         *)
(* A driver finds the block of a file by direct, indirect and extent maps, *)
(* FAT chains or the balanced tree of ReiserFS, each with the blocks that  *)
(* it keeps in FSYS_BUF between two calls.  Positions are counted in       *)
(* blocks.  A block that is reached by pointers is named by the way to it: *)
(* <<f, i>> is pointer i of inode f, and Append(b, i) pointer i of block   *)
(* b.  Blocks of files in extents have numbers, and Ext says where they    *)
(* are.                                                                    *)
(***************************************************************************)
EXTENDS Integers, Sequences, FiniteSets, SequencesExt

CONSTANTS NDir,     \* direct pointers of an inode
          Addr,     \* pointers in an indirect block
          Files,    \* inodes, the directory Dir among them
          Dir,
          Blocks,   \* [Files -> Nat]: blocks of each
          Sparse,   \* ext2: the holes <<file, logical block>>, whose pointer is 0
          MapLen,   \* ffs, ufs2: pointers that fit in MAPBUF
          IndAt,    \* ffs, ufs2: [Files -> Nat]: address of the block of pointers
          Ext,      \* [Files -> Seq([off, len, start])]: extents, in order
          Window,   \* entries of the FAT that the cache holds
          PerNode,  \* extents in one leaf of an extent tree
          Tree,     \* ReiserFS: nodes of leaves of items [obj, off, kind, n]
          Slots,    \* ReiserFS: the ring of the journal, [0 .. n - 1 -> descriptor, copy or commit]
          JFirst,   \* j_first_unflushed_offset
          JTable    \* transactions that fit in the table in memory

MAXINT == 2147483647

ASSUME FsysAssumption == /\ NDir \in Nat \ {0} /\ Addr \in Nat \ {0, 1}
                         /\ Dir \in Files /\ 0 \notin Files /\ Window \in Nat \ {0} /\ PerNode \in Nat \ {0}
                         /\ \A f \in Files : Blocks[f] \in 1 .. MAXINT - 1 /\ IndAt[f] \in Nat
                         /\ MapLen \in [{"ffs", "ufs2"} -> Nat \ {0}]

\* Extents are in order and leave no hole.
ASSUME ExtentAssumption ==
  \A f \in Files :
    LET x == Ext[f]
    IN /\ x \in Seq([off : Nat, len : Nat \ {0}, start : Nat]) /\ x # <<>>
       /\ x[1].off = 0 /\ x[Len(x)].off + x[Len(x)].len = Blocks[f]
       /\ \A i \in 1 .. Len(x) - 1 : x[i + 1].off = x[i].off + x[i].len

VARIABLES fs,       \* the driver of the partition
          pc,       \* "idle", "walk" (X_dir), "scan" (a directory), "link" or "read"
          file,     \* the inode that is loaded
          walk,     \* the search for a name: see FsysDir
          filepos,  \* position in blocks (in half blocks for block lists)
          left,     \* what the call has still to read
          goal,     \* where filepos must be at its end
          mem,      \* what the driver keeps in FSYS_BUF and in its statics
          got,      \* what the last round delivered: <<file, block, content>>
          errnum    \* the error that is pending, or "none"

fsVars == <<fs, pc, file, walk, filepos, left, goal, mem, got, errnum>>

None == <<>>   \* no block

Phys(f, n) == LET e == CHOOSE i \in DOMAIN Ext[f] :
                         Ext[f][i].off <= n /\ n < Ext[f][i].off + Ext[f][i].len
              IN Ext[f][e].start + n - Ext[f][e].off

\* What block number p holds: block n of file f.
Used == UNION {{<<f, n>> : n \in 0 .. Blocks[f] - 1} : f \in Files}
Disk == [p \in {Phys(u[1], u[2]) : u \in Used} |-> CHOOSE u \in Used : Phys(u[1], u[2]) = p]
\* No block belongs to two places.
ASSUME BlockAssumption == \A u, v \in Used : Phys(u[1], u[2]) = Phys(v[1], v[2]) => u = v

At(p) == IF p \in DOMAIN Disk THEN Disk[p] ELSE <<"junk">>
----------------------------------------------------------------------------
(* Pointer maps.  m is what the driver keeps: mapblock1, mapblock2 (or     *)
(* mapblock and mapblock_offset) and the blocks in DATABLOCK1 and          *)
(* DATABLOCK2 (or MAPBUF); the result also has the map.                    *)

\* The block in DATABLOCK2 or MAPBUF, unless it must be read.  Mutant: it is not
\* read again when the pointer now leads to another block.
Trusted(bnum, m) == IF m.map2 = None THEN bnum ELSE m.d2
Cached(bnum, m)  == IF bnum # m.map2 THEN bnum ELSE m.d2

\* ext2 has no block of pointers above blocks S that are all holes, and the pointer
\* to it is 0; so is the pointer to a hole.
Zero         == <<0>>
Absent(f, S) == \A n \in S : n < Blocks[f] => <<f, n>> \in Sparse
Span(n, k)   == n .. n + k - 1

\* Where pointer i of block b leads, the one above the blocks S.  A pointer to a table
\* is followed whatever it is: block 0 then serves as a table, and has pointers too.
Pointer(f, b, i, S) == IF b[1] # 0 /\ Absent(f, S) THEN Zero ELSE Append(b, i)

\* The blocks of files under the three indirect pointers of an inode, and the
\* tables on the way to block n, by the blocks under each.
Under(k) == CASE k = 1 -> Span(NDir, Addr)
              [] k = 2 -> Span(NDir + Addr, Addr * Addr)
              [] k = 3 -> Span(NDir + Addr + Addr * Addr, Addr * Addr * Addr)
Leaf0(n) == Span(n - ((n - NDir) % Addr), Addr)
Mid(n)   == Span(n - ((n - NDir - Addr - Addr * Addr) % (Addr * Addr)), Addr * Addr)
Tables(n) == IF n - NDir < Addr THEN {Under(1)}
             ELSE IF n - NDir - Addr < Addr * Addr THEN {Under(2), Leaf0(n)}
             ELSE {Under(3), Mid(n), Leaf0(n)}

\* The table in DATABLOCK1, read unless mapblock1 says that it is there.
Top(f, k) == IF Absent(f, Under(k)) THEN Zero ELSE <<f, NDir + k - 1>>

\* ext2: twelve direct pointers, one, two and three levels of indirection.
ext2fs_block_map(f, n, m) ==
  LET a == n - NDir
      b == a - Addr
      t == b - Addr * Addr
      d1(k) == IF m.map1 = k THEN m.d1 ELSE Top(f, k)
      bnum  == Pointer(f, d1(2), b \div Addr, Leaf0(n))
      d2    == Cached(bnum, m)
      third == Pointer(f, d1(3), t \div (Addr * Addr), Mid(n))
      t2    == Pointer(f, third, (t \div Addr) % Addr, Leaf0(n))
  IN CASE n < NDir -> [m EXCEPT !.map = IF <<f, n>> \in Sparse THEN Zero ELSE <<f, n>>]
       [] n >= NDir /\ a < Addr ->
            [m EXCEPT !.map1 = 1, !.d1 = d1(1), !.map = Pointer(f, d1(1), a, {n})]
       [] a >= Addr /\ b < Addr * Addr ->
            [m EXCEPT !.map1 = 2, !.d1 = d1(2), !.map2 = bnum, !.d2 = d2,
                      !.map = Pointer(f, d2, b % Addr, {n})]
       [] b >= Addr * Addr ->
            [m EXCEPT !.map1 = 3, !.d1 = d1(3), !.map2 = None, !.d2 = t2,
                      !.map = Pointer(f, t2, t % Addr, {n})]

\* minix: the same with two levels, and a missing block is an error (here none is
\* missing: Sparse is about the files of ext2).
minix_block_map(f, n, m) ==
  LET a == n - NDir
      b == a - Addr
      d1(k) == IF m.map1 = k THEN m.d1 ELSE <<f, NDir + k - 1>>
      i  == Append(d1(2), b \div Addr)
      d2 == Cached(i, m)
  IN CASE n < NDir -> [m EXCEPT !.map = <<f, n>>]
       [] n >= NDir /\ a < Addr ->
            [m EXCEPT !.map1 = 1, !.d1 = d1(1), !.map = Append(d1(1), a)]
       [] a >= Addr ->
            [m EXCEPT !.map1 = 2, !.d1 = d1(2), !.map2 = i, !.d2 = d2,
                      !.map = Append(d2, b % Addr)]

AtMost(x, y) == IF x < y THEN x ELSE y

\* ffs and ufs2: one level, kept in MAPBUF under its address.  w is the size of a
\* pointer and len the number of them that fit in MAPBUF.  Of a longer block the part
\* from the wanted pointer on is read, but mapblock_offset is not looked at to see
\* whether MAPBUF has it (only compared with the address of the block), and counts
\* pointers of four bytes: what is then found may be another pointer, or none.
MapBuf(f, n, m, w, len) ==
  LET bnum == <<f, NDir>>
      idx  == (n - NDir) % Addr
      load == \/ bnum # m.map2
              \/ m.moff <= IndAt[f] /\ IndAt[f] <= m.moff + w * AtMost(Addr, len)
      off  == IF ~load THEN m.moff
              ELSE IF Addr <= len THEN 0
              ELSE IF idx + w * len > w * Addr THEN (w * (Addr - len)) \div 4 ELSE idx
      buf  == IF load THEN bnum ELSE m.d2
      ptr  == IF idx - off \in 0 .. len - 1 /\ (4 * off) % w = 0
                THEN Append(buf, (4 * off) \div w + idx - off) ELSE <<"junk">>
  IN IF n < NDir THEN [m EXCEPT !.map = <<f, n>>]
     ELSE [m EXCEPT !.map2 = bnum, !.d2 = buf, !.moff = off, !.map = ptr]

ffs_block_map(f, n, m)  == MapBuf(f, n, m, 4, MapLen["ffs"])
ufs2_block_map(f, n, m) == MapBuf(f, n, m, 8, MapLen["ufs2"])

\* What the format says: the way of pointers that leads to block n.
OnDisk(f, n) ==
  LET a == n - NDir
      b == a - Addr
      t == b - Addr * Addr
  IN CASE n < NDir -> <<f, n>>
       [] n >= NDir /\ a < Addr -> <<f, NDir, a>>
       [] a >= Addr /\ b < Addr * Addr -> <<f, NDir + 1, b \div Addr, b % Addr>>
       [] b >= Addr * Addr -> <<f, NDir + 2, t \div (Addr * Addr), (t \div Addr) % Addr,
                                t % Addr>>
----------------------------------------------------------------------------
(* Extents of ext4: a node of the tree is searched by bisection.           *)

\* The last entry from l - 1 to r that does not begin behind block n.
binsearch(first, l0, r0, n) ==
  LET search[p \in (1 .. r0 + 1) \X (0 .. r0)] ==
        LET l == p[1]
            r == p[2]
            m == l + (r - l) \div 2
        IN IF l > r THEN l - 1
           ELSE IF n < first[m] THEN search[<<l, m - 1>>] ELSE search[<<m + 1, r>>]
  IN search[<<l0, r0>>]

\* Leaf i of the tree has the extents from PerNode * (i - 1) + 1 on.
Leaves(f)  == (Len(Ext[f]) + PerNode - 1) \div PerNode
LeafOf(f, i) == SubSeq(Ext[f], PerNode * (i - 1) + 1,
                       IF i = Leaves(f) THEN Len(Ext[f]) ELSE PerNode * i)

ext4_ext_binsearch_idx(f, n) ==
  LET first == [i \in 1 .. Leaves(f) |-> LeafOf(f, i)[1].off]
  IN binsearch(first, 2, Leaves(f), n)

ext4_ext_binsearch(leaf, n) ==
  LET first == [i \in 1 .. Len(leaf) |-> leaf[i].off]
  IN leaf[binsearch(first, 2, Len(leaf), n)]

\* An extent that ends before the block is an error (without Sparse there is none).
ext4fs_block_map(f, n, m) ==
  LET ex == ext4_ext_binsearch(LeafOf(f, ext4_ext_binsearch_idx(f, n)), n)
  IN [m EXCEPT !.map = At(ex.start + n - ex.off)]
----------------------------------------------------------------------------
(* What a driver keeps, and one round of a call.                           *)

Depth == 3                     \* of the tree of ReiserFS; leaves are at depth 1
Stat(f) == [obj |-> f, off |-> 0, kind |-> "stat", n |-> 0]
EndKey  == [obj |-> 0, off |-> 0, kind |-> "end", n |-> 0]

\* The buffers after a mount: mapblock1 and mapblock2 are -1, cached_fat is outside
\* the table, no node of the tree is cached.
Mounted == [map |-> None, map1 |-> 0, map2 |-> None, d1 |-> None, d2 |-> None, moff |-> 0 - 1,
            ccn |-> 0, cc |-> 0, win |-> 0 - 1, buf |-> 0 - 1,
            page |-> 1, ix |-> 1, prev |-> 0,
            trans |-> 0, table |-> <<>>, key |-> <<1, 1, 1>>, end |-> FALSE, nk |-> <<0, 0, 0>>, node |-> <<0, 0>>, old |-> FALSE,
            cur |-> 0, num |-> 0, blk |-> 1]

\* Loading an inode forgets the maps of the last one.
Inode(m) == [m EXCEPT !.map1 = 0, !.map2 = IF fs \in {"ffs", "ufs2"} THEN @ ELSE None,
                      !.ccn = MAXINT]

\* A name that is no path is a list of blocks, which needs no filesystem.
Driver == IF walk.block THEN "blocklist" ELSE fs

\* Content of block n of file f, as the format of the driver places it.
Content(f, n) ==
  CASE Driver = "ext2fs" -> IF <<f, n>> \in Sparse THEN Zero ELSE OnDisk(f, n)
    [] Driver \in {"minix", "ffs", "ufs2"} -> OnDisk(f, n)
    [] Driver = "blocklist" -> <<f, n \div 2>>
    [] OTHER -> <<f, n>>

\* Blocks that a driver does not find: ext2 takes block 0 for a table that is absent
\* (fsys_ext2fs.c:481-540), and a block of pointers that is longer than MAPBUF is
\* looked at in the wrong place (fsys_ffs.c:108-135, fsys_ufs2.c:133-160).
Lost(f, n) ==
  n >= NDir /\ CASE Driver = "ext2fs" -> \E S \in Tables(n) : Absent(f, S)
                 [] Driver \in {"ffs", "ufs2"} -> Addr > MapLen[Driver]
                 [] OTHER -> FALSE

\* A block of a directory is searched before the next one is read.
InCall    == pc \in {"scan", "link", "read"} /\ left > 0 /\ (pc = "scan" => got = {})
Same      == UNCHANGED <<fs, pc, file, walk, goal, errnum>>

\* A round delivers k blocks, the i-th with content V(i).
Deliver(k, V(_)) == /\ got' = {<<file, filepos + i, V(i)>> : i \in 0 .. k - 1}
                    /\ filepos' = filepos + k /\ left' = left - k
Silent == got' = {} /\ UNCHANGED <<filepos, left>>

\* devread fails: the call ends with an error, and what was in the buffers of
\* maps may be half overwritten.
ReadFails == /\ InCall
             /\ errnum' = "read" /\ pc' = "idle" /\ got' = {} /\ left' = 0
             /\ mem' = [mem EXCEPT !.d1 = <<"junk">>, !.d2 = <<"junk">>, !.buf = 0 - 1]
             /\ UNCHANGED <<fs, file, walk, filepos, goal>>
----------------------------------------------------------------------------
(* Drivers with a map of pointers.                                         *)

\* In the scan of a directory its block is read to DATABLOCK2, where the second
\* level of the map may be, so that mapblock2 is forgotten.
ext2fs_read ==
  /\ InCall /\ Driver \in {"ext2fs", "ext4"}
  /\ LET m == IF fs = "ext4" THEN ext4fs_block_map(file, filepos, mem)
                             ELSE ext2fs_block_map(file, filepos, mem)
         V(i) == m.map
     IN /\ Deliver(1, V)
        /\ mem' = IF pc = "scan" THEN [m EXCEPT !.map2 = None, !.d2 = m.map] ELSE m
  /\ Same

minix_read ==
  /\ InCall /\ Driver = "minix"
  /\ LET m == minix_block_map(file, filepos, mem)
         V(i) == m.map
     IN /\ Deliver(1, V)
        /\ mem' = IF pc = "scan" THEN [m EXCEPT !.map2 = None, !.d2 = m.map] ELSE m
  /\ Same

ffs_read ==
  /\ InCall /\ Driver = "ffs"
  /\ LET m == ffs_block_map(file, filepos, mem)
         V(i) == m.map
     IN Deliver(1, V) /\ mem' = m
  /\ Same

ufs2_read ==
  /\ InCall /\ Driver = "ufs2"
  /\ LET m == ufs2_block_map(file, filepos, mem)
         V(i) == m.map
     IN Deliver(1, V) /\ mem' = m
  /\ Same
----------------------------------------------------------------------------
(* FAT.  Cluster p + 2 holds block number p.                               *)

Cluster(f, n) == Phys(f, n) + 2
EofMarker == 0 - 1   \* no cluster has that number
FatEntry(c) == LET b == At(c - 2)
               IN IF b[2] + 1 < Blocks[b[1]] THEN Cluster(b[1], b[2] + 1) ELSE EofMarker

\* With a table of 12 or 16 bits the root directory lies outside the clusters.
Fats == {"fat16", "fat32"}
FixedRoot == fs = "fat16" /\ file = Dir

\* A position before the current cluster starts again at the first.
FatStart(m) == IF filepos < m.ccn THEN [m EXCEPT !.ccn = 0, !.cc = Cluster(file, 0)] ELSE m

\* One link of the chain, through the window of the table that is cached.  The
\* new window is noted before it is read.
fat_chain ==
  /\ InCall /\ Driver \in Fats /\ ~FixedRoot /\ filepos > FatStart(mem).ccn
  /\ LET m == FatStart(mem)
         w == m.cc \div Window
         \* an entry of the buffer, whatever window it came from
         next == FatEntry(m.buf * Window + (m.cc % Window))
     IN IF m.win # w THEN mem' = [m EXCEPT !.win = w, !.buf = w] /\ Silent /\ Same
        ELSE IF next = EofMarker
          THEN /\ mem' = m /\ got' = {} /\ left' = 0
               /\ UNCHANGED <<fs, pc, file, walk, filepos, goal, errnum>>
          ELSE mem' = [m EXCEPT !.cc = next, !.ccn = @ + 1] /\ Silent /\ Same

fat_read ==
  /\ InCall /\ Driver \in Fats /\ (FixedRoot \/ filepos <= FatStart(mem).ccn)
  /\ LET m == FatStart(mem)
         V(i) == IF FixedRoot THEN <<file, filepos>> ELSE At(m.cc - 2)
     IN Deliver(1, V) /\ mem' = IF FixedRoot THEN mem ELSE m
  /\ Same
----------------------------------------------------------------------------
(* Extents in order: XFS and JFS look through them from the first one in   *)
(* every call.  They may be in one node or in a chain of leaves.           *)

init_extents(m) == [m EXCEPT !.page = 1, !.ix = 1, !.prev = 0 - 1]

AtEnd(m) == m.page > Leaves(file)
Xad(m)   == LeafOf(file, m.page)[m.ix]

xfs_next_extent(m) == IF m.ix < Len(LeafOf(file, m.page)) THEN [m EXCEPT !.ix = @ + 1]
                      ELSE [m EXCEPT !.page = @ + 1, !.ix = 1]

\* In a new leaf the first entry is passed over: xad is set to it and then moved.
jfs_next_extent(m) == IF m.ix < Len(LeafOf(file, m.page)) THEN [m EXCEPT !.ix = @ + 1]
                      ELSE IF m.page < Leaves(file) /\ Len(LeafOf(file, m.page + 1)) > 1
                        THEN [m EXCEPT !.page = @ + 1, !.ix = 2]
                        ELSE [m EXCEPT !.page = Leaves(file) + 1]

isinxt(key, offset, len) == key >= offset /\ key < offset + len

\* One extent: the part of it that is walk, or nothing.  (Holes between extents
\* are filled with zeros; XFS then passes over the extent behind the hole.)
ReadExtent(next) ==
  LET x == Xad(mem)
      want == IF pc = "scan" THEN 1 ELSE left     \* entries are read one by one
      k == IF x.off + x.len - filepos > want THEN want ELSE x.off + x.len - filepos
      V(i) == At(x.start + (filepos - x.off) + i)
  IN /\ IF isinxt(filepos, x.off, x.len) THEN Deliver(k, V) ELSE Silent
     /\ mem' = [next EXCEPT !.prev = x.off + x.len]
     /\ Same

ExtentsEnd == /\ got' = {} /\ left' = 0
              /\ UNCHANGED <<fs, pc, file, walk, filepos, goal, mem, errnum>>

xfs_read == /\ InCall /\ Driver = "xfs"
            /\ IF AtEnd(mem) THEN ExtentsEnd ELSE ReadExtent(xfs_next_extent(mem))

jfs_read == /\ InCall /\ Driver = "jfs" /\ pc # "scan"
            /\ IF AtEnd(mem) THEN ExtentsEnd ELSE ReadExtent(jfs_next_extent(mem))
----------------------------------------------------------------------------
(* ReiserFS: items in the leaves of a tree, in the order of their keys,    *)
(* and a journal whose committed copies are newer than the blocks at home. *)

JSize == Cardinality(DOMAIN Slots)
Home  == 0 - 1

\* N transactions were committed and are not flushed; first[t] is the descriptor of
\* transaction t.  What else is in the ring is older (an id below 1) or not committed.
Transactions(N, first) ==
  /\ N \in 0 .. JSize /\ first \in [1 .. N + 1 -> DOMAIN Slots] /\ first[1] = JFirst
  /\ \A t \in 1 .. N :
       LET d == Slots[first[t]]
           e == Slots[(first[t] + d.len + 1) % JSize]
       IN /\ d.kind = "desc" /\ d.id = t /\ d.len = Len(d.blocks) /\ d.blocks \in Seq(Nat \X Nat)
          /\ e.kind = "commit" /\ e.id = t
          /\ first[t + 1] = (first[t] + d.len + 2) % JSize
          /\ \A i, k \in DOMAIN d.blocks : d.blocks[i] = d.blocks[k] => i = k
          /\ \A i \in DOMAIN d.blocks :
               LET c == Slots[(first[t] + i) % JSize]
               IN c.kind = "copy" /\ c.of = d.blocks[i] /\ c.id = t
  /\ \A i \in DOMAIN Slots :
       /\ Slots[i].kind = "commit" => Slots[i].id # N + 1
       /\ Slots[i].kind = "copy" /\ Slots[i].id \in 1 .. N =>
            \E h \in DOMAIN Slots[first[Slots[i].id]].blocks : i = (first[Slots[i].id] + h) % JSize

ASSUME JournalAssumption ==
  /\ JTable \in Nat /\ DOMAIN Slots = 0 .. JSize - 1 /\ JSize \in Nat
  /\ \A i \in DOMAIN Slots : Slots[i].id \in Nat /\ (Slots[i].kind = "desc" => Slots[i].len \in Nat)
  /\ \E N \in 0 .. JSize : \E first \in [1 .. N + 1 -> DOMAIN Slots] : Transactions(N, first)

Describes(i, id) == Slots[i].kind = "desc" /\ Slots[i].id = id

\* The transactions from j_first_unflushed_offset on that follow one another and
\* were committed; the blocks of the first ones are kept in a table.
journal_init(m) ==
  LET next(i) == (i + Slots[i].len + 2) % JSize
      Whole(i, id) == /\ Describes(i, id)
                      /\ LET c == (i + Slots[i].len + 1) % JSize
                         IN Slots[c].kind = "commit" /\ Slots[c].id = id
      count[n \in 0 .. JSize] ==      \* n transactions seen: <<number, descriptors>>
        IF n = 0 THEN <<JFirst, <<>> >>
        ELSE LET p == count[n - 1]
             IN IF Len(p[2]) = n - 1 /\ Whole(p[1], n)
                  THEN <<next(p[1]), Append(p[2], Slots[p[1]].blocks)>> ELSE p
      seen == count[JSize][2]
  IN [m EXCEPT !.trans = Len(seen),
               !.table = SubSeq(seen, 1, IF Len(seen) < JTable THEN Len(seen) ELSE JTable)]

\* Where block b is read: at home, or in the last transaction that has a copy.
\* Behind the end of the table the descriptors are read again.
block_read(b, m) ==
  LET go[t \in 0 .. m.trans] ==
        IF t = 0 THEN [at |-> Home, desc |-> JFirst]
        ELSE LET p == go[t - 1]
                 list == IF t <= Len(m.table) THEN m.table[t] ELSE Slots[p.desc].blocks
                 hits == {i \in DOMAIN list : list[i] = b}
             IN [at |-> IF hits = {} THEN p.at
                        ELSE (p.desc + (CHOOSE i \in hits : \A h \in hits : i <= h)) % JSize,
                 desc |-> (p.desc + 2 + Len(list)) % JSize]
  IN go[m.trans].at

\* The copy of leaf b that counts: of the last transaction before the first that is not whole.
Current(b) ==
  LET Copies == {i \in DOMAIN Slots : Slots[i].kind = "copy" /\ Slots[i].of = b /\
                   Slots[i].id >= 1 /\ \A id \in 1 .. Slots[i].id : \E c \in DOMAIN Slots :
                                        Slots[c].kind = "commit" /\ Slots[c].id = id}
  IN IF Copies = {} THEN Home
     ELSE CHOOSE i \in Copies : \A h \in Copies : Slots[h].id <= Slots[i].id

\* A leaf is read where block_read says; an old copy is not the leaf.
read_tree_node(m, j, k) == [m EXCEPT !.node = <<j, k>>,
                                     !.old = block_read(<<j, k>>, m) # Current(<<j, k>>)]

Node(j)     == Tree[j]                     \* internal node j of the root
Leaf(j, k)  == Tree[j][k]
Item(m)     == IF m.end THEN EndKey ELSE Leaf(m.key[1], m.key[2])[m.key[3]]
\* The leaves are in the order of their keys.  A file has a stat item and, behind it,
\* items for all of its blocks.
Positions == UNION {UNION {{<<j, k, i>> : i \in 1 .. Len(Tree[j][k])} : k \in 1 .. Len(Tree[j])} :
                      j \in 1 .. Len(Tree)}
ItemAt(p) == Tree[p[1]][p[2]][p[3]]
Precedes(p, q) == p[1] < q[1] \/ (p[1] = q[1] /\ (p[2] < q[2] \/ (p[2] = q[2] /\ p[3] < q[3])))
Following(p) == IF p[3] < Len(Tree[p[1]][p[2]]) THEN {<<p[1], p[2], p[3] + 1>>}
                ELSE IF p[2] < Len(Tree[p[1]]) THEN {<<p[1], p[2] + 1, 1>>}
                ELSE IF p[1] < Len(Tree) THEN {<<p[1] + 1, 1, 1>>} ELSE {}
ItemEnd(it) == IF it.kind = "stat" THEN 0 ELSE it.off + it.n - 1

ASSUME TreeAssumption ==
  /\ Len(Tree) \in Nat \ {0}
  /\ \A j \in 1 .. Len(Tree) :
       Len(Tree[j]) \in Nat \ {0} /\ \A k \in 1 .. Len(Tree[j]) : Len(Tree[j][k]) \in Nat \ {0}
  /\ \A p \in Positions :
       ItemAt(p) \in [obj : Nat \ {0}, off : Nat, kind : {"stat", "direct", "indirect"}, n : Nat]
  /\ \A p, q \in Positions : Precedes(p, q) =>
       \/ ItemAt(p).obj < ItemAt(q).obj
       \/ ItemAt(p).obj = ItemAt(q).obj /\ ItemAt(p).off < ItemAt(q).off
  /\ \A f \in Files : f \in Nat \ {0} /\ \E p \in Positions : ItemAt(p) = Stat(f)
  /\ \A p \in Positions : LET it == ItemAt(p) IN it.obj \in Files =>
       /\ IF it.kind = "stat" THEN it.off = 0 ELSE it.off >= 1 /\ it.n >= 1
       /\ ItemEnd(it) <= Blocks[it.obj]
       /\ ItemEnd(it) < Blocks[it.obj] =>
            \E q \in Following(p) : ItemAt(q).obj = it.obj /\ ItemAt(q).off = ItemEnd(it) + 1

KeyAbove(it, f) == it.obj > f \/ (it.obj = f /\ it.off > 0)

\* Children of the root and of node j that may hold the stat item of f: the one
\* before the first whose smallest key is greater.
ChildOf(first, f) == LET above == {i \in 2 .. Len(first) : KeyAbove(first[i], f)}
                     IN IF above = {} THEN Len(first)
                        ELSE (CHOOSE i \in above : \A h \in above : i <= h) - 1

\* next_key_nr of a level is the child to go to next, or 0 if there is none.
Follow(i, n) == IF i = n THEN 0 ELSE i

search_stat(m, f) ==
  LET j == ChildOf([i \in 1 .. Len(Tree) |-> Tree[i][1][1]], f)
      k == ChildOf([i \in 1 .. Len(Node(j)) |-> Node(j)[i][1]], f)
      at == CHOOSE i \in 1 .. Len(Leaf(j, k)) : Leaf(j, k)[i] = Stat(f)
  IN [read_tree_node(m, j, k) EXCEPT
        !.nk = <<0, Follow(k, Len(Node(j))), Follow(j, Len(Tree))>>,
        !.key = <<j, k, at>>, !.end = FALSE]

\* Mutant of next_key: it does not go up to the parent of the node.
SameParent(m) ==
  LET j == m.node[1]
      k == m.node[2]
  IN IF m.key[3] < Len(Leaf(j, k)) THEN [m EXCEPT !.key[3] = @ + 1]
     ELSE IF m.nk[2] # 0
       THEN [read_tree_node(m, j, m.nk[2] + 1) EXCEPT
               !.key = <<j, m.nk[2] + 1, 1>>, !.nk[2] = Follow(m.nk[2] + 1, Len(Node(j)))]
       ELSE [m EXCEPT !.end = TRUE]

\* The next item: in the leaf, or along the way that next_key_nr has kept.
next_key(m) ==
  LET j == m.node[1]
      k == m.node[2]
  IN IF m.key[3] < Len(Leaf(j, k)) THEN [m EXCEPT !.key[3] = @ + 1]
     ELSE IF m.nk[2] # 0
       THEN [read_tree_node(m, j, m.nk[2] + 1) EXCEPT
               !.key = <<j, m.nk[2] + 1, 1>>, !.nk[2] = Follow(m.nk[2] + 1, Len(Node(j)))]
     ELSE IF m.nk[3] # 0
       THEN LET i == m.nk[3] + 1
            IN [read_tree_node(m, i, 1) EXCEPT !.key = <<i, 1, 1>>,
                         !.nk = <<0, Follow(1, Len(Node(i))), Follow(i, Len(Tree))>>]
     ELSE [m EXCEPT !.end = TRUE]

\* The last item is used if it is of the file and does not begin behind the position.
ReiserStart(m) == IF Item(m).obj # file \/ Item(m).off > filepos + 1
                    THEN next_key(search_stat(m, file)) ELSE m

reiserfs_read ==
  /\ InCall /\ Driver = "reiserfs" /\ pc # "scan"
  /\ LET it == Item(mem)
         offset == filepos - it.off + 1
         V(i) == IF mem.old THEN <<"old">> ELSE <<file, it.off - 1 + offset>>
     IN IF it.obj # file
          THEN got' = {} /\ left' = 0 /\ UNCHANGED <<filepos, mem>> /\ Same
        ELSE IF it.kind \in {"direct", "indirect"} /\ offset < it.n
          THEN Deliver(1, V) /\ UNCHANGED mem /\ Same
          ELSE mem' = next_key(mem) /\ Silent /\ Same
----------------------------------------------------------------------------
(* ISO 9660 files are in one piece; a block list is walked from the entry  *)
(* that was last used.                                                     *)

iso9660_read ==
  /\ InCall /\ Driver = "iso9660"
  /\ LET V(i) == <<file, filepos>> IN Deliver(1, V)
  /\ UNCHANGED mem /\ Same

\* Half blocks from BLK_CUR_FILEPOS on are passed over a whole block at a time.
BlkSeek(m) == IF filepos < m.cur THEN [m EXCEPT !.cur = 0, !.blk = 1, !.num = 0] ELSE m

blocklist_seek ==
  /\ InCall /\ Driver = "blocklist" /\ filepos > BlkSeek(mem).cur
  /\ LET m == BlkSeek(mem)
     IN IF filepos - 2 * (m.cur \div 2) >= 2
          THEN IF m.num + 1 >= Ext[file][m.blk].len
                 THEN mem' = [m EXCEPT !.cur = @ + 2, !.num = 0, !.blk = @ + 1]
                 ELSE mem' = [m EXCEPT !.cur = @ + 2, !.num = @ + 1]
          ELSE mem' = [m EXCEPT !.cur = filepos]
  /\ Silent /\ Same

\* What remains of the entry, or what is walk of it.
blocklist_read ==
  /\ InCall /\ Driver = "blocklist" /\ filepos <= BlkSeek(mem).cur
  /\ LET m == BlkSeek(mem)
         off == filepos % 2
         size == 2 * (Ext[file][m.blk].len - m.num) - off
         k == IF size > left THEN left ELSE size
         V(i) == At(Ext[file][m.blk].start + m.num + (off + i) \div 2)
     IN Deliver(k, V) /\ mem' = m
  /\ Same

=============================================================================
