------------------------------ MODULE MCDevices ------------------------------
(***************************************************************************)
(* Machines for Devices: a BIOS machine with a diskette, a disk with       *)
(* primary, BSD and logical partitions and a GPT disk; an EFI machine with *)
(* the same disks behind handles and a CD; a host for the grub shell; and  *)
(* machines to install GRUB on.                                            *)
(***************************************************************************)
EXTENDS Devices

P(s) == [s |-> s, b |-> FF]

B(s, b) == [s |-> s, b |-> b]

Sub(type, start_, len) == [type |-> type, start |-> start_, len |-> len]

Disk(size, at) == [size |-> size, at |-> at]

Fs(fs) == I!FileSystem(fs, ("stage2" :> <<1, 2>>))

\* Three primary slices, the second with a label, and two logical partitions.
Classic ==
  Disk(60,
    (0 :> Table(<<Slice("linux", 4, 4), Slice("bsd", 10, 10), Slice("extended", 20, 40), NoSlice>>))
    @@ (4 :> Fs("ext2")) @@ (10 :> Fs("ffs"))
    @@ (11 :> [kind |-> "label", scsi |-> TRUE,
               p |-> <<Sub("ffs", 10, 4), Sub("unused", 0, 0), Sub("swap", 14, 6)>>])
    @@ (20 :> Table(<<Slice("linux", 1, 9), Slice("extended", 20, 20), NoSlice, NoSlice>>))
    @@ (21 :> Fs("ext2"))
    @@ (40 :> Table(<<NoSlice, Slice("linux", 5, 10), NoSlice, NoSlice>>))
    @@ (45 :> Fs("ext2")))

Entry(used, first, last) == [used |-> used, start |-> first, last |-> last]

\* A GPT with an unused entry between two partitions.
Gpt ==
  Disk(30,
    (0 :> Table(<<Slice("gpt", 1, 29), NoSlice, NoSlice, NoSlice>>))
    @@ (1 :> [kind |-> "gpt", e |-> <<Entry(TRUE, 6, 9), Entry(FALSE, 0, 0), Entry(TRUE, 10, 19)>>])
    @@ (10 :> Fs("ext2")))

Diskette == Disk(10, (0 :> Fs("fat")))

Parts == {Whole, P(0), P(1), P(2), P(3), P(4), P(5), B(1, 0), B(1, 2), B(FF, 2)}

NoHost == [devfs |-> FALSE, dev |-> [n \in {} |-> 0], parts |-> [n \in {} |-> {}]]

Nothing ==
  [kind |-> "bios", cmds |-> 0, disks |-> [d \in {} |-> 0], parts |-> {}, room |-> {}, texts |-> {}, memory |-> {},
   drives |-> {}, host |-> NoHost, handles |-> <<>>, media |-> [n \in {} |-> 0],
   file |-> [exists |-> FALSE, writable |-> TRUE, lines |-> <<>>], floppies |-> 1,
   read_only |-> FALSE, dest |-> NoRoot, image |-> NoRoot, bios |-> HD, place |-> 0, direct |-> FALSE,
   machine |-> <<>>, losses |-> {}]

Bios ==
  [Nothing EXCEPT !.cmds = 2, !.disks = (0 :> Diskette) @@ (HD :> Classic) @@ ((HD + 1) :> Gpt),
                  !.parts = Parts, !.room = {[start |-> 8, len |-> 2], [start |-> 55, len |-> 9]}]

\* One disk and the slices that matter, for longer sequences of commands.
BiosLong ==
  [Nothing EXCEPT !.cmds = 3, !.disks = (HD :> Classic), !.parts = {P(1), P(2), P(4), P(5)},
                  !.room = {[start |-> 8, len |-> 2]}]

(***************************************************************************)
(* The firmware's handles.                                                 *)
(***************************************************************************)
Handle(id, path) == [id |-> id, path |-> path, ro |-> FALSE, bs |-> 512, io |-> TRUE, fs |-> FALSE]

Pci(k) == E!Node(E!HARDWARE, k)

Sata(k) == E!Node(E!MESSAGING, k)

Fdc == Handle("fdc", <<Pci(1), E!Node(E!ACPI, 1)>>)

Hd0 == Handle("hd0", <<Pci(2), Sata(1)>>)

Hd1 == Handle("hd1", <<Pci(2), Sata(2)>>)

PartOf(h, id, num, start_, size, sig) ==
  [Handle(id, Append(h.path, E!HdNode(num, start_, size, sig))) EXCEPT !.fs = TRUE]

Cd == [Handle("cd", <<Pci(3), Sata(3)>>) EXCEPT !.ro = TRUE, !.bs = 2048]

CdBoot == [Handle("cdboot", Append(Cd.path, E!CdNode)) EXCEPT !.ro = TRUE, !.bs = 2048, !.fs = TRUE]

\* Signatures as the parser reads them: four bytes of the table, a GUID.
SigA == [len |-> 8, value |-> "a"]

SigB == [len |-> 36, value |-> "b"]

Handles == <<PartOf(Hd0, "hd0p1", 1, 4, 4, SigA), Hd1, Fdc, Hd0,
             PartOf(Hd0, "hd0p5", 5, 21, 9, SigA)>>

Handles2 == <<Cd, PartOf(Hd1, "hd1p1", 17, 6, 4, SigB), Hd1, Hd0, CdBoot,
              PartOf(Hd1, "hd1p3", 3, 10, 10, SigB)>>

Media == ("fdc" :> Diskette) @@ ("hd0" :> Classic) @@ ("hd1" :> Gpt) @@ ("cd" :> Disk(20, (0 :> Blank)))

Text(name, params) == [name |-> name, params |-> params]

Efi(h) ==
  [Nothing EXCEPT !.kind = "efi", !.cmds = 2, !.parts = {Whole, P(0), P(1), P(4)}, !.handles = h,
                  !.media = Media,
                  !.memory = {E!EndNode, E!HdNode(1, 4, 4, SigA)},
                  !.texts = {Text("hd", <<<<1>>, <<4>>, <<4>>, SigA>>),
                             Text("hd", <<<<1, 1>>, <<6>>, <<4>>, SigB>>),
                             Text("hd", <<<<1>>, <<4>>, <<4>>, [SigB EXCEPT !.len = 20]>>),
                             Text("hd", <<<<1>>, <<4>>>>), Text("pci", <<>>), Text("endthis", <<>>)}]

(***************************************************************************)
(* The host of the grub shell.                                             *)
(***************************************************************************)
Dev(class, unit, cdrom, mode, size) ==
  [class |-> class, unit |-> unit, present |-> TRUE, cdrom |-> cdrom, mode |-> mode, size |-> size]

Host(devfs) ==
  [devfs |-> devfs,
   dev   |-> ("fd0" :> [Dev("floppy", 0, FALSE, "rw", 10) EXCEPT !.present = FALSE])
             @@ ("hda" :> Dev("ide", 0, FALSE, "rw", 60)) @@ ("hdb" :> Dev("ide", 1, TRUE, "ro", 20))
             @@ ("sda" :> Dev("scsi", 0, FALSE, "ro", 30)),
   parts |-> ("fd0" :> {}) @@ ("hdb" :> {}) @@
             ("hda" :> {[s |-> q.part.s, start |-> q.start] : q \in OsSlices(Classic)}) @@
             ("sda" :> {[s |-> q.part.s, start |-> q.start] : q \in OsSlices(Gpt)})]

Shell(devfs, file) ==
  [Nothing EXCEPT !.kind = "shell", !.cmds = 4,
     !.disks = ("fd0" :> Diskette) @@ ("hda" :> Classic) @@ ("hdb" :> Diskette) @@ ("sda" :> Gpt),
     !.host = Host(devfs), !.file = file, !.drives = {0, HD, HD + 1},
     !.parts = {Whole, P(0), P(4), B(1, 2)}]

NoFile == [exists |-> FALSE, writable |-> TRUE, lines |-> <<>>]

Shells ==
  {Shell(FALSE, NoFile), Shell(FALSE, [NoFile EXCEPT !.writable = FALSE]), Shell(TRUE, NoFile),
   [Shell(FALSE, [exists |-> TRUE, writable |-> FALSE,
           lines |-> <<H!Line("#", 0, ""), H!Line("h", 0, "sda"), H!Line("h", 200, "hda"),
                       H!Line("h", 1, "hda")>>]) EXCEPT !.read_only = TRUE],
   Shell(FALSE, [exists |-> TRUE, writable |-> FALSE,
           lines |-> <<H!Line("h", 0, "hda"), H!Line("h", 0, "sda")>>])}

(***************************************************************************)
(* Machines to install on.  Room is the first sector of the first          *)
(* partition; the files lie where the file system has put them.            *)
(***************************************************************************)
Images(at, one_five) ==
  LET s2 == at + 1
      s1 == at + 7
      s5 == at + 8
  IN  (s2 :> I!Start("stage2")) @@ ((s2 + 1) :> I!Second("stage2", 0))
      @@ ((s2 + 2) :> I!Body("stage2", 3)) @@ ((s2 + 4) :> I!Body("stage2", 4))
      @@ (s1 :> [kind |-> "stage1"])
      @@ (IF one_five THEN (s5 :> I!Start("stage1_5")) @@ ((s5 + 1) :> I!Second("stage1_5", 0))
                           @@ ((s5 + 2) :> I!Body("stage1_5", 3)) ELSE <<>>)

Files(at, one_five) ==
  ("stage1" :> <<at + 7>>) @@ ("stage2" :> <<at + 1, at + 2, at + 3, at + 5>>)
  @@ (IF one_five THEN ("stage1_5" :> <<at + 8, at + 9, at + 10>>) ELSE <<>>)

Machine(room, fs, one_five) ==
  Disk(60, (0 :> Table(<<Slice("linux", room, 30), NoSlice, NoSlice, NoSlice>>))
           @@ (room :> I!FileSystem(fs, Files(room + 3, one_five)))
           @@ Images(room + 3, one_five))

EzBios == LET d == Machine(5, "ext2", TRUE) IN rawwrite(d, 2, [kind |-> "ezbios"])

Empty == Disk(60, (0 :> Table(<<Slice("linux", 4, 20), NoSlice, NoSlice, NoSlice>>)))

Target(disks_, dest, image, place, direct) ==
  [Nothing EXCEPT !.kind = "install", !.cmds = 5, !.disks = disks_, !.dest = dest, !.image = image,
                  !.bios = dest.drive, !.place = place, !.direct = direct]

On(drive, part) == [drive |-> drive, part |-> part]

Targets ==
  \* Into the master boot record, with and without room behind it.
  {Target((HD :> Machine(5, "ext2", TRUE)), On(HD, Whole), On(HD, P(0)), 0, FALSE),
   Target((HD :> Machine(2, "ext2", TRUE)), On(HD, Whole), On(HD, P(0)), 0, TRUE),
   Target((HD :> Machine(5, "ext2", FALSE)), On(HD, Whole), On(HD, P(0)), 0, TRUE),
   \* Room in the file system that is not used: only the destination is tried.
   Target((HD :> Machine(2, "jfs", TRUE)), On(HD, Whole), On(HD, P(0)), 0, TRUE),
   Target((HD :> EzBios), On(HD, Whole), On(HD, P(0)), 0, TRUE),
   \* Into the partition, with room in the file system.
   Target((HD :> Machine(3, "reiserfs", TRUE)), On(HD, P(0)), On(HD, P(0)), 3, FALSE),
   \* From the second disk onto the first.
   Target((HD :> Empty) @@ ((HD + 1) :> Machine(2, "jfs", TRUE)), On(HD, Whole),
          On(HD + 1, P(0)), 0, FALSE)}

(***************************************************************************)
(* EFI machines that start GRUB: from paths as firmware gives them, too    *)
(* long ones and one that is not rooted; and over the network.             *)
(***************************************************************************)
Node(name) == [file |-> TRUE, name |-> name]

Partition == [file |-> FALSE, name |-> <<>>]

Started(image, pxe) ==
  [Nothing EXCEPT !.kind = "start", !.cmds = 6, !.losses = {{}, {"uuid"}, {"mac", "ip8"}},
     !.machine = [image |-> image, dirs |-> {<<"/", "EFI", "/">>, <<"/">>}, pxe |-> pxe,
                  room |-> 2, low |-> FALSE]]

Plain == <<Partition, Node(<<"\\", "EFI", "\\", "grub", ".efi">>)>>

OnDisk ==
  {Started(Plain, <<>>),
   Started(<<Partition, Node(<<"\\", "EFI">>), Node(<<"grub", ".efi">>)>>, <<>>),
   Started(<<Partition, Node(<<"\\", ".", "\\", "EFI", "\\", "\\", ".", "\\", "grub", ".efi">>)>>, <<>>),
   Started(<<Partition, Node(<<"\\", "EFI", "\\", "wide", "\\", "grub">>)>>, <<>>),
   Started(<<Partition, Node(<<"\\", "EFI", "\\">>)>>, <<>>),
   Started(<<Partition, Node(<<"EFI", "\\", "grub", ".efi">>)>>, <<>>),
   Started(<<Partition, Node(<<"\\", "EFI", "\\", "boot", "\\", "grub", ".efi">>)>>, <<>>),
   Started(<<Partition, Node(<<"\\", "EFI", "\\", "boot", "\\", "ia32", "\\", "grub", ".efi">>)>>, <<>>),
   Started(<<Partition>>, <<>>),
   [Started(Plain, <<>>) EXCEPT !.machine.room = 1],
   [Started(Plain, <<>>) EXCEPT !.machine.room = 1, !.machine.low = TRUE]}

Option(op, len) == [op |-> op, len |-> len, type |-> 0]

Server(firmware, options, mac, files) ==
  [started |-> TRUE, magic |-> TRUE, options |-> options, mac |-> mac,
   bootfile |-> <<"tftp", "/", "grub", ".efi">>,
   files |-> {<<"tftp", n>> : n \in files \cup {"vmlinuz"}},
   size |-> <<3, 4, 3>>, firmware |-> firmware]

WithId == <<Option(53, 1), Option(97, 17), Option(255, 0)>>

OverNet ==
  {Started(Plain, <<Server("good", WithId, TRUE, {"uuid", "mac", "ip8", "ip3", "efidefault"})>>),
   Started(Plain, <<Server("good", <<Option(97, 17), Option(255, 0)>>, FALSE, {"uuid", "ip5", "ip2"})>>),
   Started(Plain, <<Server("reports", <<Option(53, 1), Option(255, 0)>>, TRUE, {"mac", "efidefault"})>>),
   Started(Plain, <<Server("silent", WithId, TRUE, {"uuid"})>>),
   Started(Plain, <<Server("good", WithId, TRUE, {})>>),
   Started(Plain, <<[Server("good", WithId, TRUE, {"uuid"}) EXCEPT !.started = FALSE]>>),
   Started(<<>>, <<[Server("good", <<Option(1, 4), Option(255, 0)>>, FALSE, {}) EXCEPT
                      !.bootfile = <<"grub", ".efi">>, !.files = {<<"efidefault">>, <<"vmlinuz">>}]>>)}

MCStarts == {Bios, BiosLong, Efi(Handles), Efi(Handles2)} \cup Shells \cup Targets \cup OnDisk \cup OverNet
=============================================================================
