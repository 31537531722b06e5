------------------------------ MODULE EfiDisks -------------------------------
(***************************************************************************)
(* Disks under EFI (efi/efidisk.c, efi/efidp.c and the start of            *)
(* efi/efimain.c).  The firmware gives a handle to every disk and to every *)
(* partition on one, in an order of its own choosing, and names each by a  *)
(* device path.  GRUB sorts the disks into diskettes, CDs and hard disks,  *)
(* so that a drive number is a place in a list, and goes from a handle to  *)
(* a drive and partition (where was I started from?) and back (which       *)
(* handle does a chain-loaded image start from?) by comparing paths and by *)
(* walking the partition tables.                                           *)
(*                                                                         *)
(* A handle is [id, path, ro, bs, io, fs]: whether its medium is           *)
(* read-only, the size of a block, whether it has the disk protocols and   *)
(* whether the firmware found a file system on it.  A path is a sequence   *)
(* of nodes [t, sub, key, num, start, size, sig]; key stands for the bytes *)
(* of a node in the order memcmp gives them, the last four are the fields  *)
(* of a hard drive node.                                                   *)
(***************************************************************************)
EXTENDS PartTable, SequencesExt

HARDWARE == 1

ACPI == 2

MESSAGING == 3

MEDIA == 4

HARD_DRIVE == 1

CDROM == 2

EndNode == [t |-> 127, sub |-> 255, key |-> 0, num |-> 0, start |-> 0, size |-> 0, sig |-> [len |-> 0, value |-> "none"]]

Node(t, key) == [EndNode EXCEPT !.t = t, !.sub = 1, !.key = key]

HdNode(num, start, size, sig) ==
  [EndNode EXCEPT !.t = MEDIA, !.sub = HARD_DRIVE, !.key = num,
                  !.num = num, !.start = start, !.size = size, !.sig = sig]

CdNode == [EndNode EXCEPT !.t = MEDIA, !.sub = CDROM]

(***************************************************************************)
(* compare_device_paths: the sign of the first difference; types compare   *)
(* the wrong way round.                                                    *)
(***************************************************************************)
CompareNodes(n1, n2) ==
  IF n1.t # n2.t THEN n2.t - n1.t
  ELSE IF n1.sub # n2.sub THEN n1.sub - n2.sub ELSE n1.key - n2.key

compare_device_paths(p1, p2) ==
  LET q1   == Append(p1, EndNode)
      q2   == Append(p2, EndNode)
      diff == {i \in DOMAIN q1 \cap DOMAIN q2 : q1[i] # q2[i]}
  IN  IF diff = {} THEN 0
      ELSE LET i == CHOOSE j \in diff : \A k \in diff : j <= k
           IN  CompareNodes(q1[i], q2[i])

find_last_device_path(path) == path[Len(path)]

find_parent_device_path(path) == Front(path)

(***************************************************************************)
(* make_devices: the handles with disk protocols and a path, the last one  *)
(* the firmware named first.                                               *)
(***************************************************************************)
make_devices(handles) ==
  Reverse(SelectSeq(handles, LAMBDA h : h.io /\ h.path # <<>>))

(***************************************************************************)
(* add_device keeps a list sorted by the last node, then by the whole      *)
(* path, and leaves out a path it already has.                             *)
(***************************************************************************)
DeviceOrder(d, e) ==
  LET last == compare_device_paths(<<find_last_device_path(d.path)>>,
                                   <<find_last_device_path(e.path)>>)
  IN  IF last # 0 THEN last ELSE compare_device_paths(d.path, e.path)

\* Mutant: the devices stay in the firmware's order.
FirmwareOrder(devices, d) == Append(devices, d)

add_device(devices, d) ==
  LET stop == {i \in DOMAIN devices : DeviceOrder(devices[i], d) >= 0}
      at   == CHOOSE i \in stop : \A j \in stop : i <= j
  IN  IF stop = {} THEN Append(devices, d)
      ELSE IF DeviceOrder(devices[at], d) = 0 THEN devices
      ELSE InsertAt(devices, at, d)

(***************************************************************************)
(* name_devices sorts a device by its last node; a partition is a media    *)
(* node and gets no drive number.                                          *)
(***************************************************************************)
Named(lists, d) ==
  LET t == find_last_device_path(d.path).t
  IN  CASE t = HARDWARE -> [lists EXCEPT !.hd = add_device(@, d)]
        [] t = MESSAGING /\ d.ro /\ d.bs > 512 -> [lists EXCEPT !.cd = add_device(@, d)]
        [] t = MESSAGING /\ ~(d.ro /\ d.bs > 512) -> [lists EXCEPT !.hd = add_device(@, d)]
        [] t = ACPI -> [lists EXCEPT !.fd = add_device(@, d)]
        [] OTHER -> lists

enumerate_disks(handles) ==
  FoldLeft(Named, [fd |-> <<>>, hd |-> <<>>, cd |-> <<>>], make_devices(handles))

NoDevice == [id |-> "none"]

get_device(devices, num) ==
  IF num + 1 \in DOMAIN devices THEN devices[num + 1] ELSE NoDevice

get_device_from_drive(lists, drive) ==
  IF drive = CD THEN get_device(lists.cd, 0)
  ELSE IF IsHd(drive) THEN get_device(lists.hd, drive - HD)
  ELSE get_device(lists.fd, drive)

\* The drives get_diskinfo knows.
Drives(lists) ==
  {HD + i - 1 : i \in DOMAIN lists.hd} \cup {i - 1 : i \in DOMAIN lists.fd}
  \cup (IF lists.cd # <<>> THEN {CD} ELSE {})

(***************************************************************************)
(* iterate_child_devices: the handles whose path is that of d and one node *)
(* more, in the order of make_devices.                                     *)
(***************************************************************************)
iterate_child_devices(handles, d) ==
  SelectSeq(make_devices(handles),
            LAMBDA h : compare_device_paths(find_parent_device_path(h.path), d.path) = 0)

(***************************************************************************)
(* grub_efidisk_get_current_bdev_handle: the handle of a drive and the     *)
(* partition open on it, "none" when the firmware has none for it.         *)
(***************************************************************************)
grub_efidisk_get_current_bdev_handle(lists, handles, drive, opened) ==
  LET d     == get_device_from_drive(lists, drive)
      match == SelectSeq(iterate_child_devices(handles, d),
                         LAMBDA c : LET n == find_last_device_path(c.path)
                                    IN  /\ n.t = MEDIA /\ n.sub = HARD_DRIVE
                                        /\ n.start = opened.start /\ n.size = opened.len)
  IN  IF d = NoDevice THEN "none"
      ELSE IF ~IsHd(drive) \/ opened.part = Whole THEN d.id
      ELSE IF match = <<>> THEN "none" ELSE match[1].id

(***************************************************************************)
(* grub_get_drive_partition_from_bdev_handle: the drive and partition of   *)
(* the handle GRUB was loaded from.  The path of a CD is cut (in the       *)
(* firmware's memory) before its CD node.  The walk of the partition       *)
(* tables is given the destination 0, that is slice 0 and its first BSD    *)
(* partition.                                                              *)
(***************************************************************************)
CutCd(path) ==
  LET cd == {i \in DOMAIN path : path[i].t = MEDIA /\ path[i].sub = CDROM}
  IN  IF cd = {} THEN path ELSE SubSeq(path, 1, (CHOOSE i \in cd : \A j \in cd : i <= j) - 1)

NotFound == [ok |-> FALSE, drive |-> 0, part |-> Whole]

FirstOf(S) == CHOOSE i \in S : \A j \in S : i <= j

PartitionAt(drive, hd, walk) ==
  LET match == {i \in DOMAIN walk : /\ walk[i].type # NONE
                                    /\ walk[i].start = hd.start
                                    /\ walk[i].len = hd.size}
  IN  IF match = {} THEN NotFound ELSE [ok |-> TRUE, drive |-> drive, part |-> walk[FirstOf(match)].part]

grub_get_drive_partition_from_bdev_handle(lists, handles, disks, h) ==
  LET path     == CutCd(h.path)
      At(list) == {i \in DOMAIN list : compare_device_paths(list[i].path, path) = 0}
      parents  == {i \in DOMAIN lists.hd :
                     \E c \in Range(iterate_child_devices(handles, lists.hd[i])) :
                        compare_device_paths(c.path, path) = 0}
      drive    == HD + FirstOf(parents) - 1
  IN  IF h.path = <<>> THEN NotFound
      ELSE IF At(lists.fd) # {}
      THEN [ok |-> TRUE, drive |-> FirstOf(At(lists.fd)) - 1, part |-> Whole]
      ELSE IF lists.cd # <<>> /\ compare_device_paths(lists.cd[1].path, path) = 0
      THEN [ok |-> TRUE, drive |-> CD, part |-> Whole]
      ELSE IF At(lists.hd) # {}
      THEN [ok |-> TRUE, drive |-> HD + FirstOf(At(lists.hd)) - 1, part |-> Whole]
      ELSE IF parents = {} THEN NotFound
      ELSE PartitionAt(drive, find_last_device_path(path), Walk(disks[drive], drive, [s |-> 0, b |-> 0]))

(***************************************************************************)
(* A component of a path as text is [name, params], in which a number is   *)
(* the sequence of its digits.  The signature of a partition is "none", or *)
(* its value with the length of its text: 8 digits for the one in a table  *)
(* of four slices, 36 characters for a GUID.  Case does not count.         *)
(***************************************************************************)
Digits(n, base) ==
  LET width == CHOOSE w \in 1 .. 64 : n < base ^ w
  IN  [i \in 1 .. width |-> (n \div base ^ (width - i)) % base]

HardwareNames == <<"pci", "pccard", "mmap", "vendor", "ctrl">>

AcpiNames == <<"acpi", "acpi">>

MessagingNames ==
  <<"atapi", "scsi", "fibrechannel", "1394", "usb", "i2o", "unknownmessaging", "unknownmessaging",
    "infiniband", "vendor", "macaddr", "ipv4", "ipv6", "uart", "usbclass">>

MediaNames == <<"hd", "cd", "vendor", "file", "protocol">>

NodeNames == <<HardwareNames, AcpiNames, MessagingNames, MediaNames, <<"bios">>>>

NodeName(n) == IF n.sub \in DOMAIN NodeNames[n.t] THEN NodeNames[n.t][n.sub] ELSE "unknown"

\* Every partition is printed with the signature of a GUID, and its number in decimal.
HardDriveParams(n) ==
  <<Digits(n.num, 10), Digits(n.start, 16), Digits(n.size, 16), [n.sig EXCEPT !.len = 36]>>

(***************************************************************************)
(* grub_efi_print_device_path stops at a node of a type it does not know.  *)
(***************************************************************************)
grub_efi_print_device_path(path) ==
  LET odd   == {i \in DOMAIN path : path[i].t \notin DOMAIN NodeNames}
      known == IF odd = {} THEN path ELSE SubSeq(path, 1, (CHOOSE i \in odd : \A j \in odd : i <= j) - 1)
  IN  [i \in DOMAIN known |->
         [name   |-> NodeName(known[i]),
          params |-> IF known[i].t = MEDIA /\ known[i].sub = HARD_DRIVE THEN HardDriveParams(known[i])
                     ELSE <<Digits(known[i].key, 16)>>]]

(***************************************************************************)
(* parse_device_path_component knows one component, HD(number, start,      *)
(* size, signature), and the ends of a path; it reads all three numbers in *)
(* hexadecimal.  The result is <<>> for every other name, for a component  *)
(* with a parameter missing, and for a signature of another length.        *)
(***************************************************************************)
safe_parse_maxulong(digits) == FoldLeft(LAMBDA v, d : 16 * v + d, 0, digits)

NoSignature == [len |-> 0, value |-> "none"]

get_next_param(params, i) == IF i \in DOMAIN params THEN <<params[i]>> ELSE <<>>

SignatureParam(params) ==
  LET p == get_next_param(params, 4)
  IN  IF p = <<>> \/ p[1] = NoSignature \/ p[1].len \in {8, 36} THEN p ELSE <<>>

HardDriveComponent(params) ==
  LET sig == SignatureParam(params)
      Num(i) == safe_parse_maxulong(get_next_param(params, i)[1])
  IN  IF sig = <<>> \/ \E i \in 1 .. 3 : get_next_param(params, i) = <<>> THEN <<>>
      ELSE <<HdNode(Num(1), Num(2), Num(3), sig[1])>>

EndComponent(name) == CASE name \in {"endentire", "endunknown"} -> <<EndNode>>
                        [] name = "endthis" -> <<[EndNode EXCEPT !.sub = 1]>>
                        [] OTHER -> <<>>

parse_device_path_component(text) ==
  IF text.name = "hd" THEN HardDriveComponent(text.params) ELSE EndComponent(text.name)

(***************************************************************************)
(* device_path_from_utf8: the component and an end node behind it.  A text *)
(* without a component leaves a path of four bytes, whose fields are       *)
(* whatever lies behind it in memory, here rest; behind the end of a path  *)
(* the second end node lies in the place of a partition number.            *)
(***************************************************************************)
device_path_from_utf8(text, rest) ==
  LET c   == parse_device_path_component(text)
      end == parse_device_path_component([name |-> "endentire", params |-> <<>>])
  IN  IF c = <<>> THEN [rest EXCEPT !.t = end[1].t, !.sub = end[1].sub]
      ELSE IF c[1].t = end[1].t
      THEN [rest EXCEPT !.t = c[1].t, !.sub = c[1].sub, !.num = end[1].t + 256 * end[1].sub + 65536 * 4]
      ELSE c[1]

(***************************************************************************)
(* The EFI `device' command.  The disk wanted is the parent of the first   *)
(* file system whose last node, whatever it is, has the same number, place *)
(* and signature.                                                          *)
(***************************************************************************)
compare_hd_device_paths(n1, n2) ==
  n1.num = n2.num /\ n1.start = n2.start /\ n1.size = n2.size /\ n1.sig = n2.sig

get_parent_of_disk(handles, node) ==
  LET found == SelectSeq(handles, LAMBDA h : h.fs /\ h.path # <<>> /\
                 compare_hd_device_paths(find_last_device_path(h.path), node))
  IN  IF found = <<>> THEN <<>>
      ELSE LET path == found[1].path
               hd   == {i \in DOMAIN path : path[i].t = MEDIA /\ path[i].sub = HARD_DRIVE}
           IN  IF hd = {} THEN path
               ELSE SubSeq(path, 1, (CHOOSE i \in hd : \A j \in hd : i <= j) - 1)

(***************************************************************************)
(* swap_devices saves the second device instead of the first, so that both *)
(* entries end up as the second one.                                       *)
(***************************************************************************)
swap_devices(devices, d0, d1) == [devices EXCEPT ![d0] = devices[d1], ![d1] = devices[d1]]

assign_device_name(lists, handles, drive, text, rest) ==
  LET path == get_parent_of_disk(handles, device_path_from_utf8(text, rest))
      list == IF IsHd(drive) THEN lists.hd ELSE lists.cd
      d0   == IF IsHd(drive) THEN drive - HD + 1 ELSE drive - CD + 1
      same == {i \in DOMAIN list : compare_device_paths(path, list[i].path) = 0}
      d1   == CHOOSE i \in same : \A j \in same : i >= j
      new  == IF path = <<>> \/ d0 \notin DOMAIN list \/ same = {} \/ d0 = d1 THEN list
              ELSE swap_devices(list, d0, d1)
  IN  IF IsHd(drive) THEN [lists EXCEPT !.hd = new] ELSE [lists EXCEPT !.cd = new]
=============================================================================
