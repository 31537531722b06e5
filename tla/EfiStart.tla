------------------------------ MODULE EfiStart -------------------------------
(***************************************************************************)
(* The start of an EFI build (efi/efimain.c, efimisc.c): where its         *)
(* configuration file and the file with the saved default are, and, for a  *)
(* machine that was booted over the network (pxe.c), reading files through *)
(* the firmware's TFTP service (efitftp.c).                                *)
(*                                                                         *)
(* A path is a sequence of the characters "\", "/" and "." and of longer   *)
(* pieces of names.  A machine is [image, dirs, pxe, room, low]: the nodes *)
(* of the path GRUB was loaded from, the directories the firmware finds on *)
(* that device, the firmware's network service, how many pieces of memory  *)
(* it has to give, and whether its stack is below 2 GB.  A network service *)
(* is <<>> or <<[started, magic, options, mac, bootfile, files, size,      *)
(* firmware]>>: `files' are the paths on the server, and `size' the size   *)
(* of each version of vmlinuz, which is replaced now and then.             *)
(***************************************************************************)
EXTENDS Integers, Sequences, SequencesExt

CONSTANT NameRoom  \* The longest name config_file and saved_default_file hold.

Width(t) == CASE t \in {"\\", "/", "."} -> 1
              [] t = ".conf" -> 5
              [] t = ".default" -> 8
              [] OTHER -> 4

Length(path) == FoldLeft(LAMBDA n, t : n + Width(t), 0, path)

Builtin == [config |-> <<"/", "boot", "/", "menu", ".conf">>,
            default |-> <<"/", "boot", "/", "grub", ".default">>]

-----------------------------------------------------------------------------
(***************************************************************************)
(* The path of the loaded image.  Characters from U+0800 on come out with  *)
(* bits of their middle lost, and pairs of surrogates shifted.             *)
(***************************************************************************)
grub_utf16_to_utf8(name) == [i \in DOMAIN name |-> IF name[i] = "wide" THEN "damaged" ELSE name[i]]

\* A path that has overwritten the memory behind it.
Overrun == <<"overrun">>

(***************************************************************************)
(* fix_path_name works in place, with gap = p2 - p1.  A separator is       *)
(* written before the one it stands for is passed: without a gap it        *)
(* overwrites that one, is itself read as the next character, and is       *)
(* copied for ever.                                                        *)
(***************************************************************************)
RECURSIVE FixRest(_, _, _)
FixRest(out, rest, gap) ==
  LET last == out[Len(out)]
  IN  IF rest = <<>> THEN out
      ELSE IF last = "/" /\ rest[1] = "." /\ Len(rest) > 1 /\ rest[2] = "\\"
      THEN FixRest(out, SubSeq(rest, 3, Len(rest)), gap + 2)
      ELSE IF rest[1] # "\\" THEN FixRest(Append(out, rest[1]), Tail(rest), gap)
      ELSE IF last = "/" THEN FixRest(out, Tail(rest), gap + 1)
      ELSE IF gap = 1 THEN Overrun
      ELSE FixRest(Append(out, "/"), rest, gap - 1)

fix_path_name(path) ==
  IF path = <<>> THEN path
  ELSE FixRest(<<IF path[1] = "\\" THEN "/" ELSE path[1]>>, Tail(path), 1)

grub_efi_file_path_to_path_name(nodes) ==
  fix_path_name(FoldLeft(LAMBDA s, n : IF n.file THEN s \o <<"\\">> \o grub_utf16_to_utf8(n.name) ELSE s,
                         <<>>, nodes))

(***************************************************************************)
(* grub_set_config_file: x.efi reads x.conf and saves to x.default, each   *)
(* if its name fits; the path of another file is the configuration file    *)
(* itself, and a directory has the default names.                          *)
(***************************************************************************)
grub_set_config_file(names, path) ==
  LET n     == Len(path)
      w     == Length(path)
      stem  == SubSeq(path, 1, n - 1)
      slash == SelectLastInSeq(path, LAMBDA t : t = "/")
      dir   == SubSeq(path, 1, slash)
      moved == [names EXCEPT !.config = IF slash = n THEN path \o <<"grub", ".conf">> ELSE path]
  IN  IF n >= 2 /\ path[n] = ".efi"
      THEN IF w + 1 > NameRoom THEN names
           ELSE IF w + 4 > NameRoom THEN [names EXCEPT !.config = stem \o <<".conf">>]
           ELSE [config |-> stem \o <<".conf">>, default |-> stem \o <<".default">>]
      ELSE IF slash = 0 THEN [config |-> <<"grub", ".conf">>, default |-> <<"grub", ".default">>]
      ELSE IF slash = n /\ w + 10 > NameRoom + 1 THEN names
      ELSE IF w + 13 > NameRoom + 1 THEN moved
      ELSE [moved EXCEPT !.default = dir \o <<"grub", ".default">>]

-----------------------------------------------------------------------------
(***************************************************************************)
(* The saved default: digits in a file on the image's file system, which   *)
(* is opened for writing but not shortened.                                *)
(***************************************************************************)
Number(digits) == FoldLeft(LAMBDA v, d : 10 * v + d, 0, digits)

Digits(n) == IF n < 10 THEN <<n>> ELSE <<n \div 10, n % 10>>

simple_open_file(machine, files, name, write) ==
  IF write THEN SubSeq(name, 1, SelectLastInSeq(name, LAMBDA t : t = "/")) \in machine.dirs
  ELSE name \in DOMAIN files

grub_load_saved_default(machine, files, name) ==
  IF simple_open_file(machine, files, name, FALSE) THEN Number(files[name]) ELSE 0

grub_save_saved_default(machine, files, name, n) ==
  LET new == Digits(n)
      old == IF name \in DOMAIN files THEN files[name] ELSE <<>>
      all == IF Len(old) > Len(new) THEN new \o SubSeq(old, Len(new) + 1, Len(old)) ELSE new
  IN  IF simple_open_file(machine, files, name, TRUE)
      THEN [x \in DOMAIN files \cup {name} |-> IF x = name THEN all ELSE files[x]]
      ELSE files

-----------------------------------------------------------------------------
(***************************************************************************)
(* The network.  The parser of DHCP options goes past an option before it  *)
(* looks at it, so that it never sees the first one.                       *)
(***************************************************************************)
get_dhcp_client_id(pxe) ==
  pxe.magic /\ \E i \in 2..Len(pxe.options) :
                 pxe.options[i].op = 97 /\ pxe.options[i].len = 17 /\ pxe.options[i].type = 0

\* The directory of the boot file, which every name on the server is relative to.
get_pxe_file_dir(pxe) == SubSeq(pxe.bootfile, 1, SelectLastInSeq(pxe.bootfile, LAMBDA t : t = "/") - 1)

FullPath(pxe, name) == Append(get_pxe_file_dir(pxe), name)

SizeOf(pxe, name, version) == IF name = "vmlinuz" THEN pxe.size[version] ELSE 1

(***************************************************************************)
(* tftp_get_file_size.  Firmware that finds the caller's buffer too small  *)
(* for the answer is asked for the whole file, into larger and larger      *)
(* buffers; the size returned is then still the one the first call left in *)
(* its argument.  `deaf' are names whose answers are lost.                 *)
(***************************************************************************)
FirstBuffer == 2
MaxBuffer == 8   \* More than this grub_malloc does not have.

RECURSIVE tftp_get_file_size_defective_buffer_fallback(_, _, _)
tftp_get_file_size_defective_buffer_fallback(firmware, size, BufferSize) ==
  LET new == 2 * BufferSize
  IN  /\ new <= MaxBuffer
      /\ \/ new >= size
         \/ tftp_get_file_size_defective_buffer_fallback(firmware, size,
              IF firmware = "silent" THEN new ELSE size)

tftp_get_file_size(pxe, name, version, deaf) ==
  LET there == FullPath(pxe, name) \in pxe.files /\ name \notin deaf
      size  == SizeOf(pxe, name, version)
  IN  IF pxe.firmware = "good" \/ ~there THEN [ok |-> there, size |-> size]
      ELSE [ok |-> tftp_get_file_size_defective_buffer_fallback(pxe.firmware, size, FirstBuffer \div 2),
            size |-> IF pxe.firmware = "silent" THEN FirstBuffer ELSE size]

IpNames == <<"ip8", "ip7", "ip6", "ip5", "ip4", "ip3", "ip2", "ip1">>

\* The names asked for, in their order; that of the client's id has a part of it replaced.
Candidates(pxe) ==
  (IF get_dhcp_client_id(pxe) THEN <<"uuid">> ELSE <<>>) \o (IF pxe.mac THEN <<"mac">> ELSE <<>>)
  \o IpNames \o <<"efidefault">>

\* Mutant: shorter prefixes of the address come first.
ShortestFirst(pxe, deaf) ==
  LET found == SelectSeq(Reverse(Candidates(pxe)), LAMBDA n : tftp_get_file_size(pxe, n, 1, deaf).ok)
  IN  IF found = <<>> THEN <<>> ELSE <<<<"(nd)", "/", found[1]>>>>

grub_efi_pxe_get_config_path(pxe, deaf) ==
  LET found == SelectSeq(Candidates(pxe), LAMBDA n : tftp_get_file_size(pxe, n, 1, deaf).ok)
  IN  IF ~pxe.started \/ found = <<>> THEN <<>> ELSE <<<<"(nd)", "/", found[1]>>>>

-----------------------------------------------------------------------------
NoTftp == [path |-> <<>>, buffer |-> <<>>, filemax |-> -1, filepos |-> 0]

\* A machine that is off; `files' is what its file system holds.
Off(files) == [up |-> FALSE, crashed |-> FALSE, names |-> Builtin, net |-> FALSE, entry |-> 0,
               files |-> files, tftp |-> NoTftp, deaf |-> {}]

real_main(machine, s, deaf) ==
  LET net   == IF machine.pxe = <<>> THEN <<>> ELSE grub_efi_pxe_get_config_path(machine.pxe[1], deaf)
      path  == grub_efi_file_path_to_path_name(machine.image)
      names == grub_set_config_file(Builtin, path)
  IN  IF net # <<>>
      THEN [s EXCEPT !.up = TRUE, !.net = TRUE, !.deaf = deaf, !.names = grub_set_config_file(Builtin, net[1])]
      ELSE IF path = Overrun THEN [s EXCEPT !.crashed = TRUE]
      ELSE [s EXCEPT !.up = TRUE, !.deaf = deaf, !.names = names,
                     !.entry = grub_load_saved_default(machine, s.files, names.default)]

\* Without its scratch memory, or a stack below 2 GB, GRUB returns to the firmware.
efi_main(machine, s, deaf) ==
  IF machine.room = 0 \/ (~machine.low /\ machine.room = 1) THEN s ELSE real_main(machine, s, deaf)

(***************************************************************************)
(* Files of the network drive.  efi_tftp_read fetches the whole file when  *)
(* it is read from the beginning, and drops the status of the transfer;    *)
(* the rest is taken from the buffer, whose cells hold the version they    *)
(* were fetched from, 0 for memory that was never written.                 *)
(***************************************************************************)
efi_tftp_dir(pxe, t, name, version, deaf) ==
  LET r == tftp_get_file_size(pxe, name, version, deaf)
  IN  IF r.ok THEN [path |-> <<name>>, buffer |-> [i \in 1..r.size |-> 0], filemax |-> r.size, filepos |-> 0]
      ELSE [t EXCEPT !.filemax = -1]

tftp_read_file(pxe, t, version, lost) ==
  LET size == SizeOf(pxe, t.path[1], version)
  IN  IF lost \/ size > t.filemax THEN t.buffer
      ELSE [i \in DOMAIN t.buffer |-> IF i <= size THEN version ELSE t.buffer[i]]

\* Mutant: every read fetches the file again.
FetchEveryTime(pxe, t, size, version, lost) ==
  LET b == tftp_read_file(pxe, t, version, lost)
  IN  [t |-> [t EXCEPT !.buffer = b, !.filepos = @ + size], data |-> SubSeq(b, t.filepos + 1, t.filepos + size)]

efi_tftp_read(pxe, t, size, version, lost) ==
  LET b == IF t.filepos = 0 THEN tftp_read_file(pxe, t, version, lost) ELSE t.buffer
  IN  IF t.path = <<>> \/ t.filemax = -1 THEN [t |-> t, data |-> <<>>]
      ELSE [t |-> [t EXCEPT !.buffer = b, !.filepos = @ + size],
            data |-> SubSeq(b, t.filepos + 1, t.filepos + size)]

efi_tftp_close(t) == NoTftp
=============================================================================
