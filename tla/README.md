# A TLA+ model of GRUB Legacy with EFI and Clanton extensions

The repository is GRUB Legacy (`src/grub_legacy_efi`), extended with an EFI
port and with support for the Intel Quark ("Clanton") boards: configuration
files in SPI flash, signed assets and a recovery shell. This directory holds
TLA+ modules of its core logic, TLC configurations that check them on small
instances, and TLAPS proofs. Paths below are relative to `src/grub_legacy_efi`.

## 1. The system

GRUB is one sequential program. What makes it hard is not threads but what
happens around it: firmware calls that fail, media that are exchanged, packets
that are lost, cards that write to memory on their own, keys that arrive or do
not, power that is cut, and global variables that carry state from one command
into the next.

| Component | State it keeps | Operations | What is hard | Correct means |
|---|---|---|---|---|
| Raw disk layer (`stage2/disk_io.c`, `stage2/bios.c`, `efi/efidisk.c`) | one track buffer, `buf_drive`, `buf_track`, `buf_geom`, the open partition | `rawread`, `devread`, `rawwrite`, `devwrite` | one buffer for all drives, partial reads, retries, EZ-Drive mapping, media exchanged | reads deliver the medium, writes reach it |
| Partitions and names (`stage2/disk_io.c`, `stage2/builtins.c`) | `saved_drive`, `current_partition`; the tables themselves | `set_device`, `next_partition`, `root`, `find`, `hide`, `parttype`, `partnew`, completion | one walk serves eight purposes with other destinations | one name, one partition; edits stay local |
| EFI disks (`efi/efidisk.c`, `efi/efidp.c`) | lists of drives, built from handles | enumeration, `device`, handle to drive and back | the firmware's order, paths as identity | round trip |
| Hosted shell (`lib/device.c`, `grub/asmstub.c`) | device map, open descriptors | probe, `device`, transfers | disks that come and go, descriptors that stay open | transfers land on the named disk |
| Installation (`stage2/builtins.c`) | sectors on disk | `setup`, `embed`, `install`, `savedefault` | several writes, a power cut between any two | the machine starts |
| File service and drivers (`stage2/disk_io.c`, `stage2/fsys_*.c`) | `filepos`, `filemax`, `FSYS_BUF` with cached maps, nodes and FAT windows | open, seek, read, dir | caches used for another file; holes, links, journals | the bytes of the named file |
| gunzip (`stage2/gunzip.c`) | window, suspended block, saved position | `gunzip_read` | suspension in the middle of a match, seeks back | the plain file |
| TFTP (`netboot/fsys_tftp.c`) | receive buffer, block numbers, ports, retries | `tftp_dir`, `tftp_read`, `tftp_close`, `buf_fill` | loss, duplication, reordering, timeouts, reopening | is a file service |
| Network configuration (`netboot/main.c`) | ARP table, DHCP state, `network_ready` | `bootp`, `rarp`, `ifconfig`, `udp_transmit` | late replies, several servers, cached stations | leased addresses, right stations |
| Network cards (`netboot/*.c`) | descriptor rings, cursors, the card's own memory | reset, poll, transmit, disable | the card works on while the program does not | frames once, in order, unchanged; silence after boot |
| Configuration (`stage2/stage2.c`: `cmain`; `efi/clanton/boot_settings.c`) | text areas, default and fallback entries, which medium was used | load, parse, validate | reloads, media changes, missing signatures | the menu is the file; only verified files on secure boards |
| Menu (`stage2/stage2.c`: `run_menu`; `stage2/cmdline.c`) | selection, window, countdown, authority, edited copy | one per key, `run_script`, recovery shell | keys racing the countdown, nested menus, shells that return | selection valid, unattended boot goes on, authority kept |
| Boot commands and loaders (`stage2/boot.c`, `efi/*/loader/linux.c`, `efi/efichainloader.c`) | `kernel_type`, addresses, module list, loader's page table | `kernel`, `module`, `initrd`, `chainloader`, `map`, `boot` | order of commands, failures half way, memory in pieces | what is started is what was loaded |
| EFI memory (`efi/efimm.c`), SMP probe (`stage2/smp-imps.c`) | table of allocations, map buffer; processor numbers | allocate, release, memory map; probe | a map that grows while it is fetched; several tables | nothing lost, nothing invented |
| Terminals (`stage2/char_io.c`, `serial.c`, `terminfo.c`, `tparm.c`, `hercules.c`, `graphics.c`, `efi/eficon.c`, `graphics.c`, `efigraph.c`, `efiuga.c`, `efiserial.c`) | cursor twice (driver and device), text buffer, input buffers, modes, line, kill buffer, history | `putchar`, `gotoxy`, `cls`, `getkey`, `checkkey`, one per editing key, `terminal`, `serial`, `terminfo` | two cursors that must agree, scrolling, escape sequences in pieces | the screen shows the line; no key is lost |
| EFI start and PXE (`efi/efimain.c`, `efimisc.c`, `pxe.c`, `efitftp.c`) | names of configuration and default file, one fetched file | `real_main`, name search, reads | odd paths, servers that change a file | the files beside the image |
| Others | password hashes, stage 1 and assembly, utilities | | | see section 5 |

How they meet: the menu runs scripts of commands; commands open files through
the file service; a filesystem driver reads sectors through the disk layer or
packets through the network and a card; the configuration is itself such a
file; loaders put files into memory they get from the firmware; `buf_drive`,
`errnum`, `filepos`, `config_file`, `auth` and the fallback list are globals
shared by all of them. There are no callbacks but `disk_read_hook`, and two
non-local jumps: `restart_env` (configfile) and `restart_cmdline_env`.

`PROJECT.json` lists every component, including those that are not modelled and
why, and under `hazards` the places where the code is hard to test.

## 2. The modules

| Module | Models | Composes |
|---|---|---|
| `TrackBuffer` | disk layer | |
| `FileService` | the contract of a filesystem driver (abstract) | |
| `Tftp` | TFTP filesystem, server and network | instantiates `FileService` |
| `Network` | BOOTP/DHCP, RARP, ARP, ifconfig | |
| `NicCard`, `NicRing`, `NicPort` | a card; drivers with descriptors; drivers with a data port | `Nic` runs them under `eth_probe`, `eth_poll`, `eth_transmit`, `cleanup_net` |
| `FsysRead`, `FsysDir` | block maps and read loops, directory walks of nine drivers | `Fsys` is the file service above them |
| `Gunzip` | decompression | `Fsys` reads packed files through it |
| `Config` | loading, parsing and checking the configuration | |
| `Menu` | menu, editor, countdown, scripts, recovery shell | stands after `Config` |
| `BootSpec` | what the boot commands promise (abstract) | |
| `BootMem`, `BootBios`, `BootEfi`, `Imps` | memory, EFI pages and memory map, BIOS loaders, EFI loaders with signatures, SMP probe | `Boot` has the commands, and instantiates `BootSpec` |
| `TermDrivers`, `LineEdit` | control strings, terminals and graphics modes, line editor | `Terminal` has the commands, the keys and the user |
| `PartTable`, `EfiDisks`, `HostDisks`, `Install`, `EfiStart` | partition tables, EFI drives, the hosted shell's drives, installation, EFI start and PXE | `Devices` runs them as five systems |
| `TrackBufferProofs`, `TftpProofs`, `NetworkProofs`, `ConfigProofs`, `MenuProofs`, `NicProofs`, `FsysProofs`, `BootProofs` | proofs | extend the module they are about |
| `MC*` | constants of the instances TLC checks (`Nic.cfg` needs none) | extend the module they are about |

Definitions keep the C names. Definitions marked "mutant" are deliberately wrong
variants of the definition that follows them; they are used to see that the
properties notice such an error and are not part of any specification. `Then`
in `BootMem` and `TermDrivers` only gives the result of a call a name.

### TrackBuffer

`disk` is what the media hold, `buf`, `buf_drive`, `buf_track` and `buf_geom`
are the globals of `disk_io.c`, `call` and `out` the request in progress and the
caller's memory. One round of the loop of `rawread` is one action (`ReadHit`,
`ReadMiss`, `ReadBeyondDisk`, `ReadNoDisk`), one sector of `devwrite` another
(`WriteStep`, and `WriteStep0` for sector 0, which looks for an EZ-Drive
table). `biosdisk_bios` gives every outcome of `bios.c`, with the fallback from
LBA to CHS; `biosdisk_efi` those of `efidisk.c`; which of the two builds runs is
chosen at the start. Between commands the user may
exchange a removable medium; `StartCommand` is the `buf_drive = -1` of
`cmdline.c`. Bytes are abstracted to whole sectors: `byte_offset` and `byte_len`
only decide how many sectors a request touches. `IgnoreError` stands for the
callers that clear `errnum` and go on (`find`, `real_open_partition`, `setup` after
a write of `embed` that failed, `builtins.c:4503`).

In four places the code goes on with a buffer, or with a transfer, that may be
wrong and does not know it. The history variable `doubt` collects which of these
`Doubts` have happened since the command began; it has no influence on any step:

| Doubt | Where | What |
|---|---|---|
| "dropped" | `efi/efidisk.c:431` | a transfer failed and its status was dropped |
| "torn" | `stage2/disk_io.c:239` | a partial read marked its track as buffered and the next round failed, as behind the end of the disk or when LBA fails in the middle of a request |
| "kept" | `stage2/disk_io.c:366` | a write left its sector in the buffer with the old contents: it rounds to the track of the drive and not to the virtual track (only where these differ), or it failed, and the code returns before it looks at the buffer |
| "mapped" | `stage2/disk_io.c:241` | a sector of track 0 other than 0 that is first in the buffer has an EZ-Drive type byte, and is replaced |

Every property of the module says which doubts it excepts: `ReadCoherent` and
`BufferCoherent` all four, `WriteDurable` "dropped" only, `TransfersAdvance` none.

### FileService and Tftp

`FileService` is the promise: an open that succeeds reports the length of the
file, and a read delivers the next bytes or fails. Byte *p* of file *f* is
`<<f, p>>`, so wrong bytes are seen. `Tftp` has `buf_fill` as a loop whose
rounds are actions (a packet arrives, a timeout, the loop ends), and its
callers as the variable `ctx`. The server opens a new transfer for every RRQ it
gets, duplicates too. The refinement maps `pc` and `ctx` to the state of the
abstract file; `RefinesFileService` is checked as a property.

Every request goes out from a new port, and `await_reply` ignores packets for
other ports. So packets for old ports only stay in `net`; packets from old ports
to the server are dropped in the model when a port is left, because whatever
they cause would be addressed to that port again.

### Network

An address also stands for the station that has it, so an ARP entry is right
when it holds the address it belongs to. `bootp` is two nested loops, `pc` is
"discover" or "request"; every `await_reply` ends in a reply with the current
`xid`, a timeout, or Control-C. An extension file named by a reply is fetched
inside `TakeReply`, which resolves the next hop before the options of the file
are decoded.

### Config

A file is a sequence of lines, of which only the kind and the numbers of
`default` and `fallback` matter; the two text areas hold positions of lines.
`NextLine(n)` says that line `n` is the next one `get_line_from_config` returns
(0: the end of the file), so what is skipped is a condition and not a loop; a
file of `Endless` shape never returns 0. `Titles`, `Commands`, `Lists` and
`HoldEntries` are the reference: what the areas should hold, said over the file.
`CheckFallback` is one round of the validation loop, so that a loop that does
not end is seen. `do_load_config_file` returns the error and the return value
apart, as the code does. `grub_cln_secure` is chosen when GRUB starts.

### Menu

A frame is an activation of `run_menu`; `'e'` pushes one. The script is the
sequence of strings from `cur_entry` on, in the layout that `cmain` leaves in
memory (`ListAt`), so that running past the end of an entry is visible; `behind`
is the number of the next list, and beyond the last one memory is `Unknown`. A command of an
entry may succeed or fail; `lock` and `boot` depend on the state. `Typed` says
what the user may type, `Setups` which terminals, passwords and SKUs there are
(one is chosen when GRUB starts), `EmptyLists` whether the user empties a list.
The history variable `authority` says under which configuration `auth` was set, so
that an authority that survives into another one is seen.

### Nic

A frame is its number on the wire and whether it arrived damaged. `rx` and `tx`
hold a driver's cursor beside the card's, who owns each descriptor, the card's
own memory for port drivers, and whether receiver and transmitter run. Drivers
are actions side by side (`rtl_poll`, `davicom_poll`, ...): what differs between
them is the order of "take", "check", "give back" and "restart", and how a
transmission that does not end is treated. The card (`Arrive`, `CardSends`) is
external, from the status bits the drivers test. Sets such as `Unchecked`,
`Disorderly`, `LosesPlace`, `KeepsBuffer` and `NeverStops` name the drivers for which a
property does not hold, with the reason; the others are all checked. `NeverStops` is
`otulip` and `epic100`, whose `disable` is empty, and `via-rhine`, whose
`disable` writes to memory instead of the card. `KeepsBuffer` names the drivers
whose buffer is never filled while the card may still send it; `davicom` and
`w89c840` are not among them (see the disagreements), nor those that do not wait.

### Fsys and Gunzip

Positions are blocks; a block reached by pointers is named by the way to it, so a
wrong block is seen. `Sparse` are the tables of pointers an ext2 file does not have,
`MapLen` says how much of a block of pointers `MAPBUF` holds; what the drivers
lose there is `Lost`, and directories with such blocks are `Astray`. `mem` is `FSYS_BUF`: cached indirect blocks, FAT window,
tree path of ReiserFS, its journal table. A call is a number of rounds, each of
which may fail to read; `grub_open`, `grub_seek`, `grub_read` and `dir` come in
any order. After an error the next open mounts again, as `open_device` does (the
`setup` command goes on after an error without a mount, which is not modelled).
`Meaning` in `FsysDir` is the reference: what a path means, defined over the
tree and not over the code. `Gunzip` has blocks of items, one per input byte, and
is suspended wherever the window is full; `Plain` is its reference.

### Boot

Memory is counted in pages and every page of a file is told apart. The loaders
are operators on the state `st` (each with the read that fails as a parameter; `whole` of an image says where its
file ends)
and the commands are actions. `Found` and `ModsFound` look at the pages that
are in memory when a command ends, so `StartsWhatWasLoaded`, the refinement of
`BootSpec`, fails when anything overwrites an image. `st.e` is the firmware's map beside the table of `efimm.c`; `amiss` are the pages
of which the two may disagree, so that `PagesAccounted` can be exact about all
others. The firmware is external:
it allocates from the top of memory, its map may grow while it is fetched
(`grown`), and the map may change before `exit_boot_services` (`moved`).

### Terminal

A terminal has its own cursor and screen; a driver has its idea of them. `ed` is
the line editor with the terminal `ed.t` and a reference screen `ed.ref` that is
given the same output through no driver at all. Keys travel over `kbd`
(with `read_key` of the EFI console) or over `wire` and `input_buf`, and `owed`
remembers what must still be delivered. The BIOS console is treated as the EFI
text console is. Completions are given from outside. With `--dumb`, graphics and
Hercules terminals are left out of the screen properties (`Reliable`). EFI
graphics that cannot be started leave a program that can no longer write: the
phase "dead". The command `terminal` leaves EFI graphics without giving the firmware
its text back (the statements that would are compiled out); `LineShown` and
`ScreenIsText` speak of what the console holds.

### Devices

`start` chooses one of five systems (BIOS, EFI, hosted shell, installation, EFI
start). A disk maps sectors to tables, labels, GPT entries, file systems and the
sectors of GRUB's own images. `PartitionsNamed` compares `next_partition` with
the numbering an operating system uses (`OsParts`), `BootsWhatWasInstalled`
runs stage 1 over the sectors after every single write. `setup` embeds a stage 1.5 on
the destination or, when that fails, installs directly: its second `embed_stage1_5`
cannot succeed, because `errnum` is still set.

## 3. What is checked

| Run | Instance | Checks | Shows |
|---|---|---|---|
| `TrackBuffer` | BIOS and EFI; a removable drive of 3 sectors whose CHS ends after 2, with EZ-Drive media, and a hard disk of 4 with a track of 4, sharing a buffer of 2; requests of up to 3 | `ReadCoherent`, `WriteDurable` | reads and writes are right under all failures and exchanges, but for the four doubts |
| `Tftp` | six kinds of servers, files of 5 bytes and 1 byte, buffer of 4, reads of 4, seeks to 0, 5 block numbers, 1 fault | `StoredIsFile`, `RefinesFileService` | order, single storage, buffer bound, sizing pass, reopening, wrap of block numbers; the driver is a file service |
| `Tftp_ends` | servers with and without options, 3 block numbers for a file of 6 blocks, 1 fault | `CallsEnd` | calls end |
| `Network_dhcp` | two DHCP servers, two exchanges, 1 fault | `RequestIsOffer`, `ReadyIsLeased`, `CallsEnd` | DHCP agreement, termination |
| `Network_arp` | a refusing DHCP and a BOOTP server, user-given addresses, an extension file that names another gateway than the one resolved | `ArpFresh` | the ARP table, but for a replaced gateway |
| `Config` | all files of a menu command and up to 4 lines, or of up to 4 lines without a last newline, fallback lists of up to 4 that fill the table; then eleven cards (six of them with faults of the medium), flash, preset menu, three loads, both kinds of SKU | `MenuValid`, `SignedOnly`, `MenuActivated` | the parser against a reference; validation; signatures; nothing left of earlier loads; termination but for two named loops |
| `Menu` | window of 2, 4 entries, lists of up to 3 lines, all keys, four setups | `SelectionRuns`, `EditorGuarded`, `UnattendedBoot` | what is selected exists and is what runs; authority; countdowns |
| `Nic` | every driver, 3 receive and 2 transmit descriptors, 4 frames, 2 sends | `SendsWhatWasQueued`, `QuietAfterBoot`, `FramesInOrder`, `FramesTaken` | frames once, in order, unchanged, never stuck; silence after boot |
| `Fsys` | nine formats and block lists; files with holes, absent tables of pointers, blocks longer than `MAPBUF`, fragments, three levels of pointers and two leaves; links, directories over several blocks; three compressed streams | `ReadIsFile`, `ReadComplete`, `NameResolved`, `UnpackedIsPlain`, `CallsReturn` | the named file, whole, packed or not; calls return |
| `Boot` | three builds, secure or not, 20 pages, eleven images (ELF and a.out files that are cut or have no addresses among them), `mem=` or not, two modules, 4 commands, eleven machines to probe | `SignedOnly`, `MemoryAccounted`, `ProcessorsNumbered`, `StartsWhatWasLoaded` | the abstract promise, memory, signatures, processors |
| `Terminal` | all terminals, 3 rows of 7, lines of up to 9, window of 5, history of 2, 3 keys typed ahead, 2 commands, eleven systems, among them EFI with five graphics modes two of which are not comparable | `LineShown`, `ScreenIsText`, `KeysInOrder`, `ModeIsBest`, `TerminalChosen` | screen, keys, modes, timeout |
| `Devices` | two BIOS machines, two EFI machines, hosts with disks that are unplugged, targets with and without room for stage 1.5 and one whose room is not used, EFI starts from disk and network | `PartitionsNamed`, `HandlesRoundTrip`, `TransfersLand`, `BootsWhatWasInstalled`, `StartsFromItsFiles`, `NetFileWhole`, `EditsAreLocal` | names, transfers, power cuts, start |

Some properties are conjunctions of named parts: `StoredIsFile` (types, buffer,
acknowledgements), `MenuValid` (types, menu against file, selection),
`SelectionRuns` (types, selection, script), `EditorGuarded` (countdown,
authority), `MemoryAccounted` (E820 map, pages).

Bounds and why they suffice. Virtual tracks of two sectors and requests of three
already give every split of a request (inside a track, to its end, over the
end); three sectors leave a last track that is cut off and lie beyond the CHS
capacity of two, and a track of four is two buffers long. In `Tftp` a
buffer of two large packets is full before the longer file ends, and one fault
at any place meets the client's own timeouts, which may come at any time. In
`Network` two servers and two calls make replies cross between servers and
between exchanges. Files of five lines hold two complete entries behind a menu
command; a fallback table of four is filled with lists whose last number may or
may not name an entry; three loads let a configuration follow two others. A window of two
with four entries scrolls in both directions and has a page that does not fill.
In `Nic` four frames go round a ring of three, and two sends reuse a
descriptor; with a ring of two the cursor of `SK_poll` could not fall behind. In `Fsys` one direct pointer and two per block make three levels
with seven blocks; a window of 4 over longer streams is full in the middle of
blocks and of matches. In `Boot` four commands are a kernel, a module or RAM
disk, a second kernel and `boot`, or a failure and a recovery; six allocations
fill the table, and with 10 pages for RAM disks a second one may find no room.
In `Terminal` a
line of 9 has three sections of a window of 5, and 3 rows scroll with the
second line of output. In `Devices` each system has its own bound on commands
(2 to 4), enough for two changes of one table, a reassignment between an open
and a transfer, and two installations with a power cut in either.
The bounds (`MaxSector`, `MaxLength`, `Writes`, `MaxRequests`, `MaxFaults`, `MaxBootp`,
`MaxOther`, `MaxLoads`, `MaxLines`, `MaxArea` (the text areas, for files that are
read for ever), `MemLimits` (values of `mem=`), `MaxFrames`, `MaxSends`, `MaxCmds`, `Ahead`,
`MaxRow`, and `cmds` in `Starts`) appear in guards only. `EmptyLists` is one
more: in `Menu` the user does not delete the last line of a command list,
because `entryno` becomes -1 there (see below).

Fairness. GRUB runs to completion on its own processor: `buf_fill` and
`await_reply` (which polls and looks at the clock), the parser, the countdown,
the rounds of a filesystem driver and of gunzip are weakly fair. In `Nic` the
stack polls again and again, the wait inside a driver goes on, and a running
transmitter sends. In `Terminal` the clock ticks while `terminal` waits, and its
loop tests its condition. Nothing is assumed of users, servers, networks or
firmware, except that firmware calls return. That the loops of `rawread` and
`devwrite` end needs no fairness as it is stated: `TransfersAdvance` says that
every round leaves less to do (proved, section 4). `await_reply` checks the
clock only when the receive queue is empty; that it is empty at times is assumed,
by a comment in the code too.

Deadlock checking is off where the system may stop: when it has booted, or when
the user does nothing more.

### Disagreements met while modelling

The actions do what the code does, also where a comment or the manual says
something else or the result cannot be meant. No run states the contrary; where a
property needs an exception for such a place, its comment says so.

Disk layer and network:

* `stage2/disk_io.c:366`: `rawwrite` invalidates the buffer by `buf_geom.sectors`, "Clear the cache.", but `rawread` keeps virtual tracks of at most `BUFFERLEN` bytes: 56 sectors, where EFI and most BIOSes report tracks of 63. A sector written behind the first virtual track of a track stays stale ("kept"). Callers that set `buf_track = -1` first are safe (`builtins.c:1405`, `:2529`, `:3181`, `:3262`, `disk_io.c:553`); the last writes of `install` (`:2572`) and `savedefault` (`:3667`) do not.
* `efi/efidisk.c:431`: `biosdisk` returns 0 whatever the status of the transfer was, so EFI disk errors are not reported, neither for reads nor for writes ("dropped").
* `stage2/disk_io.c:239`: a partial read marks its track as buffered. When the next round ends behind the disk, as for a partition that reaches beyond it or when LBA fails in the middle of a request and CHS does not reach so far, and the caller goes on, the buffer is trusted ("torn").
* `stage2/disk_io.c:241`: "This is a EZD disk map sector 0 to sector 1": the test looks at the first sector in the buffer, which need not be sector 0; a sector of track 0 with that type byte is replaced by the next one ("mapped").
* `netboot/fsys_tftp.c:79`: a timeout after the OACK sends the ACK in `tp` to port 69, as if it were the request.
* `netboot/main.c:613`: a DHCPNAK of the last inner round that arrives late makes the network ready without an address, against "Set if an ethernet card is probed and IP addresses are set." (line 50). No server refuses in the run `Network_dhcp`, and `ReadyMeansLeased` has this as a hypothesis.
* `netboot/main.c:1037`: a gateway named in an extension file replaces replaces the one that was resolved to fetch that file; the station is kept. `ArpFresh` excepts this case, which its run reaches.

Network cards:

* `eepro100_poll` restarts the receiver before it copies the only buffer; `w89c840_poll` does not give back the descriptor of a damaged frame; `SK_poll` (`netboot/sk_g16.c:541`) leaves its cursor behind the card after one, so that in a ring of three or more (it has eight) the newest frame comes first once the card has gone round; `eepro_poll` can miss an event; `epic100`, `otulip` and `depca` hand out damaged frames.
* `disable` is empty in `otulip` and `epic100`. `netboot/via-rhine.c:985` and `:987`: "Stop the chip's Tx and Rx processes." is `writeb` and `writew` with the number of an I/O port, which are stores to memory (`netboot/linux-asm-io.h:50`), so the card goes on after the kernel was started; `w89c840.c` redefines both. `cleanup_net` stops a card only if an address was configured.
* The transmit functions of `via-rhine`, `depca`, `sk_g16`, `otulip` and `ns8390` do not wait for the last frame before they fill its buffer again; after a timeout `davicom` leaves the frame to the card and fills its one buffer for the next; the wait of `w89c840` ends with the interrupt of any frame, a received one too (`netboot/w89c840.c:562`). A timeout in `smc9000` leaves the receiver off, and `cs89x0_reset` the line.

Files:

* `fsys_jfs.c:91`: the first extent of every further leaf page is skipped. `fsys_xfs.c:524`: the extent behind a hole is skipped. `fsys_xfs.c:561` and `fsys_jfs.c:300` read the text of a link over the rest of the path.
* `fsys_ext2fs.c:479`-`540`: an absent table of pointers (a hole of a whole table) is number 0, and block 0 of the disk is read as a table. `fsys_ffs.c:108`-`135` and `fsys_ufs2.c:133`-`160`: with blocks of pointers longer than `MAPBUF` (8 kB; the default of both is 16 kB) the wrong part is read, and looked at under the wrong index. These blocks are `Lost`.
* `fsys_ext2fs.c:650`: a bound of the extent search is off by one; `:831` tests the high half of the inode table the wrong way round. In `fsys_fat.c` a `..` that means the root has cluster 0.
* `fsys_vstafs.c`: a read that does not begin at 0 is wrong.

Configuration and menu:

* `stage2/stage2.c:1103`: an unknown command is skipped everywhere ("Unknown command. Just skip now."), against "Unrecognized commands are added to the current entry, except before entries start, where they are ignored." (`docs/grub.texi:2103`). `Commands`, the reference of `MenuValid`, follows the code.
* `stage2/stage2.c:949`: `cln_index` goes back to 0 inside a last line without a newline, so such a file is read again for ever. The run reaches this; `MenuActivated` excepts it as `Endless`.
* `stage2/stage2.c:1186`: a full fallback list whose last entry does not exist is validated for ever, against "Make sure that all fallback entries are valid." (line 1177). The run reaches this too; `MenuActivated` excepts it as `FullList`.
* `stage2/builtins.c:1448`: after a duplicate in `fallback` the blank behind it is parsed as a number, and the command fails.
* `efi/clanton/boot_settings.c:102`: every load sets the name to `/boot/grub/grub.conf`, so `configfile` loads that file.
* `efi/clanton/boot_settings.c:125` and `:166`: after a load from the flash the next one does not look at the SD card first; a missing or bad signature on the card does not lead to the flash.
* `stage2/cmdline.c:209`: with a password set, anybody who starts an entry that fails is given the recovery shell, with all commands and without the password unless the board is a secure one (`efi/clanton/recovery.c:147`), against "GRUB disallows any interactive control, until you press the key p and enter a correct password" (`docs/grub.texi:1692`). `EditorGuarded` speaks of the menu's editor and command line only.
* `stage2/stage2.c:853`: ESC in the copy of an entry that `'a'` has left behind loads a configuration again with `auth` still set, against "Make sure that the user will not have authority in the next configuration." (line 666) and `builtins.c:806`. `AuthorityEnds` excepts this step ("left") and no other.
* `stage2/cmdline.c:211`: `run_script` enters the recovery shell on an error, so the fallback entries (`docs/grub.texi:2136`) are never taken.
* `stage2/cmdline.c:215`: ESC in the recovery shell after a failed implicit boot lets `run_script` run on into the next entry (not on a Secure Boot SKU).
* `stage2/stage2.c:534`: Page Down scrolls the window of a dumb terminal, against "invariant for TERM_DUMB: first_entry == 0" (line 290). `'d'` on the last line of an edited list then leaves the selection behind the list (`:589`); `SelectionValid` says of dumb terminals only what holds.
* `stage2/stage2.c:602`: deleting the last line of a command list makes `entryno` -1; a line inserted then cannot be deleted.
* `stage2/stage2.c:853`: after `'a'` whose boot came back, the main menu has no `config_entries`: it is an editor, and RET does nothing.

Booting:

* `stage2/boot.c:676` and `stage2/boot.c:614`: an ELF file that ends inside a segment is loaded as far as it goes and the command succeeds (`Excused`). `stage2/boot.c:753`: symbols that do not fit leave `cur_addr` 0, so that no module can follow.
* `stage2/boot.c:195`-`504`: a multiboot kernel in a.out format whose header gives no addresses is read to wherever `cur_addr` was left (`Unplaced`).
* `stage2/boot.c:885`-`911`: `load_initrd` never compares `moveto` with `cur_addr`, so that with little memory or a small `mem=` the RAM disk can lie below where it was read, over the kernel; it sets `ramdisk_image` even if the move is refused. `efi/x86_64/loader/linux.c:521`: `addr_min` is 0, so RAM disk and parameters may lie where the kernel is copied to. `StartsWhatWasLoaded` does not look at what was put where it cannot stay.
* `stage2/boot.c:52`: on EFI a `--type` without a loader makes `kernel` fail without an error, so that the script goes on.
* `stage2/boot.c:873`: `load_initrd` on a BIOS does not return from a file that cannot be opened (`halted = "spin"`).
* `efi/ia32/loader/linux.c:109` clears `mmap_buf` but not `mmap_pages`; a second `kernel` on ia32 fails; the failures of a load free nothing. On a secure board freeing the header page of a RAM disk drops its whole entry of the table (these pages are `amiss`).
* `efi/ia32/loader/linux.c:1038` and `efi/x86_64/loader/linux.c:510`: `initrd_pages` is set before room is found, so after a RAM disk that finds none it no longer fits `initrd_mem`, which names the earlier one; a later load that fails frees too many pages.
* `efi/efimm.c:185`: what is allocated when the table is full is in no table, and is never given back.
* `efi/x86_64/loader/linux.c`: a short read is no error, and the pages of the kernel are never freed.
* Multiboot kernels and chain-loaded images are not verified on a secure board; after a failure only the commands of the recovery shell run.
* A default MP configuration counts its second processor twice (`smp-imps.c:594`).

Terminals:

* `stage2/serial.c:370`: `serial_y` is never clamped and wraps at 256. `stage2/char_io.c:774`: `cl_delete` moves too many bytes and reaches into `KILL_BUF`. Without editing, `get_cmdline` ignores `maxlen` (`:1066`). On a secure board ESC falls through (`:969`).
* `efi/graphics.c:635`: a start that fails leaves `backend` set. `efi/efigraph.c:1289`: a second start sets no mode. `efi/efigraph.c:1097` and `efi/efiuga.c:955`: what would give the firmware its text back is under `#if 0`, so `terminal` leaves EFI graphics on. `efi/efigraph.c:1176`: the preference for the firmware's own mode is under `#if 0` too.
* `stage2/graphics.c:457`: scrolling loses the highlight.

Devices and installation:

* `stage2/disk_io.c:765`: the walk of a GPT goes on from the number of the last partition and not from its entry, so entries behind a gap get several numbers; a cyclic chain of extended tables is walked for ever; an empty first entry shifts the logical numbers.
* `efi/efidisk.c:594` passes destination 0, so a BSD slice 0 hides the partitions behind it; `:626`: `swap_devices` saves the wrong device, and the replaced drive is lost.
* `stage2/builtins.c:4435`: the second `embed_stage1_5` of `setup`, for the image's own drive, cannot succeed: the first has left `errnum` set, and every read returns at once.
* `efi/efidisk.c:557`: of two CD-ROM drives the handle of the second is given no name (the instance has one).
* `stage2/builtins.c:206`: `*num_sectors++` moves the pointer. `:3699`: `--once` before `--default` is lost.
* `lib/device.c`: `write_to_partition` ignores `--read-only` ("Disable writing to any disk.", `docs/grub.texi:3572`).
* A power cut between `embed` and `install`, when GRUB is installed a second time, leaves a machine that does not start.

EFI start:

* `efi/efimisc.c:407`: a path that does not begin with a backslash runs over its memory. `grub_save_saved_default` does not truncate. `efi/efitftp.c:165` drops the status of the transfer.

## 4. What is proved

Eighteen of the properties the runs check are theorems of the specifications, for
every value of the constants that the named assumptions allow. Every proof has
the same shape: an invariant `IInv` stronger than the properties, `Init => IInv`,
one lemma for each action or group of actions that keeps it, and then each
property as a consequence of `IInv` (or of `IInv` and one step, for an action
property).

`TrackBufferProofs`, for both builds, any drives, geometries (also tracks longer than
the buffer and disks beyond CHS), partitions (also beyond the disk), media, buffer
and request lengths. The theorems have no hypotheses; what the code gets wrong is
named by the four `Doubts` in the properties, step by step and not by machine:

* `Invariance`: `Spec => []IInv`; from it `TypeCorrect`, `ReadsAreCoherent`,
  `BufferIsCoherent` and `WritesAreDurable`. A drive whose tracks are too long is read
  correctly until a write is "kept", an EFI disk until a transfer fails, and so on;
  `StartCommand` takes all doubts back, since it forgets the buffer.
* `TransfersAlwaysAdvance`: every round of `rawread` and `devwrite` ends the call
  or moves it on inside its range (`TransfersAdvance`, an action property), from
  the same invariant: a virtual track is never empty, so `num_sect` is positive.
* Why a stronger invariant: `ReadCoherent` speaks of the end of a request only.
  `OutInv` says that what has been delivered so far is right, `BufferInv` that
  the buffer is aligned and coherent, *except* between two rounds of one request,
  where it may hold the end of a track under the name of the track; `RoundInv`
  says why this does no harm, since the next round is for a later track.
  `GeomInv` ties `buf_geom` to the drive, `CallInv` keeps writes on the medium,
  `WroteInv` is the progress of a write. That a write invalidates the buffer where
  virtual tracks are tracks is `SameTrack`. The proof has one lemma per group of
  actions and one step per conjunct.

`TftpProofs`, for any files, block lengths, buffer, kinds of servers and numbers
of requests and faults:

* `TransfersInOrder`: `IInv`. `NetInv` says of every packet and of every transfer
  of the server which block it may carry (`InReach`): a duplicate of an old block
  is never in reach of the number the client waits for, which is where the bound
  on block numbers against the wrap at 16 bits enters. `TransferInv` relates what has
  been received, `Received`, to what is in the buffer and what was moved out of it.
  `CallInv` says what `filepos`, `filemax` and `size` are in each caller of
  `buf_fill`.
* `FileIsStored`: `StoredIsFile`.
* `FileServed`: `RefinesFileService`. `Init` maps to `File!Init`, and every step to
  an open, a read, a close, a failure or a stutter of `FileService`.

`NetworkProofs`, for any servers, pools, addresses and retry counts:

* `ArpTableIsFresh`: `ArpFresh`, without a hypothesis; its one exception is a gateway
  that an extension file has replaced. Its invariant `ArpInv` adds that the entry being resolved still has the address
  asked for (`ResolveInv`).
* `RequestsAreOffers`: `RequestIsOffer`, if no BOOTP server answers. Its
  invariant adds that every offer in flight is of the sender's pool and that the
  packet `bootp` repeats is of this form too (`OfferInv`).
* `ReadyMeansLeased`: the action property `ReadyIsLeased`, if besides no server
  refuses. `LeaseInv` adds that no packet has an `xid` still to come, so that a late
  acknowledgement of an earlier call is ignored, and that one of the call under
  way comes from a server that has assigned the address. With a refusing
  server it is false, as the disagreement at `netboot/main.c:613` shows.

`ConfigProofs`, for files of any length, any cards, flash and compiled-in menu,
every size of the fallback list and both kinds of SKU:

* `ConfigInvariant`: `IInv`. `Parsed` says what the two text areas hold when the
  lines up to the current offset are read (`TitlesRead`, `CommandsRead`, and
  `EndsRead` for the three states of the parser), `AreasInv` what they hold
  afterwards; `SelectionInv` how far the fallback list has been checked,
  `FilesInv` where the index of a buffered file may be. Files that are read for
  ever (`Endless`, see above) are left out of what is said about the areas: they
  never reach a menu.
* `MenuIsValid`: `MenuValid`. `OnlySignedFiles`: `SignedOnly`.

`MenuProofs`, for every configuration, window, list of timeouts, password and SKU:

* `MenuInvariant`: `IInv`. `FrameInv` says of each activation of `run_menu` on the
  stack which of its numbers can be trusted: those of the main menu always name
  an entry, those of an edited list do on a terminal with a window as long as the
  last line is not deleted, and a frame without `config_entries` has no countdown.
  `ScriptInv` says that the rest of the running script belongs to the entry that
  was chosen.
* `EditorIsGuarded`: `EditorGuarded`, without any hypothesis: editor and command line of
  the menu need the authority of this configuration, and no countdown runs in the
  editor. It says nothing of the recovery shell of a failed entry.
* `SelectionIsRun`: `SelectionRuns`, under `~EmptyLists`; what happens otherwise is
  the disagreement at `stage2/stage2.c:602`.

`NicProofs`, for rings and card memories of any size and any number of frames:

* `NicInvariant`: `IInv`. `RingInv` says how the cursors of driver and card share a
  ring: what lies between them is what has been received, oldest first, and when
  the card has come round every descriptor holds a frame. It is stated over the
  distance from the driver's cursor (`Order`), so that one lemma serves all
  drivers. `FifoInv` says the same of cards with a memory of their own, `SendInv`
  that a transmit buffer is filled only with its descriptor, `QuietInv` which
  cards may still run after `cleanup_net`.
* `CardsSendWhatWasQueued`, `CardsAreQuiet` and the action property
  `FramesComeInOrder`: `SendsWhatWasQueued`, `QuietAfterBoot`, `FramesInOrder`. They
  have no hypotheses; the drivers for which they are false are named by sets in
  the properties themselves (section 3).

`BootProofs`, for every memory map, all images and RAM disks, signed or not, any
contents of the flash and every size of the tables:

* `BootInvariant`: `IInv`. A signature is verified once, when a file is loaded, so
  what must be shown is that nothing changes it until it is started. `KernelReady`
  says that, while no command has failed, the pages of the kernel, of its
  parameters and of its RAM disk hold what was verified and are GRUB's `Own`: of
  type "loader" and not the buffer of the memory map. The firmware hands out free
  pages only, and that buffer is the one allocation that is given back and
  taken again (`BufferInv`). After a failure only the commands of the recovery
  shell run, which start nothing.
* `StartsSignedOnly`: `SignedOnly`.
* `PagesAreInTable`: `PagesAccounted`, on all three builds. Its invariant `PagesInv`
  adds `Sound`: the firmware's map differs from the one at the start only where GRUB
  has taken a free page (`TypesKept`), and an entry of the table that names a page
  that is no longer GRUB's is `amiss` as a whole (`StaleAmiss`), so that what is
  allocated there again meets no entry that counts. `Tidy` says which pages the
  loader's variables still name between two commands: the buffer of the map and the
  RAM disk, whose addresses outlive an error. `Held` is what makes them safe to give
  back, also when the pages of a RAM disk are freed under the length of another.
* `MemoryIsAccounted`: `MemoryAccounted`. `Descriptors` and `e820_map_from_efi_map`
  are folds; `FoldExists` shows that the function such a fold is made of exists, by
  induction over its length, and `Described` and `Filled` say what the two loops
  have after *k* steps: a run never says anything but the type of its pages, the
  map never anything but what the descriptors so far give, and all of it while it
  is not full.

`FsysProofs`, for files, directories, block sizes, caches, journals and trees of any
size:

* `BuffersFollowFile`: `FsysInv`. `ReadIsFile` says what a block is when it is
  delivered; what must be shown is that what a driver keeps between two blocks
  (`mapblock1` and `mapblock2` with the blocks they name, the FAT window and
  `current_cluster`, the cursors of XFS and JFS, the ReiserFS path and its journal
  table, `BLK_CUR_FILEPOS`) belongs to the file that is loaded (`Buffered`) and to
  its position or an earlier one (`Place`), also after a read that failed half way
  and in a file that is opened without a new mount. `Numbers` keeps a call within
  its file and within what the driver can map.
* `FilesReadTrue`: `ReadIsFile`; `ReadsAreWhole`: `ReadComplete`. Absent tables of
  pointers and blocks longer than `MAPBUF` are part of the model; the blocks that
  ext2, ffs and ufs2 lose there are `Lost` in the property, which is not a
  hypothesis of the theorem: all other blocks of such files are right.
* The assumptions describe a well-formed disk: extents are in order and leave no hole
  (`ExtentAssumption`), no two blocks in use share a place (`BlockAssumption`), the
  items of the ReiserFS tree are in order and cover their files (`TreeAssumption`),
  its journal ends where a transaction is not whole (`JournalAssumption`), names lead
  to files (`EntryAssumption`), and Minix and FFS hold no directory longer than
  their maps (`MapAssumption`). TLC evaluates them on the instance of the run.
* Loops of the code (`binsearch`, the search of the tree, `journal_init`, chains of
  clusters) are recursive functions. The proofs show such a function to exist by
  giving it, and what it returns by induction over `Nat`, with the property
  written as a set: an induction theorem with an operator as its parameter cannot
  be used.

`TypeCorrect`, `BufferIsCoherent`, `TransfersAlwaysAdvance` and the invariants
`IInv` are stated by theorems only; every other theorem states a property that a run
checks too.

Only model-checked:

* liveness (`CallsEnd`, `MenuActivated`, `UnattendedBoot`, `FramesTaken`,
  `CallsReturn`, `TerminalChosen`), which is beyond the prover;
* of `Boot`, the refinement of `BootSpec` (`StartsWhatWasLoaded`), which covers all
  three builds and not only boards that check signatures, and
  `ProcessorsNumbered`, which says something of a machine only together with the
  table that ought to be found on it (`MCMachines`);
* of `Fsys`, `NameResolved` and `UnpackedIsPlain`. Their references, `Meaning` and
  `Plain`, are recursive functions over the whole input, and the walk and the
  decompressor meet them only at the end of a call: a proof would be an induction
  over paths and over streams with every link and every code length;
* all of `Terminal` and `Devices`. `Devices`, `PartTable` and `EfiStart`
  have RECURSIVE operators, which the prover does not accept in a module it
  proves about; what the folds of `TermDrivers` write on a screen is again
  induction over data.

## 5. Not modelled

* Password hashes (`md5.c`, `sha256crypt.c`, `sha512crypt.c`): arithmetic on long words, out of TLC's reach.
* Font data, images and pixels; the layout of packets, descriptors and EFI
  structures (headers such as `efi/grub/efi/api.h`, `jfs.h`, `xfs.h`, `cs89x0.h`).
* `netboot/tlan.c` (a skeleton under `#if 0`), `netboot/fa311.c` (in no table),
  `netboot/i82586.c` (its offsets are scaled twice, so the driver does not work),
  the bus scan of `netboot/pci.c`; in the other drivers EEPROMs, media selection
  and register layouts. They are most of the lines of `netboot/`.
* `fsys_vstafs.c`; bit streams of gunzip below the symbols.
* In `builtins.c` the commands that only print or set a variable no property
  reads (`cat`, `cmp`, `color`, `displaymem`, `md5crypt`, `testload`, ...).
* Bitwise operators and strings of `tparm.c`, completion behind `=`.
* Stage 1, stage 1.5 and other assembly: only what they load is modelled, in
  `Install`. The hosted shell's curses, getopt and main; `util/`, `docs/*.c`.
* The drivers of the Clanton board's flash and SD controller.

## 6. Plan

All modules of the plan are written: 1 `TrackBuffer`, 2 `FileService` and `Tftp`,
3 `Network`, 4 `Config`, 5 `Menu`, 6 `Nic`, 7 `Fsys` and `Gunzip`, 8 `Boot` with `BootMem`
and `Imps`, 9 `Terminal`, 10 `Devices`. All but the last two have proofs.

Theorems that are left, in the order of what they would say about the system:
the refinement of `BootSpec` for one build after the other, where `KernelReady` of
`BootProofs` is the invariant for boards that check signatures; `KeysInOrder` and
`LineShown` of `Terminal`; `NameResolved` for paths without links; as much of
`UnpackedIsPlain` as does not need what `Plain` computes.
