-------------------------------- MODULE Boot --------------------------------
(***************************************************************************)
(* The commands of stage2/builtins.c that load an operating system and     *)
(* start it, on the three builds: "bios", and EFI on "ia32" and "x86_64".  *)
(* A command runs to its end before the next one is read; it may come from *)
(* a menu entry or be typed, so that any order is possible, also after a   *)
(* command has failed.                                                     *)
(***************************************************************************)
EXTENDS BootBios, BootEfi, Imps

CONSTANTS Drives,    \* BIOS drives
          MapSize,   \* DRIVE_MAP_SIZE
          ArgBuf,    \* command lines that fit into MB_CMDLINE_BUF
          MaxCmds,   \* commands of a session
          MemLimits, \* pages that mem= may leave; 0: no such option
          Machines   \* machines that are probed for processors

VARIABLES build, secure,      \* fixed when GRUB was built and started
          st,                 \* memory and the loaders' variables
          kernel_type, kern,  \* the kind of what is loaded, and which file it is
          mll, ramdisk,       \* modules, and the RAM disk: [at, files]
          args,               \* command lines in MB_CMDLINE_BUF
          linux_mem_size,     \* mem= of the Linux kernel
          upper,              \* mbi.mem_upper
          bios_drive_map, saved_drive, boot_drive,
          shell,              \* "all" commands, or those of the "recovery" shell
          halted,             \* "no", "spin", "fatal", "exit"
          started, e820, cmds,
          imps                \* the machine that was probed, and what was found

vars == <<build, secure, st, kernel_type, kern, mll, ramdisk, args, linux_mem_size, upper,
          bios_drive_map, saved_drive, boot_drive, shell, halted, started, e820, cmds, imps>>

drive == <<bios_drive_map, saved_drive, boot_drive>>

NoImage == [name |-> "none"]
Garbled == [name |-> "garbled"]
FromFlash == [name |-> "--spi", ask |-> "none", linux |-> "bzImage", segs |-> <<0, 0>>]

efi == build # "bios"

\* Kernels that are started without being whole: an ELF file that ends before its segments
\* do (only memory and the device are asked), and the a.out file that nothing puts anywhere.
Excused(k) == (k.elf /\ k.whole < Len(k.segs)) \/ Unplaced(k)

\* On x86_64 `boot' moves the kernel to Base, whatever is there.
Clear(at, n, k) == build = "x86_64" => Span(at, n) \cap Span(Base, Text(k)) = {}

\* What memory holds of the image and of the modules that the loaders' variables name.  A
\* RAM disk, or parameters, that their loader has put where they cannot stay are not looked at.
Found(s, type, k, textAt) ==
  CASE type = "none" -> NoImage
    [] type = "chain" -> k
    [] type = "biglinux" /\ efi ->
         IF /\ Holds(s.mem, textAt, Text(k), LAMBDA j : <<k.name, 1, j>>)
            /\ Clear(s.real, RealPages, k) => Holds(s.mem, s.real, RealPages, LAMBDA j : ParamPage(k, j))
         THEN k ELSE Garbled
    [] OTHER -> IF Excused(k) \/ Loaded(s.mem, k) THEN k ELSE Garbled
ModFound(s, m) == LET pages == Joined(m.files) IN
                  IF Holds(s.mem, m.at, Len(pages), LAMBDA j : pages[j + 1]) THEN m.files ELSE <<Garbled>>
ModsFound(s, type, mods, disk) ==
  CASE type = "multiboot" -> FoldLeft(LAMBDA q, m : q \o ModFound(s, m), <<>>, mods)
    [] type \in {"linux", "biglinux"} /\ disk = <<>> -> <<>>
    [] type \in {"linux", "biglinux"} /\ disk # <<>> ->
         IF disk[1].apart THEN ModFound(s, disk[1]) ELSE disk[1].files
    [] OTHER -> <<>>
----------------------------------------------------------------------------
Init == /\ build \in {"bios", "ia32", "x86_64"}
        /\ secure \in (IF build = "ia32" THEN BOOLEAN ELSE {FALSE})
        /\ st = Fresh
        /\ kernel_type = "none" /\ kern = NoImage /\ mll = <<>> /\ ramdisk = <<>> /\ args = 0 /\ linux_mem_size = 0
        /\ upper = init_bios_info.mem_upper
        /\ bios_drive_map = <<>> /\ saved_drive \in Drives /\ boot_drive = saved_drive
        /\ shell = "all" /\ halted = "no" /\ started = <<NoImage, <<>>>> /\ e820 = <<>> /\ cmds = 0
        /\ imps = [machine |-> <<>>, cpus |-> Unprobed]

Prompt == /\ halted = "no" /\ started[1] = NoImage /\ cmds < MaxCmds /\ shell = "all"
          /\ cmds' = cmds + 1
          /\ UNCHANGED <<build, secure>>
\* No other command reads what impsprobe finds: it has sessions of its own.
Command == Prompt /\ imps.machine = <<>> /\ UNCHANGED imps

\* A Clanton board that checks signatures is left with the recovery commands alone.
grub_cln_recovery_shell(ok) == shell' = IF secure /\ ~ok THEN "recovery" ELSE shell

kernel_bios(k, want, fail) ==
  LET info == [mem_lower |-> init_bios_info.mem_lower, mem_upper |-> upper] IN
  \E r \in {load_image(st.mem, st.cur, k, want, info, fail)} :
     /\ st' = [st EXCEPT !.mem = r.mem, !.cur = r.cur, !.ok = r.type # "none"]
     /\ kernel_type' = r.type
     /\ shell' = shell

\* Without --type the file is taken for Linux, whatever it is; for the types that have no
\* loader the command fails without an error, so that no recovery shell follows.
kernel_efi(k, want, fail, grown) ==
  LET spi == k = FromFlash
      f == grub_cln_asset_open("kernel", spi, k, secure)
      type == CASE want = "none" -> "biglinux"
                [] want = "multiboot" /\ build = "ia32" -> "multiboot"
                [] OTHER -> "none"
      Load == CASE type = "none" -> [st EXCEPT !.ok = TRUE]
                [] type # "none" /\ f = <<>> -> Err(st)
                [] f # <<>> /\ want = "none" /\ build = "ia32" -> grub_load_linux(st, f[1], secure, spi, grown, fail)
                [] f # <<>> /\ want = "none" /\ build = "x86_64" -> grub_load_linux_64(st, f[1], grown, fail)
                [] OTHER -> grub_load_multiboot(st, k, fail)
  IN \E r \in {Load} :
     /\ st' = r
     /\ kernel_type' = IF r.ok THEN type ELSE "none"
     /\ grub_cln_recovery_shell(r.ok)

\* mem= is read with a Linux kernel, and of no use without one.
kernel_func(k, want, fail, grown, mem) ==
  /\ IF efi THEN kernel_efi(k, want, fail, grown) ELSE kernel_bios(k, want, fail)
  /\ kern' = CASE kernel_type' = "none" -> NoImage
               [] kernel_type' # "none" /\ k = FromFlash -> spi_open("kernel", secure)[1]
               [] OTHER -> k
  /\ mll' = <<>> /\ ramdisk' = <<>>
  /\ args' = IF kernel_type' # "none" THEN 1 ELSE 0
  /\ linux_mem_size' = IF kernel_type' \in {"linux", "biglinux"} THEN mem ELSE 0
  /\ halted' = IF st'.stop THEN "fatal" ELSE "no"
  /\ UNCHANGED <<upper, drive, started, e820>>

\* A command line that does not fit is refused before anything is loaded.
module_func(m, fail) ==
  LET r == load_module(st.mem, st.cur, m, IF efi THEN Null ELSE upper, fail) IN
  /\ IF args >= ArgBuf THEN UNCHANGED <<st, mll, args>>
     ELSE /\ st' = [st EXCEPT !.mem = r.mem, !.cur = r.cur]
          /\ mll' = IF r.ok THEN Append(mll, [at |-> st.cur, files |-> <<m>>]) ELSE mll
          /\ args' = IF r.ok THEN args + 1 ELSE args
  /\ UNCHANGED <<kernel_type, kern, ramdisk, linux_mem_size, shell, halted>>

\* On a BIOS machine a file of the list that cannot be opened is tried again for ever.
\* What one RAM disk has overwritten of the kernel the next one does not bring back.
initrd_bios(ms, missing, fail) ==
  \E r \in {load_initrd(st.mem, st.cur, ramdisk, ms, upper, linux_mem_size, fail)} :
  /\ IF missing THEN halted' = "spin" /\ UNCHANGED <<st, ramdisk>>
     ELSE /\ st' = [st EXCEPT !.mem = r.mem]
          /\ ramdisk' = r.ramdisk
          /\ halted' = "no"
  /\ UNCHANGED <<kernel_type, kern, mll, args, linux_mem_size, shell>>
initrd_efi(m, fail, grown) ==
  LET spi == m = FromFlash
      f == grub_cln_asset_open("ramdisk", spi, m, secure)
      Load == IF f = <<>> THEN Nowhere(Err(st))
              ELSE IF build = "ia32" THEN grub_load_initrd(st, f[1], secure, spi, grown, linux_mem_size, fail)
              ELSE grub_load_initrd_64(st, f[1], grown, linux_mem_size, fail)
  IN \E r \in {Load} :
     /\ st' = r.s
     /\ ramdisk' = IF r.at = Null THEN ramdisk ELSE <<[at |-> r.at, files |-> f, apart |-> Clear(r.at, f[1].len, kern)]>>
     /\ halted' = IF r.s.stop THEN "fatal" ELSE "no"
     /\ grub_cln_recovery_shell(r.s.ok)
     /\ UNCHANGED <<kernel_type, kern, mll, args, linux_mem_size>>
initrd_func(ms, missing, fail, grown) ==
  IF efi THEN initrd_efi(ms[1], IF missing THEN 1 ELSE fail, grown) ELSE initrd_bios(ms, missing, fail)

\* A boot sector replaces whatever was loaded.
chainloader_func(k, fail, force) ==
  LET ok == fail = 0 /\ (efi \/ force \/ k.sane) IN
  /\ st' = IF efi THEN grub_chainloader(st, fail) ELSE [st EXCEPT !.ok = ok]
  /\ kernel_type' = IF ok THEN "chain" ELSE "none"
  /\ kern' = IF ok THEN k ELSE NoImage
  /\ UNCHANGED <<mll, ramdisk, args, linux_mem_size, upper, drive, shell, halted, started, e820>>

\* Entries are <<from, to>>: calls for drive `from' go to drive `to'.
map_func(to, from) ==
  LET old == {i \in DOMAIN bios_drive_map : bios_drive_map[i][1] = from}
      i   == IF old = {} THEN Len(bios_drive_map) + 1 ELSE CHOOSE x \in old : TRUE
  IN /\ bios_drive_map' = CASE i > MapSize -> bios_drive_map
                            [] i <= MapSize /\ to = from /\ i <= Len(bios_drive_map) -> RemoveAt(bios_drive_map, i)
                            [] i <= MapSize /\ to = from /\ i > Len(bios_drive_map) -> bios_drive_map
                            [] OTHER -> SubSeq(bios_drive_map, 1, i - 1) \o <<<<from, to>>>>
                                          \o SubSeq(bios_drive_map, i + 1, Len(bios_drive_map))
     /\ UNCHANGED <<saved_drive, boot_drive>>
----------------------------------------------------------------------------
(* boot.                                                                   *)

\* A drive that is mapped is started under the number it has from then on.
NewDrive == LET m == {i \in DOMAIN bios_drive_map : bios_drive_map[i][1] = saved_drive} IN
            IF m = {} THEN saved_drive ELSE bios_drive_map[CHOOSE i \in m : \A j \in m : i <= j][2]
int13(d) == LET m == {i \in DOMAIN bios_drive_map : bios_drive_map[i][1] = d} IN
            IF m = {} THEN d ELSE bios_drive_map[CHOOSE i \in m : TRUE][2]
Swaps == \A d \in Drives : int13(int13(d)) = d

\* The kernel, also when a RAM disk on a BIOS machine was moved over it.
Image(textAt) == IF ~efi /\ (\E i \in DOMAIN ramdisk : ~ramdisk[i].apart) THEN kern
                 ELSE Found(st, kernel_type, kern, textAt)

boot_chain == /\ saved_drive' = NewDrive /\ boot_drive' = NewDrive
              /\ started' = <<IF Swaps => int13(NewDrive) = saved_drive THEN kern ELSE Garbled, <<>>>>
              /\ UNCHANGED <<st, e820, halted, shell, bios_drive_map>>
boot_bios == /\ started' = <<Image(Base), ModsFound(st, kernel_type, mll, ramdisk)>>
             /\ UNCHANGED <<st, e820, halted, shell, drive>>
boot_efi(grown, moved) ==
  LET Go == CASE kernel_type = "biglinux" /\ build = "ia32" -> big_linux_boot(st, kern, grown, moved)
              [] kernel_type = "biglinux" /\ build = "x86_64" -> big_linux_boot_64(st, kern, grown, moved)
              [] OTHER -> multi_boot(st, grown, moved)
  IN \E r \in {Go} :
     /\ st' = r.s
     /\ started' = IF r.go THEN <<Found(r.s, kernel_type, kern, Base), ModsFound(r.s, kernel_type, mll, ramdisk)>>
                   ELSE started
     /\ e820' = r.e820
     /\ halted' = IF r.s.stop THEN "fatal" ELSE "no"
     /\ grub_cln_recovery_shell(r.go)
     /\ UNCHANGED drive
boot_func(grown, moved) ==
  /\ kernel_type # "none"
  /\ CASE kernel_type = "chain" -> boot_chain
       [] kernel_type # "chain" /\ ~efi -> boot_bios
       [] OTHER -> boot_efi(grown, moved)
  /\ UNCHANGED <<kernel_type, kern, mll, ramdisk, args, linux_mem_size, upper>>
----------------------------------------------------------------------------
\* --type is left out, or names some type; --spi is for the boards that have a flash.
Spi == IF build = "ia32" THEN {FromFlash} ELSE {}
Grown == IF efi /\ st.e.buf # Null THEN BOOLEAN ELSE {FALSE}
Kernel == /\ Command /\ bios_drive_map = <<>>
          /\ \E k \in Images \cup Spi : \E want \in {"none", k.ask}, grown \in Grown, fail \in 0 .. Len(k.segs) + 1, mem \in MemLimits :
               /\ mem # 0 => want = "none" /\ k.linux # "none"
               /\ kernel_func(k, want, fail, grown, mem)
Module == /\ Command /\ kernel_type = "multiboot"
          /\ \E m \in Modules, fail \in 0 .. 1 : module_func(m, fail)
          /\ UNCHANGED <<upper, drive, started, e820>>
\* Both `initrd' and, for Linux, `module'.
Initrd == /\ Command /\ kernel_type \in {"linux", "biglinux"}
          /\ \E ms \in {<<m>> : m \in Modules \cup Spi} \cup (Modules \X Modules), missing \in BOOLEAN,
                grown \in Grown, fail \in 0 .. 2 :
               /\ efi => Len(ms) = 1
               /\ missing => fail = 0
               /\ initrd_func(ms, missing, fail, grown)
          /\ UNCHANGED <<upper, drive, started, e820>>
Chainloader == Command /\ \E k \in Images, fail \in 0 .. 1, force \in BOOLEAN : chainloader_func(k, fail, force)
\* Drives are mapped in sessions that chain-load, and only in those.
Map == /\ Command /\ ~efi /\ kernel_type \in {"none", "chain"} /\ st = Fresh
       /\ \E to, from \in Drives : map_func(to, from)
       /\ UNCHANGED <<st, kernel_type, kern, mll, ramdisk, args, linux_mem_size, upper, shell, halted, started, e820>>
\* uppermem: memory above 1 MB is taken to end earlier.
Uppermem == /\ Command /\ ~efi /\ kern = NoImage
            /\ upper' = init_bios_info.mem_upper - 1
            /\ UNCHANGED <<st, kernel_type, kern, mll, ramdisk, args, linux_mem_size, drive, shell, halted, started, e820>>
Start == /\ Command
         /\ \E grown \in Grown, moved \in (IF efi THEN BOOLEAN ELSE {FALSE}) : boot_func(grown, moved)
\* halt, reboot and quit give the firmware its memory back.
Exit == /\ Command /\ efi
        /\ st' = [st EXCEPT !.e = grub_efi_mm_fini(st.e)]
        /\ halted' = "exit" /\ kernel_type' = "none"
        /\ UNCHANGED <<kern, mll, ramdisk, args, linux_mem_size, upper, drive, shell, started, e820>>
\* impsprobe does nothing that the other commands read; the machine is fixed by the first probe.
Impsprobe == /\ Prompt /\ ~efi /\ st = Fresh /\ kern = NoImage /\ bios_drive_map = <<>>
             /\ \E m \in Machines : /\ imps.machine \in {<<>>, <<m>>}
                                   /\ imps' = [machine |-> <<m>>, cpus |-> imps_probe(imps.cpus, m)]
             /\ UNCHANGED <<st, kernel_type, kern, mll, ramdisk, args, linux_mem_size, upper, drive, shell, halted, started, e820>>

Next == Kernel \/ Module \/ Initrd \/ Chainloader \/ Map \/ Uppermem \/ Start \/ Exit \/ Impsprobe

Spec == Init /\ [][Next]_vars
----------------------------------------------------------------------------
\* What is started is the last image that a command has loaded, whole, and its modules:
\* no later command, and no memory the firmware hands out, has overwritten a page of it.
Promise == INSTANCE BootSpec WITH
  image <- Image(IF started[1] = NoImage THEN st.prot ELSE Base),
  mods <- ModsFound(st, kernel_type, mll, ramdisk)
StartsWhatWasLoaded == Promise!Spec

\* A board that checks signatures starts no Linux kernel, and no RAM disk, that the ROM
\* has not found to be signed, and after a failure it runs no command that could.
SignedOnly == (secure /\ started[1] # NoImage /\ kernel_type = "biglinux") =>
                started[1].signed /\ \A i \in DOMAIN started[2] : started[2][i].signed

\* The e820 map that a kernel is given calls nothing RAM that the firmware does not, and,
\* when it has room, leaves out nothing but the hole below 1 MB.
MapIsFirmwares ==
  (kernel_type = "biglinux" /\ efi /\ started[1] # NoImage) =>
    LET In(t) == UNION {Span(e820[i].start, e820[i].num) : i \in {j \in DOMAIN e820 : e820[j].type = t}}
        Is(t) == {p \in Page : st.e.type[p] # "none" /\ E820Type(st.e.type[p]) = t /\ (t = "ram" => p # Hole)}
    IN /\ In("ram") \subseteq Is("ram")
       /\ Len(e820) < E820Max => \A t \in {"ram", "reserved", "acpi", "nvs"} : In(t) = Is(t)

\* Every page that GRUB has from the firmware is in its table, and none is twice: what is
\* given back at the end is what was taken.  Three kinds of pages are left out (amiss): those
\* that came when the table was full, a RAM disk freed under the length of one that found no
\* room, and a signed RAM disk, whose entry goes with the page of its header.
PagesAccounted ==
  LET mine == {p \in Page : st.e.type[p] = "loader"} IN
  /\ (UNION {Span(t.addr, t.num) : t \in st.e.table}) \ st.e.amiss = mine \ st.e.amiss
  /\ \A t, u \in st.e.table : t # u => Span(t.addr, t.num) \cap Span(u.addr, u.num) \subseteq st.e.amiss
  /\ halted = "exit" => \A p \in Page \ st.e.amiss : st.e.type[p] = EfiMap[p]

\* What GRUB says of the machine's memory is what the firmware knows of it: the map it
\* gives the kernel, and the pages it has allocated (efimm.c).
MemoryAccounted == MapIsFirmwares /\ PagesAccounted

\* impsprobe finds the processors of the first valid table, however often it runs: the one
\* that runs GRUB is number 0, the other enabled ones follow in the order of the table, and
\* the two maps are inverses; a machine whose table is bad is left with one processor.  A
\* default configuration counts its second processor twice and is left out.
ProcessorsNumbered ==
  imps.machine # <<>> =>
    LET m == imps.machine[1]
        c == imps.cpus
        on == SelectSeq(IF m.table = <<>> THEN <<>> ELSE m.table[1].entries,
                        LAMBDA e : e.t = "processor" /\ e.on /\ ~e.boot)
    IN  /\ m.table = <<>> => c.enabled = m.default /\ (c.num = 1 \/ m.default)
        /\ m.table # <<>> =>
             /\ c.enabled /\ c.num = 1 + Len(on) /\ c.cpu[0] = m.bsp
             /\ \A i \in 1 .. Len(on) : c.cpu[i] = on[i].id
             /\ \A i \in 0 .. c.num - 1 : c.apic[c.cpu[i]] = i
             /\ c.patched = (on # <<>>)
=============================================================================
