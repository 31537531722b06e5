------------------------------- MODULE MCBoot -------------------------------
EXTENDS Boot, TLC

\* Nothing tells one drive from another.
DriveSymmetry == Permutations(Drives)

Seg(at, file, mem) == [at |-> at, file |-> file, mem |-> mem]
Img(name, mb, elf_, kludge, brand, aout_, linux_, segs, syms, signed, sbh, ask) ==
  [name |-> name, mb |-> mb, elf |-> elf_, kludge |-> kludge, brand |-> brand, aout |-> aout_,
   linux |-> linux_, segs |-> segs, syms |-> syms, signed |-> signed, sbh |-> sbh, ask |-> ask, sane |-> TRUE,
   whole |-> Len(segs) + 1]

bz     == Img("bz", "none", FALSE, FALSE, FALSE, "none", "bzImage", <<Seg(2, 2, 2), Seg(4, 1, 1)>>, 0, TRUE, TRUE, "multiboot")
bzOld  == Img("bzOld", "ok", FALSE, FALSE, FALSE, "none", "bzImage", <<Seg(2, 1, 1), Seg(3, 1, 1)>>, 0, FALSE, TRUE, "none")
zImg   == Img("zImg", "none", FALSE, FALSE, FALSE, "none", "zImage", <<Seg(2, 1, 1), Seg(3, 1, 1)>>, 0, FALSE, FALSE, "none")
mbElf  == Img("mbElf", "ok", TRUE, FALSE, FALSE, "none", "none", <<Seg(2, 1, 1), Seg(4, 1, 2)>>, 1, FALSE, FALSE, "multiboot")
mbFlat == Img("mbFlat", "ok", FALSE, TRUE, FALSE, "none", "none", <<Seg(3, 1, 2)>>, 0, FALSE, FALSE, "none")
bsd    == Img("bsd", "none", TRUE, FALSE, TRUE, "none", "none", <<Seg(2, 2, 2)>>, 0, FALSE, FALSE, "netbsd")
bsdOut == Img("bsdOut", "none", FALSE, FALSE, FALSE, "netbsd", "none", <<Seg(2, 1, 1)>>, 1, FALSE, FALSE, "netbsd")
sector == [Img("sector", "unsupported", FALSE, FALSE, FALSE, "none", "none", <<Seg(0, 1, 1)>>, 0, FALSE, FALSE, "none") EXCEPT !.sane = FALSE]

\* Files that are cut, in a segment and in the symbols, and an a.out file without addresses.
mbCut  == [mbElf EXCEPT !.name = "mbCut", !.whole = 1]
mbBare == [mbElf EXCEPT !.name = "mbBare", !.whole = 2]
mbOut  == Img("mbOut", "ok", FALSE, FALSE, FALSE, "freebsd", "none", <<Seg(2, 1, 2)>>, 1, FALSE, FALSE, "none")
MCImages == {bz, bzOld, zImg, mbElf, mbCut, mbBare, mbFlat, mbOut, bsd, bsdOut, sector}

small == [name |-> "small", len |-> 1, signed |-> TRUE, sbh |-> TRUE]
large == [name |-> "large", len |-> 2, signed |-> FALSE, sbh |-> TRUE]
MCModules == {small, large}

\* Two runs above 1 MB that touch, the higher one first, and memory of the firmware.
MCRam == <<[start |-> 0, num |-> 1, type |-> "ram"], [start |-> 9, num |-> 8, type |-> "ram"],
           [start |-> 2, num |-> 7, type |-> "ram"], [start |-> 17, num |-> 3, type |-> "acpi"]>>
MCEfiMap == [p \in 0 .. 19 |-> CASE p <= 1 -> "boot" [] p \in 2 .. 15 -> "conv" [] p = 16 -> "boot"
                                 [] p = 17 -> "runtime" [] p = 18 -> "acpi" [] p = 19 -> "nvs"]
MCFlash == (<<"kernel", TRUE>> :> bz) @@ (<<"ramdisk", TRUE>> :> small)

\* Machines: `table' is the table that ought to be found.
Pointer(at, type, cth) == [at |-> at, valid |-> TRUE, rev |-> 4, type |-> type, cth |-> cth]
Cth(good, rev, ext) ==
  [good |-> good, rev |-> rev, ext |-> ext, lapic |-> LAPIC_ADDR_DEFAULT,
   entries |-> <<Processor(2, 17, TRUE, FALSE), [t |-> "bus"], Processor(1, 1, TRUE, TRUE),
                 Processor(3, 17, FALSE, FALSE), Processor(0, 17, TRUE, FALSE), [t |-> "ioapic"]>>]
Good == Cth(TRUE, 4, "none")
Machine(lower, ebda, fps, table) ==
  [lower |-> lower, ebda |-> ebda, ebda_len |-> 1, fps |-> fps, bsp |-> 1, new |-> TRUE, table |-> table, default |-> FALSE]
MCMachines == {
  [Machine(640, 0, <<Pointer(970, 5, <<>>)>>, <<>>) EXCEPT !.default = TRUE],
  Machine(640, 639, <<Pointer(639, 0, <<Good>>)>>, <<Good>>),
  Machine(640, 639, <<Pointer(1000, 0, <<Good>>)>>, <<Good>>),
  Machine(640, 700, <<[Pointer(639, 0, <<Good>>) EXCEPT !.valid = FALSE], Pointer(639, 0, <<Good>>)>>, <<Good>>),
  Machine(640, 639, <<Pointer(639, 0, <<Cth(FALSE, 4, "none")>>), Pointer(1000, 0, <<Good>>)>>, <<>>),
  Machine(639, 0, <<Pointer(638, 0, <<Cth(TRUE, 1, "none")>>)>>, <<>>),
  Machine(640, 0, <<Pointer(970, 0, <<Cth(TRUE, 4, "bad")>>)>>, <<>>),
  Machine(640, 0, <<Pointer(970, 0, <<>>)>>, <<>>),
  Machine(640, 0, <<Pointer(970, 8, <<>>)>>, <<>>),
  Machine(640, 0, <<Pointer(800, 0, <<Good>>)>>, <<>>),
  Machine(256, 255, <<Pointer(255, 0, <<Good>>)>>, <<>>)}
=============================================================================
