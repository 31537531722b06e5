------------------------------ MODULE BootEfi ------------------------------
(***************************************************************************)
(* efi/ia32/loader/linux.c, efi/x86_64/loader/linux.c and                  *)
(* efi/efichainloader.c: loading on an EFI machine, with the assets and    *)
(* the signatures of the Clanton boards (efi/clanton/asset.c, mfh.c,       *)
(* iarom.c, imr.c).                                                        *)
(*                                                                         *)
(* s is the state of the loader: s.mem, s.e (efimm.c, in BootMem), s.cur, the        *)
(* addresses real_mode_mem, prot_mode_mem and initrd_mem with their page   *)
(* counts, s.loaded, s.ok (errnum is ERR_NONE) and s.stop (grub_fatal).    *)
(* The operators that end in _64 are those of x86_64.                      *)
(***************************************************************************)
EXTENDS BootMem

CONSTANTS RealPages,   \* pages of the parameters and the command line
          Flash        \* the flash of the board: [<<kind, signed>> -> image or module], where there is one

ASSUME FlashAssumption ==
  /\ RealPages \in Nat \ {0}
  /\ \A i \in DOMAIN Flash : /\ i[1] = "kernel" => Flash[i] \in Images
                             /\ i[1] = "ramdisk" => Flash[i] \in Modules

Fresh == [mem |-> [p \in Page |-> Junk], e |-> grub_efi_mm_init, cur |-> 0, ok |-> TRUE, stop |-> FALSE,
          real |-> Null, realn |-> 0, prot |-> Null, protn |-> 0, initrd |-> Null, initrdn |-> 0,
          loaded |-> FALSE, imr |-> {}]

Err(s)   == [s EXCEPT !.ok = FALSE]
Fatal(s) == [s EXCEPT !.ok = FALSE, !.stop = TRUE]
----------------------------------------------------------------------------
(* Assets: from a file, or from an item of the flash.  A board that does   *)
(* not check signatures may take the signed item and skip its header.      *)

grub_cln_mfh_entry_lookup(item) == IF item \in DOMAIN Flash THEN <<Flash[item]>> ELSE <<>>
spi_open(kind, secure) ==
  LET signed == grub_cln_mfh_entry_lookup(<<kind, TRUE>>)
      plain  == grub_cln_mfh_entry_lookup(<<kind, FALSE>>)
  IN IF secure \/ plain = <<>> THEN signed ELSE plain
grub_cln_asset_open(kind, spi, file, secure) == IF spi THEN spi_open(kind, secure) ELSE <<file>>

\* The signature header of an asset: on a disk a file of its own, that may be missing.
grub_cln_fetch_sbh(asset, spi) == spi \/ asset.sbh

\* As if a header were taken for a signature.
HeaderIsEnough(asset) == asset.sbh

\* The ROM checks what is in memory behind the header.
grub_cln_verify_asset_signature(asset) == asset.signed
----------------------------------------------------------------------------
(* Memory of the loaders.                                                  *)

FreeOne(s, at, n) == IF at = Null THEN s ELSE [s EXCEPT !.e = grub_efi_free_pages(s.e, at, n)]

\* initrd_pages is set before it is known whether the next RAM disk finds room.
FreeInitrd(s) == IF s.initrd = Null THEN s ELSE [s EXCEPT !.e = free_some_pages(s.e, s.initrd, s.initrdn)]

\* mmap_buf is given back as well, and forgotten; mmap_pages is kept.
free_pages(s) ==
  Then(FreeInitrd(FreeOne(FreeOne(s, s.real, s.realn), s.prot, s.protn)), LAMBDA a :
    [FreeOne(a, a.e.buf, a.e.pages) EXCEPT !.real = Null, !.prot = Null, !.initrd = Null, !.e.buf = Null])

GetMap(s, grown) == Then(grub_efi_get_memory_map(s.e, s.mem, grown), LAMBDA r :
                      [s |-> [s EXCEPT !.e = r.e, !.mem = r.mem], ok |-> r.ok])

\* The end of the first run of free memory that is large enough.
RealAt(e, n) ==
  Then(Descriptors(e), LAMBDA ds :
    LET fit == {i \in DOMAIN ds : ds[i].type = "conv" /\ ds[i].num >= n}
    IN IF fit = {} THEN Null
       ELSE LET i == CHOOSE x \in fit : \A y \in fit : x <= y IN ds[i].start + ds[i].num - n)

Take(s, at, n) == Then(grub_efi_allocate_pages(s.e, at, n), LAMBDA r : [s |-> [s EXCEPT !.e = r.e], at |-> r.at])

\* What an earlier kernel had is forgotten, not given back.
allocate_pages(s, n, grown) ==
  Then(GetMap([s EXCEPT !.real = Null, !.prot = Null, !.initrd = Null, !.realn = RealPages, !.protn = n], grown),
    LAMBDA g : IF ~g.ok THEN Err(g.s) ELSE Then(RealAt(g.s.e, RealPages),
    LAMBDA at : IF at = Null THEN Err(free_pages(g.s)) ELSE Then(Take(g.s, at, RealPages),
    LAMBDA r : IF r.at = Null THEN Err(free_pages(r.s)) ELSE Then([r.s EXCEPT !.real = r.at],
    LAMBDA withr : Then(Take(withr, Base, n),
    LAMBDA p : IF p.at # Null THEN [p.s EXCEPT !.prot = p.at] ELSE Err(free_pages(p.s)))))))

\* On x86_64 the kernel may be anywhere, its pages are never given back, and a
\* firmware that refuses is the end.
free_pages_64(s) ==
  Then(FreeInitrd(FreeOne(s, s.real, s.realn)), LAMBDA a :
    [FreeOne(a, a.e.buf, a.e.pages) EXCEPT !.real = Null, !.initrd = Null, !.e.buf = Null])
allocate_pages_64(s, n, grown) ==
  Then(GetMap([s EXCEPT !.real = Null, !.prot = Null, !.realn = RealPages, !.protn = n], grown),
    LAMBDA g : IF ~g.ok THEN Fatal(g.s) ELSE Then(RealAt(g.s.e, RealPages),
    LAMBDA at : IF at = Null THEN Err(free_pages_64(g.s)) ELSE Then(Take(g.s, at, RealPages),
    LAMBDA r : IF r.at = Null THEN Fatal(r.s) ELSE Then([r.s EXCEPT !.real = r.at],
    LAMBDA withr : Then(Take(withr, Null, n),
    LAMBDA p : IF p.at # Null THEN [p.s EXCEPT !.prot = p.at] ELSE Fatal(p.s))))))

\* The regions that only the processor may write: parameters and kernel.
intel_cln_imr_setup(s, n) == [s EXCEPT !.imr = Span(s.real, RealPages) \cup Span(Base, n)]
----------------------------------------------------------------------------
(* Kernels and RAM disks.                                                  *)

Text(k) == k.segs[1].file
PutText(s, k, at, fail) ==
  [s EXCEPT !.mem = Fill(@, at, Text(k), LAMBDA j : IF fail = 2 THEN Junk ELSE <<k.name, 1, j>>)]
PutParams(s, k) ==
  [s EXCEPT !.mem = Fill(@, s.real, RealPages, LAMBDA j : ParamPage(k, j))]

\* Header (fail 1), memory, the isolated regions (3), parameters, the kernel (2), its
\* signature.  After the memory is taken no failure gives it back.
LinuxLoaded(s) == [s EXCEPT !.loaded = s.ok]
grub_load_linux(s, k, secure, spi, grown, fail) ==
  LinuxLoaded(
    IF (secure /\ ~grub_cln_fetch_sbh(k, spi)) \/ fail = 1 \/ k.linux # "bzImage" \/ ~k.sane THEN Err(s)
    ELSE Then(allocate_pages([s EXCEPT !.ok = TRUE], Text(k), grown),
    LAMBDA a : IF ~a.ok THEN a
               ELSE IF fail = 3 THEN Err(a)
               ELSE Then(PutText(PutParams(intel_cln_imr_setup(a, Text(k)), k), k, a.prot, fail),
    LAMBDA c : IF fail = 2 \/ (secure /\ ~grub_cln_verify_asset_signature(k)) THEN Err(c) ELSE c)))
grub_load_linux_64(s, k, grown, fail) ==
  LinuxLoaded(
    IF fail = 1 \/ k.linux # "bzImage" \/ ~k.sane THEN Err(s)
    ELSE Then(allocate_pages_64([s EXCEPT !.ok = TRUE], Text(k), grown),
    LAMBDA a : IF ~a.ok THEN a
               ELSE Then(PutText(PutParams(a, k), k, a.prot, fail),
    LAMBDA c : IF fail = 2 THEN Err(c) ELSE c)))

\* Segments are written where the headers say; cur_addr is behind those that are read.
LoadSegments(mem, k, fail) ==
  LET Got(i) == Read(k, i, fail)
      last   == Tried(k, Got)
  IN [mem |-> PutSegments(mem, k, last, Got),
      cur |-> End(k, IF Got(last) THEN last ELSE last - 1), ok |-> fail # last]

\* Memory for the file is taken at 1 MB, and not for what is behind it.
grub_load_multiboot(s, k, fail) ==
  LET size == k.segs[1].file
      Ended(r) == [r EXCEPT !.loaded = @ /\ r.ok]
  IN Ended(
       IF fail = 1 \/ k.mb = "unsupported" \/ ~k.elf \/ ~k.sane THEN Err(s)
       ELSE Then(Take([s EXCEPT !.ok = TRUE, !.real = Null, !.realn = 0, !.prot = Null, !.protn = size], Base, size),
       LAMBDA t : IF t.at = Null THEN Err(free_pages(t.s))
                  ELSE Then(LoadSegments(t.s.mem, k, fail - 1),
       LAMBDA q : Then([t.s EXCEPT !.prot = t.at, !.cur = q.cur, !.mem = q.mem],
       LAMBDA l : IF q.ok THEN l ELSE Err(l)))))

\* The highest free run between addr_min and addr_max, which mem= may lower; the last that
\* ends higher wins.
InitrdAt(s, n, min, limit) ==
  Then(Descriptors(s.e), LAMBDA ds :
    LET Start(d) == IF d.start < min THEN min ELSE d.start
        fit == {i \in DOMAIN ds : /\ ds[i].type = "conv"
                                  /\ Start(ds[i]) + n <= Least(ds[i].start + ds[i].num, AddrMax(limit))}
    IN IF fit = {} THEN Null
       ELSE LET i == CHOOSE x \in fit : \A y \in fit : y <= x
            IN Least(ds[i].start + ds[i].num, AddrMax(limit)) - n)

Nowhere(s) == [s |-> s, at |-> Null]
PutInitrd(s, m, at, fail) ==
  [s EXCEPT !.initrd = at, !.mem = Fill(@, at, m.len, LAMBDA j : IF fail = 2 THEN Junk ELSE ModPage(m, j))]

\* Well above the kernel, which moves itself.  A signed RAM disk has its header in a
\* page before it, that is given back once the signature is checked.
grub_load_initrd(s, m, secure, spi, grown, limit, fail) ==
  LET hdr == IF secure THEN 1 ELSE 0
      n   == m.len + hdr
  IN IF ~s.loaded \/ (secure /\ ~grub_cln_fetch_sbh(m, spi)) \/ fail = 1 THEN Nowhere(Err(s))
     ELSE Then(GetMap([s EXCEPT !.ok = TRUE, !.initrdn = n], grown),
     LAMBDA g : Then(InitrdAt(g.s, n, s.prot + 3 * s.protn, limit),
     LAMBDA at : IF ~g.ok \/ at = Null THEN Nowhere(Err(g.s)) ELSE Then(Take(g.s, at, n),
     LAMBDA t : IF t.at = Null THEN Nowhere(Err([t.s EXCEPT !.initrd = Null])) ELSE Then(PutInitrd(t.s, m, t.at + hdr, fail),
     LAMBDA got : IF fail = 2 \/ (secure /\ ~grub_cln_verify_asset_signature(m)) THEN Nowhere(Err(got))
                  ELSE [s |-> IF secure THEN [got EXCEPT !.e = free_some_pages(@, t.at, 1)] ELSE got,
                        at |-> t.at + hdr]))))
\* On x86_64 addr_min is 0: it may be where the kernel is moved to by `boot'.
grub_load_initrd_64(s, m, grown, limit, fail) ==
  IF ~s.loaded \/ fail = 1 THEN Nowhere(Err(s))
  ELSE Then(GetMap([s EXCEPT !.ok = TRUE, !.initrdn = m.len], grown),
  LAMBDA g : IF ~g.ok THEN Nowhere(Fatal(g.s)) ELSE Then(InitrdAt(g.s, m.len, 0, limit),
  LAMBDA at : IF at = Null THEN Nowhere(Err(g.s)) ELSE Then(Take(g.s, at, m.len),
  LAMBDA t : IF t.at = Null THEN Nowhere(Fatal(t.s)) ELSE Then(PutInitrd(t.s, m, t.at, fail),
  LAMBDA got : IF fail = 2 THEN Nowhere(Err(got)) ELSE [s |-> got, at |-> t.at]))))
----------------------------------------------------------------------------
(* Leaving the firmware.  moved says that the firmware has changed its map *)
(* between the two calls.                                                  *)

Stay(s) == [s |-> s, go |-> FALSE, e820 |-> <<>>]
Leave(s, grown, moved, Go(_), Back(_)) ==
  Then(GetMap(s, grown), LAMBDA g :
    IF g.ok /\ grub_efi_exit_boot_services(moved) THEN Go(g.s) ELSE Stay(Back(g.s)))
big_linux_boot(s, k, grown, moved) ==
  Leave(s, grown, moved, LAMBDA g : [s |-> g, go |-> TRUE, e820 |-> e820_map_from_efi_map(g.e)], Err)

\* On x86_64 the kernel is copied to where it was linked only now, when
\* nothing is allocated any more.
big_linux_boot_64(s, k, grown, moved) ==
  LET Down(g) == [g EXCEPT !.mem = Fill(@, Base, Text(k), LAMBDA j : IF s.prot + j < Top THEN g.mem[s.prot + j] ELSE Junk)]
  IN Leave(s, grown, moved, LAMBDA g : [s |-> Down(g), go |-> TRUE, e820 |-> e820_map_from_efi_map(g.e)], Fatal)

multi_boot(s, grown, moved) ==
  Leave(s, grown, moved, LAMBDA g : [s |-> g, go |-> TRUE, e820 |-> <<>>], Err)

\* The firmware loads and starts the file; that it comes back is the end.
grub_chainloader(s, fail) == [s EXCEPT !.ok = fail = 0]
=============================================================================
